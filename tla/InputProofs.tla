---------------------------- MODULE InputProofs -----------------------------
(***************************************************************************)
(* What holds of the input side for every value of the constants: of       *)
(* InputProcessor for every keymap, window and sequence of reports, and of *)
(* the daemon for any number of ports, addresses, faults and restarts.     *)
(*                                                                         *)
(* The two meet only in the worker's loop, which hands each report it read *)
(* to the processor: neither specification speaks of the other's state,    *)
(* and each invariant stands alone.                                        *)
(***************************************************************************)
EXTENDS InputProcessor, InputDaemon, TLAPS

(* The processor.  Its properties speak of the time between reports; the   *)
(* invariant says what is held after each group of events.                 *)

\* What the virtual keyboard may hold: nothing but keys that are tracked, or
\* the report's where its keys were already emitted.
Explained ==
  /\ stage \in {"read", "modifiers up"} =>
       down \subseteq prev_modifiers \cup KeycodesOf(prev_keys)
  /\ stage = "modifiers down" =>
       down \subseteq (prev_modifiers \cap modifiers) \cup KeycodesOf(prev_keys)
  /\ stage = "keys up" => down \subseteq modifiers \cup KeycodesOf(prev_keys)
  /\ stage = "keys down" => down \subseteq modifiers \cup KeycodesOf(prev_keys \cap keys)
  /\ stage = "read" => prev_modifiers = modifiers /\ prev_keys \subseteq keys
  /\ stage = "released" => down = {}

GhostInv == ProcessorTypeOK /\ Explained

LEMMA TypeInit == ProcessorInit => ProcessorTypeOK
PROOF
  BY KeymapAssumption, TimeAssumption, SMT
  DEF ProcessorInit, ProcessorTypeOK, Stages, Never, Time, None

LEMMA TypeStep == ProcessorTypeOK /\ [ProcessorNext]_processor => ProcessorTypeOK'
<1> SUFFICES ASSUME ProcessorTypeOK, [ProcessorNext]_processor PROVE ProcessorTypeOK'
    OBVIOUS
<1> USE KeymapAssumption, TimeAssumption
<1>1. ASSUME NEW ms \in SUBSET Modifiers, NEW ks \in SUBSET Codes, Report(ms, ks)
      PROVE ProcessorTypeOK'
  BY <1>1 DEF Report, ProcessorTypeOK, Stages, Reaches, Time
<1>2. CASE ReleaseModifiers
  BY <1>2 DEF ReleaseModifiers, ProcessorTypeOK, Stages, Reaches
<1>3. CASE PressModifiers
  BY <1>3 DEF PressModifiers, ProcessorTypeOK, Stages, Reaches
<1>4. CASE ReleaseKeys
  BY <1>4 DEF ReleaseKeys, ProcessorTypeOK, Stages, Reaches
<1>5. CASE PressKeys
  <2>1. KeycodesOf(Pressed) \in SUBSET Keycodes
    BY DEF KeycodesOf, Pressed, Keycode, ProcessorTypeOK
  <2>2. Pressed \subseteq Codes
    BY DEF Pressed, ProcessorTypeOK
  <2> QED
    BY <1>5, <2>1, <2>2 DEF PressKeys, ProcessorTypeOK, Stages, Reaches
<1>6. CASE ReleaseAll
  BY <1>6 DEF ReleaseAll, ProcessorTypeOK, Stages, Reaches, Never, None
<1>7. CASE Tick
  BY <1>7, SMT DEF Tick, ProcessorTypeOK, Time
<1>8. CASE UNCHANGED processor
  BY <1>8 DEF processor, ProcessorTypeOK
<1> QED
  BY <1>1, <1>2, <1>3, <1>4, <1>5, <1>6, <1>7, <1>8 DEF ProcessorNext

LEMMA ExplainedStep == ProcessorTypeOK /\ Explained /\ [ProcessorNext]_processor => Explained'
<1> SUFFICES ASSUME ProcessorTypeOK, Explained, [ProcessorNext]_processor PROVE Explained'
    OBVIOUS
<1> USE KeymapAssumption
<1>1. ASSUME NEW ms \in SUBSET Modifiers, NEW ks \in SUBSET Codes, Report(ms, ks)
      PROVE Explained'
  BY <1>1 DEF Report, Explained, Reaches, KeycodesOf, Keycode
<1>2. CASE ReleaseModifiers
  \* A keycode is not a modifier, so letting a modifier go releases it.
  BY <1>2 DEF ReleaseModifiers, Explained, ProcessorTypeOK, Reaches, KeycodesOf, Keycode
<1>3. CASE PressModifiers
  BY <1>3 DEF PressModifiers, Explained, Reaches, KeycodesOf, Keycode
<1>4. CASE ReleaseKeys
  <2>1. KeycodesOf(prev_keys) \ KeycodesOf(Left) \subseteq KeycodesOf(prev_keys \cap keys)
    BY DEF KeycodesOf, Left
  <2>2. modifiers \cap KeycodesOf(Left) = {}
    BY DEF KeycodesOf, Left, Keycode, ProcessorTypeOK
  <2> QED
    BY <1>4, <2>1, <2>2 DEF ReleaseKeys, Explained, Reaches, KeycodesOf, Keycode
<1>5. CASE PressKeys
  <2>1. KeycodesOf(prev_keys \cap keys) \cup KeycodesOf(Pressed)
          \subseteq KeycodesOf((keys \cap prev_keys) \cup Pressed)
    BY DEF KeycodesOf
  <2>2. Pressed \subseteq keys
    BY DEF Pressed
  <2>3. KeycodesOf(prev_keys)' = KeycodesOf((keys \cap prev_keys) \cup Pressed)
    BY <1>5 DEF PressKeys, KeycodesOf, Keycode
  <2> QED
    BY <1>5, <2>1, <2>2, <2>3 DEF PressKeys, Explained, Reaches
<1>6. CASE ReleaseAll
  BY <1>6 DEF ReleaseAll, Explained, Reaches
<1>7. CASE Tick
  BY <1>7 DEF Tick, Explained, KeycodesOf, Keycode
<1>8. CASE UNCHANGED processor
  BY <1>8 DEF processor, Explained, KeycodesOf, Keycode
<1> QED
  BY <1>1, <1>2, <1>3, <1>4, <1>5, <1>6, <1>7, <1>8 DEF ProcessorNext

\* No key sticks on the virtual keyboard, whatever codes share a keycode.
THEOREM KeysDoNotStick == ProcessorSpec => []NoGhostKeys
<1>1. ProcessorInit => GhostInv
  BY TypeInit DEF ProcessorInit, GhostInv, Explained
<1>2. GhostInv /\ [ProcessorNext]_processor => GhostInv'
  BY TypeStep, ExplainedStep DEF GhostInv
<1>3. GhostInv => NoGhostKeys
  BY DEF GhostInv, Explained, NoGhostKeys, KeycodesOf
<1> QED
  BY <1>1, <1>2, <1>3, PTL DEF ProcessorSpec

----------------------------------------------------------------------------

\* What the virtual keyboard must hold, and what its holding back rests on.
Kept ==
  /\ stage \in {"read", "modifiers up"} => prev_modifiers \subseteq down
  /\ stage = "modifiers down" => (prev_modifiers \cap modifiers) \subseteq down
  /\ stage \in {"keys up", "keys down"} => modifiers \subseteq down
  /\ stage \in {"read", "modifiers up", "modifiers down", "keys up"} =>
       \A c \in prev_keys : Unshared(c) => Keycode(c) \in down
  /\ stage = "keys down" =>
       \A c \in prev_keys \cap keys : Unshared(c) => Keycode(c) \in down

HeldBack ==
  /\ stage # "released" => release_times = up_at
  /\ stage = "read" =>
       \A c \in keys \ prev_keys : up_at[c] # None /\ now - up_at[c] < DEBOUNCE_MS

Timed == now <= clock /\ \A c \in Codes : up_at[c] <= now

HeldInv == GhostInv /\ Kept /\ HeldBack /\ Timed

LEMMA KeptStep == ProcessorTypeOK /\ Explained /\ Kept /\ [ProcessorNext]_processor => Kept'
<1> SUFFICES ASSUME ProcessorTypeOK, Explained, Kept, [ProcessorNext]_processor PROVE Kept'
    OBVIOUS
<1> USE KeymapAssumption
<1>1. ASSUME NEW ms \in SUBSET Modifiers, NEW ks \in SUBSET Codes, Report(ms, ks)
      PROVE Kept'
  BY <1>1 DEF Report, Kept, Reaches
<1>2. CASE ReleaseModifiers
  \* Only modifiers go up, and no code has one of theirs.
  <2>1. \A c \in prev_keys : Unshared(c) => Keycode(c) \notin Modifiers
    BY DEF Unshared, Keycode, ProcessorTypeOK
  <2>2. \A c \in prev_keys : Unshared(c) => Keycode(c) \in down'
    BY <1>2, <2>1 DEF ReleaseModifiers, Kept, ProcessorTypeOK
  <2>3. prev_modifiers \cap modifiers \subseteq down'
    BY <1>2 DEF ReleaseModifiers, Kept
  <2> QED
    BY <1>2, <2>2, <2>3 DEF ReleaseModifiers, Kept, Reaches, Unshared, Keycode
<1>3. CASE PressModifiers
  BY <1>3 DEF PressModifiers, Kept, Reaches
<1>4. CASE ReleaseKeys
  \* The keycode of a code that stays is not released with another one.
  <2>1. ASSUME NEW c \in prev_keys \cap keys, Unshared(c)
        PROVE Keycode(c) \notin KeycodesOf(Left)
    BY <2>1 DEF Unshared, KeycodesOf, Left, ProcessorTypeOK
  <2>2. modifiers \cap KeycodesOf(Left) = {}
    BY DEF KeycodesOf, Left, Keycode, ProcessorTypeOK
  <2> QED
    BY <1>4, <2>1, <2>2 DEF ReleaseKeys, Kept, Reaches
<1>5. CASE PressKeys
  <2>1. \A c \in Pressed : Unshared(c) => Keycode(c) \in KeycodesOf(Pressed)
    BY DEF Unshared, KeycodesOf
  <2> QED
    BY <1>5, <2>1 DEF PressKeys, Kept, Reaches
<1>6. CASE ReleaseAll
  BY <1>6 DEF ReleaseAll, Kept, Reaches
<1>7. CASE Tick
  BY <1>7 DEF Tick, Kept
<1>8. CASE UNCHANGED processor
  BY <1>8 DEF processor, Kept
<1> QED
  BY <1>1, <1>2, <1>3, <1>4, <1>5, <1>6, <1>7, <1>8 DEF ProcessorNext

LEMMA HeldBackStep == ProcessorTypeOK /\ Explained /\ HeldBack /\ [ProcessorNext]_processor => HeldBack'
<1> SUFFICES ASSUME ProcessorTypeOK, Explained, HeldBack, [ProcessorNext]_processor PROVE HeldBack'
    OBVIOUS
<1>1. ASSUME NEW ms \in SUBSET Modifiers, NEW ks \in SUBSET Codes, Report(ms, ks)
      PROVE HeldBack'
  BY <1>1 DEF Report, HeldBack, Reaches
<1>2. CASE ReleaseModifiers
  BY <1>2 DEF ReleaseModifiers, HeldBack, Reaches
<1>3. CASE PressModifiers
  BY <1>3 DEF PressModifiers, HeldBack, Reaches
<1>4. CASE ReleaseKeys
  <2>1. release_times = up_at
    BY <1>4 DEF ReleaseKeys, HeldBack
  <2>2. release_times' = up_at'
    BY <1>4, <2>1 DEF ReleaseKeys
  <2> QED
    BY <1>4, <2>2 DEF ReleaseKeys, HeldBack, Reaches
<1>5. CASE PressKeys
  <2>1. \A c \in keys : c \notin (keys \cap prev_keys) \cup Pressed => Suppressed(c)
    BY DEF Pressed
  <2> QED
    BY <1>5, <2>1 DEF PressKeys, HeldBack, Reaches, Suppressed
<1>6. CASE ReleaseAll
  BY <1>6 DEF ReleaseAll, HeldBack, Reaches
<1>7. CASE Tick
  BY <1>7 DEF Tick, HeldBack
<1>8. CASE UNCHANGED processor
  BY <1>8 DEF processor, HeldBack
<1> QED
  BY <1>1, <1>2, <1>3, <1>4, <1>5, <1>6, <1>7, <1>8 DEF ProcessorNext

LEMMA TimedStep == ProcessorTypeOK /\ Timed /\ [ProcessorNext]_processor => Timed'
<1> SUFFICES ASSUME ProcessorTypeOK, Timed, [ProcessorNext]_processor PROVE Timed'
    OBVIOUS
<1> USE TimeAssumption
<1>0. now \in Int /\ clock \in Int /\ \A c \in Codes : up_at[c] \in Int
  BY DEF ProcessorTypeOK, Time, None
<1>1. ASSUME NEW ms \in SUBSET Modifiers, NEW ks \in SUBSET Codes, Report(ms, ks)
      PROVE Timed'
  <2>1. now' = clock /\ clock' = clock /\ up_at' = up_at
    BY <1>1 DEF Report
  <2>2. ASSUME NEW c \in Codes PROVE up_at[c] <= clock
    <3>1. up_at[c] \in Int /\ up_at[c] <= now /\ now <= clock
      BY <1>0 DEF Timed
    <3> QED
      BY <1>0, <3>1
  <2> QED
    BY <1>0, <2>1, <2>2 DEF Timed
<1>2. CASE ReleaseKeys
  <2>1. now' = now /\ clock' = clock
    BY <1>2 DEF ReleaseKeys
  <2>2. ASSUME NEW c \in Codes PROVE up_at'[c] <= now
    <3>1. up_at'[c] = now \/ up_at'[c] = up_at[c]
      BY <1>2 DEF ReleaseKeys
    <3>2. up_at[c] <= now
      BY DEF Timed
    <3> QED
      BY <1>0, <3>1, <3>2
  <2> QED
    BY <2>1, <2>2 DEF Timed
<1>3. CASE Tick
  <2>1. now' = now /\ up_at' = up_at /\ clock' = clock + 1
    BY <1>3 DEF Tick
  <2>2. now <= clock + 1
    BY <1>0 DEF Timed
  <2> QED
    BY <2>1, <2>2 DEF Timed
<1>4. CASE ReleaseModifiers \/ PressModifiers \/ PressKeys \/ ReleaseAll \/ UNCHANGED processor
  BY <1>4 DEF ReleaseModifiers, PressModifiers, PressKeys, ReleaseAll, processor, Timed
<1> QED
  BY <1>1, <1>2, <1>3, <1>4 DEF ProcessorNext

LEMMA HeldInvHolds == ProcessorSpec => []HeldInv
<1>1. ProcessorInit => HeldInv
  <2>1. ProcessorInit => ProcessorTypeOK /\ Explained /\ Kept /\ HeldBack
    BY TypeInit DEF ProcessorInit, Explained, Kept, HeldBack
  <2>2. ProcessorInit => Timed
    BY TimeAssumption DEF ProcessorInit, Timed, Never, None
  <2> QED
    BY <2>1, <2>2 DEF HeldInv, GhostInv
<1>2. HeldInv /\ [ProcessorNext]_processor => HeldInv'
  BY TypeStep, ExplainedStep, KeptStep, HeldBackStep, TimedStep DEF HeldInv, GhostInv
<1> QED
  BY <1>1, <1>2, PTL DEF ProcessorSpec

\* A key the keyboard reports is held, but for one within the window after its
\* release.
THEOREM ReportedKeysAreHeld == ProcessorSpec => []HeldKeysAreDown
<1>1. HeldInv => HeldKeysAreDown
  <2> SUFFICES ASSUME HeldInv, stage = "read" PROVE HeldKeysAreDown
      BY DEF HeldKeysAreDown
  <2>1. prev_modifiers = modifiers /\ modifiers \subseteq down
    BY DEF HeldInv, GhostInv, Explained, Kept
  <2>2. ASSUME NEW c \in keys, Unshared(c)
        PROVE Keycode(c) \in down \/ (up_at[c] # None /\ now - up_at[c] < DEBOUNCE_MS)
    BY <2>2 DEF HeldInv, Kept, HeldBack
  <2> QED
    BY <2>1, <2>2 DEF HeldKeysAreDown
<1> QED
  BY <1>1, HeldInvHolds, PTL

\* No press follows its key's release within the window, and each is made
\* under the modifiers of its report.
THEOREM NoChatter == ProcessorSpec => PressesAreClean
<1> DEFINE Clean ==
      \A c \in Codes :
        Unshared(c) /\ Keycode(c) \in down' \ down =>
          /\ down' \cap Modifiers = modifiers
          /\ up_at[c] # None => now - up_at[c] >= DEBOUNCE_MS
<1>1. HeldInv /\ [ProcessorNext]_processor => [Clean]_processor
  <2> SUFFICES ASSUME HeldInv, ProcessorNext, NEW c \in Codes, Unshared(c),
                      Keycode(c) \in down' \ down
               PROVE  /\ down' \cap Modifiers = modifiers
                      /\ up_at[c] # None => now - up_at[c] >= DEBOUNCE_MS
      OBVIOUS
  <2> USE KeymapAssumption
  <2>1. Keycode(c) \in Keycodes /\ Keycode(c) \notin Modifiers
    BY DEF Unshared, Keycode
  <2>2. PressKeys
    BY <2>1 DEF ProcessorNext, Report, ReleaseModifiers, PressModifiers, ReleaseKeys, ReleaseAll,
                Tick, HeldInv, GhostInv, ProcessorTypeOK
  <2>3. c \in Pressed
    BY <2>2 DEF PressKeys, KeycodesOf, Pressed, Unshared, HeldInv, GhostInv, ProcessorTypeOK
  <2>4. down \cap Modifiers = modifiers
    <3>1. down \subseteq modifiers \cup KeycodesOf(prev_keys \cap keys)
      BY <2>2 DEF PressKeys, HeldInv, GhostInv, Explained
    <3>2. KeycodesOf(prev_keys \cap keys) \cap Modifiers = {}
      BY DEF KeycodesOf, Keycode, HeldInv, GhostInv, ProcessorTypeOK
    <3>3. modifiers \subseteq down /\ modifiers \subseteq Modifiers
      BY <2>2 DEF PressKeys, HeldInv, GhostInv, ProcessorTypeOK, Kept
    <3> QED
      BY <3>1, <3>2, <3>3
  <2>5. KeycodesOf(Pressed) \cap Modifiers = {}
    BY DEF KeycodesOf, Keycode, Pressed, HeldInv, GhostInv, ProcessorTypeOK
  <2>6. down' \cap Modifiers = modifiers
    BY <2>2, <2>4, <2>5 DEF PressKeys
  <2>7. up_at[c] # None => now - up_at[c] >= DEBOUNCE_MS
    <3>1. now \in Int /\ up_at[c] \in Int /\ DEBOUNCE_MS \in Nat /\ up_at[c] <= now
      BY TimeAssumption DEF HeldInv, GhostInv, ProcessorTypeOK, Time, None, Timed
    <3>2. release_times = up_at
      BY <2>2 DEF PressKeys, HeldInv, HeldBack
    <3>3. ~ Suppressed(c)
      BY <2>3 DEF Pressed
    <3>4. Keycode(c) # Unmapped
      BY DEF Unshared
    <3> QED
      BY <3>1, <3>2, <3>3, <3>4 DEF Suppressed
  <2> QED
    BY <2>6, <2>7
<1>2. HeldInv /\ [ProcessorNext]_processor => [Clean]_processor
  BY <1>1
<1> QED
  BY <1>2, HeldInvHolds, PTL DEF ProcessorSpec, PressesAreClean

----------------------------------------------------------------------------
(* The bus and the sessions.  A keyboard has the last address its port was *)
(* given.  Its keys are the kernel's, or those of the one session that     *)
(* took them from the kernel and will give them back, unless an open of it *)
(* failed half way.                                                        *)

Owner == Sessions \cup {Kernel, Nobody}

BusOK ==
  \A p \in Ports : at[p] # NoAddress => at[p] <= addresses /\ port[at[p]] = p

HandleOK ==
  \A s \in Sessions :
    /\ pc[s] \in {"claim", "protocol", "open"} => dev[s] \in Addresses
    /\ pc[s] = "claim" => todo[s] # {}

Has(s, a) == pc[s] \in {"claim", "protocol", "open"} /\ dev[s] = a /\ detached[s]

KeysOwned ==
  \A a \in Live \ dropped :
    /\ owner[a][IF0] # Nobody
    /\ \A s \in Sessions : owner[a][IF0] = s => Has(s, a)

UsbInv == UsbTypeOK /\ BusOK /\ HandleOK /\ KeysOwned

\* What is given out is not taken back.
BusGrows ==
  /\ addresses <= addresses'
  /\ \A a \in Addresses : a <= addresses => port'[a] = port[a]

LEMMA Numbers ==
  /\ MaxAddresses \in Nat \ {0} /\ NoAddress \notin Addresses
  /\ \A a \in Addresses : a \in Nat
  /\ IF0 \in Interfaces /\ IF1 \in Interfaces
  /\ Kernel # Nobody /\ Kernel \notin Sessions /\ Nobody \notin Sessions
  BY BoundsAssumption, OwnersAssumption DEF Addresses, NoAddress, Interfaces, IF0, IF1

LEMMA EnumeratesStep ==
  ASSUME UsbTypeOK, BusOK, NEW p \in Ports, Enumerates(p)
  PROVE  /\ at' \in [Ports -> Addresses \cup {NoAddress}]
         /\ addresses' \in 0 .. MaxAddresses /\ addresses' \in Addresses
         /\ addresses' \notin Live
         /\ port' \in [Addresses -> Ports]
         /\ BusOK' /\ BusGrows
         /\ \A a \in Addresses : a \in Live' => a = addresses' \/ (a \in Live /\ a # at[p])
  <1>1. addresses \in Nat /\ addresses < MaxAddresses /\ MaxAddresses \in Nat
    BY Numbers DEF UsbTypeOK, Enumerates
  <1>2. PICK n \in Addresses : n = addresses + 1
    BY <1>1 DEF Addresses
  <1>3. /\ addresses' = n /\ n \in Nat /\ addresses < n
        /\ at' = [at EXCEPT ![p] = n] /\ port' = [port EXCEPT ![n] = p]
    BY <1>1, <1>2 DEF Enumerates
  <1>4. /\ at' \in [Ports -> Addresses \cup {NoAddress}] /\ port' \in [Addresses -> Ports]
        /\ addresses' \in 0 .. MaxAddresses
    BY <1>1, <1>2, <1>3 DEF UsbTypeOK
  <1>5. BusGrows
    BY <1>1, <1>3, Numbers DEF BusGrows, UsbTypeOK
  <1>6. \A q \in Ports : at[q] # NoAddress => at[q] # n /\ at[q] \in Addresses
    BY <1>1, <1>3, Numbers DEF BusOK, UsbTypeOK
  <1>7. BusOK'
    <2> SUFFICES ASSUME NEW q \in Ports, at'[q] # NoAddress
                 PROVE  at'[q] <= addresses' /\ port'[at'[q]] = q
      BY DEF BusOK
    <2>1. CASE q = p
      BY <1>2, <1>3, <2>1 DEF UsbTypeOK
    <2>2. CASE q # p
      <3>1. at'[q] = at[q] /\ at[q] # n /\ at[q] \in Addresses /\ at[q] <= addresses
        BY <1>3, <1>6, <2>2 DEF UsbTypeOK, BusOK
      <3>2. port'[at[q]] = q
        BY <1>3, <3>1 DEF UsbTypeOK, BusOK
      <3>3. at[q] <= n
        <4>1. at[q] \in Nat
          BY <3>1, Numbers
        <4>2. \A x \in Nat : x <= addresses => x <= n
          BY <1>1, <1>3
        <4> QED
          BY <3>1, <4>1, <4>2
      <3> QED
        BY <1>3, <3>1, <3>2, <3>3
    <2> QED
      BY <2>1, <2>2
  <1>8. ASSUME NEW a \in Addresses, a \in Live'
        PROVE  a = addresses' \/ (a \in Live /\ a # at[p])
    <2>1. PICK q \in Ports : at'[q] = a
      BY <1>8 DEF Live
    <2>2. CASE q = p
      BY <1>2, <1>3, <2>1, <2>2 DEF UsbTypeOK
    <2>3. CASE q # p
      <3>1. at[q] = a /\ a # NoAddress
        BY <1>3, <2>1, <2>3, Numbers DEF UsbTypeOK
      <3>2. port[a] = q
        BY <3>1 DEF BusOK
      <3>3. at[p] # a
        BY <2>3, <3>1, <3>2 DEF BusOK
      <3> QED
        BY <3>1, <3>3 DEF Live
    <2> QED
      BY <2>2, <2>3
  <1>9. n \notin Live
    BY <1>2, <1>6, Numbers DEF Live
  <1> QED
    BY <1>2, <1>3, <1>4, <1>5, <1>7, <1>8, <1>9

LEMMA PlugStep ==
  ASSUME UsbInv, NEW p \in Ports, Plug(p)
  PROVE  UsbInv' /\ BusGrows
  <1>1. UsbTypeOK /\ BusOK /\ HandleOK /\ KeysOwned /\ Enumerates(p)
    BY DEF UsbInv, Plug
  <1>2. PICK n \in Addresses : n = addresses'
    BY <1>1, EnumeratesStep
  <1>3. owner' = [owner EXCEPT ![n] = Bound] /\ UNCHANGED <<session, dropped, faults>>
    BY <1>2 DEF Plug
  <1>4. Bound \in [Interfaces -> Sessions \cup {Kernel, Nobody}]
    BY DEF Bound
  <1>5. UsbTypeOK'
    BY <1>1, <1>3, <1>4, EnumeratesStep DEF UsbTypeOK, session
  <1>6. HandleOK'
    BY <1>1, <1>3 DEF HandleOK, session
  <1>7. KeysOwned'
    <2> SUFFICES ASSUME NEW a \in Addresses, a \in Live', a \notin dropped
                 PROVE  /\ owner'[a][IF0] # Nobody
                        /\ \A s \in Sessions : owner'[a][IF0] = s => Has(s, a)'
      BY <1>3 DEF KeysOwned, Live
    <2>1. CASE a = n
      BY <1>1, <1>3, <2>1, Numbers DEF UsbTypeOK, Bound
    <2>2. CASE a # n
      <3>1. a \in Live /\ owner'[a] = owner[a]
        BY <1>1, <1>2, <1>3, <2>2, EnumeratesStep DEF UsbTypeOK
      <3> QED
        BY <1>1, <1>3, <3>1 DEF KeysOwned, Has, session
    <2> QED
      BY <2>1, <2>2
  <1> QED
    BY <1>1, <1>5, <1>6, <1>7, EnumeratesStep DEF UsbInv

LEMMA UnplugStep ==
  ASSUME UsbInv, NEW p \in Ports, Unplug(p)
  PROVE  UsbInv' /\ BusGrows
  <1>1. UsbTypeOK /\ BusOK /\ HandleOK /\ KeysOwned
    BY DEF UsbInv
  <1>2. PICK b \in Addresses : b = at[p]
    BY <1>1 DEF Unplug, UsbTypeOK
  <1>3. /\ owner' = [owner EXCEPT ![b] = Gone] /\ at' = [at EXCEPT ![p] = NoAddress]
        /\ dropped' = dropped \ {b}
        /\ UNCHANGED <<addresses, port, session, faults>>
    BY <1>2 DEF Unplug
  <1>4. Gone \in [Interfaces -> Sessions \cup {Kernel, Nobody}]
    BY DEF Gone
  <1>5. UsbTypeOK'
    BY <1>1, <1>3, <1>4 DEF UsbTypeOK, session
  <1>6. HandleOK' /\ BusOK'
    BY <1>1, <1>3 DEF HandleOK, BusOK, session, UsbTypeOK
  <1>7. BusGrows
    BY <1>1, <1>3 DEF BusGrows, UsbTypeOK
  <1>8. KeysOwned'
    <2> SUFFICES ASSUME NEW a \in Addresses, a \in Live', a \notin dropped'
                 PROVE  /\ owner'[a][IF0] # Nobody
                        /\ \A s \in Sessions : owner'[a][IF0] = s => Has(s, a)'
      BY DEF KeysOwned, Live
    <2>1. PICK q \in Ports : at'[q] = a
      BY DEF Live
    <2>2. q # p /\ at[q] = a
      BY <1>1, <1>3, <2>1, Numbers DEF UsbTypeOK
    <2>3. a # b
      BY <1>1, <1>2, <2>2, Numbers DEF BusOK
    <2>4. a \in Live \ dropped /\ owner'[a] = owner[a]
      BY <1>1, <1>3, <2>2, <2>3 DEF Live, UsbTypeOK
    <2> QED
      BY <1>1, <1>3, <2>4 DEF KeysOwned, Has, session
  <1> QED
    BY <1>5, <1>6, <1>7, <1>8 DEF UsbInv

\* A reset of the keyboard at address b leaves the others as they are; its
\* interfaces are handed over as ifs says, torn off, or bound anew elsewhere.
LEMMA ResetStep ==
  ASSUME UsbTypeOK, BusOK, NEW b \in Addresses,
         NEW ifs \in [Interfaces -> Owner], Reset(b, ifs)
  PROVE  /\ at' \in [Ports -> Addresses \cup {NoAddress}]
         /\ addresses' \in 0 .. MaxAddresses
         /\ port' \in [Addresses -> Ports]
         /\ owner' \in [Addresses -> [Interfaces -> Owner]]
         /\ BusOK' /\ BusGrows
         /\ \A a \in Addresses : a \in Live' =>
              \/ owner'[a][IF0] = Kernel
              \/ a \in Live /\ a = b /\ owner'[a] \in {ifs, TornOff(ifs)}
              \/ a \in Live /\ a # b /\ owner'[a] = owner[a]
  <1>1. TornOff(ifs) \in [Interfaces -> Owner]
    BY DEF TornOff, Owner
  <1>2. owner \in [Addresses -> [Interfaces -> Owner]]
    BY DEF UsbTypeOK, Owner
  <1>3. CASE /\ owner' \in {[owner EXCEPT ![b] = ifs], [owner EXCEPT ![b] = TornOff(ifs)]}
             /\ UNCHANGED <<at, addresses, port>>
    <2>1. owner' \in [Addresses -> [Interfaces -> Owner]]
      BY <1>1, <1>2, <1>3
    <2>2. BusOK' /\ BusGrows /\ Live' = Live
      BY <1>3 DEF BusOK, BusGrows, Live, UsbTypeOK
    <2>3. \A a \in Addresses : IF a = b THEN owner'[a] \in {ifs, TornOff(ifs)}
                               ELSE owner'[a] = owner[a]
      BY <1>2, <1>3
    <2> QED
      BY <1>3, <2>1, <2>2, <2>3 DEF UsbTypeOK
  <1>4. CASE /\ b \in Live
             /\ Enumerates(port[b])
             /\ owner' = [owner EXCEPT ![b] = Gone, ![addresses'] = Bound]
    <2>1. port[b] \in Ports /\ at[port[b]] = b
      BY <1>4 DEF UsbTypeOK, BusOK, Live, Addresses, NoAddress
    <2>2. PICK n \in Addresses : n = addresses'
      BY <1>4, <2>1, EnumeratesStep
    <2>3. owner' = [owner EXCEPT ![b] = Gone, ![n] = Bound]
      BY <1>4, <2>2
    <2>4. Gone \in [Interfaces -> Owner] /\ Bound \in [Interfaces -> Owner] /\ Bound[IF0] = Kernel
      BY Numbers DEF Gone, Bound, Owner
    <2>5. owner' \in [Addresses -> [Interfaces -> Owner]]
      BY <1>2, <2>3, <2>4
    <2>6. ASSUME NEW a \in Addresses, a \in Live'
          PROVE  \/ owner'[a][IF0] = Kernel
                 \/ a \in Live /\ a # b /\ owner'[a] = owner[a]
      <3>1. a = n \/ (a \in Live /\ a # b)
        BY <1>4, <2>1, <2>2, <2>6, EnumeratesStep
      <3> QED
        BY <1>2, <2>3, <2>4, <3>1
    <2> QED
      BY <1>4, <2>1, <2>5, <2>6, EnumeratesStep
  <1> QED
    BY <1>3, <1>4 DEF Reset

\* What the step of a session means for the keys: it keeps them, if each
\* keyboard's are the kernel's, or as before, where s has no part in it.
LEMMA KeysKept ==
  ASSUME UsbInv, NEW s \in Sessions,
         \A q \in Sessions \ {s} :
           pc'[q] = pc[q] /\ dev'[q] = dev[q] /\ detached'[q] = detached[q],
         \A a \in Addresses : a \in Live' /\ a \notin dropped' =>
           \/ owner'[a][IF0] = Kernel
           \/ owner'[a][IF0] = s /\ Has(s, a)'
           \/ /\ a \in Live \ dropped
              /\ owner'[a][IF0] = owner[a][IF0] /\ owner[a][IF0] # s
  PROVE  KeysOwned'
  <1> SUFFICES ASSUME NEW a \in Addresses, a \in Live', a \notin dropped'
               PROVE  /\ owner'[a][IF0] # Nobody
                      /\ \A q \in Sessions : owner'[a][IF0] = q => Has(q, a)'
    BY DEF KeysOwned, Live
  <1>1. CASE owner'[a][IF0] = Kernel
    BY <1>1, Numbers
  <1>2. CASE owner'[a][IF0] = s /\ Has(s, a)'
    BY <1>2, Numbers
  <1>3. CASE /\ a \in Live \ dropped
             /\ owner'[a][IF0] = owner[a][IF0] /\ owner[a][IF0] # s
    BY <1>3 DEF UsbInv, KeysOwned, Has
  <1> QED
    BY <1>1, <1>2, <1>3

LEMMA ForgetsType ==
  ASSUME UsbTypeOK, NEW s \in Sessions, Forgets(s)
  PROVE  /\ want' \in [Sessions -> Addresses \cup {NoAddress}]
         /\ dev' \in [Sessions -> Addresses \cup {NoAddress}]
         /\ todo' \in [Sessions -> SUBSET Interfaces]
         /\ detached' \in [Sessions -> BOOLEAN]
         /\ recovered' \in [Sessions -> BOOLEAN]
         /\ \A q \in Sessions \ {s} :
              dev'[q] = dev[q] /\ detached'[q] = detached[q] /\ todo'[q] = todo[q]
  BY DEF UsbTypeOK, Forgets

LEMMA GoesType ==
  ASSUME UsbTypeOK, NEW s \in Sessions, NEW to \in Pcs, Goes(s, to)
  PROVE  /\ pc' \in [Sessions -> Pcs] /\ pc'[s] = to
         /\ \A q \in Sessions \ {s} : pc'[q] = pc[q]
  BY DEF UsbTypeOK, Goes

LEMMA LetGoType ==
  ASSUME NEW s \in Sessions, NEW ifs \in [Interfaces -> Owner]
  PROVE  /\ LetGo(s, ifs) \in [Interfaces -> Owner]
         /\ LetGo(s, ifs)[IF0] = IF ifs[IF0] = s THEN Nobody ELSE ifs[IF0]
         /\ GivenBack(s, ifs) \in [Interfaces -> Owner]
         /\ GivenBack(s, ifs)[IF0]
              = IF detached[s] /\ ifs[IF0] \in {s, Nobody} THEN Kernel
                ELSE IF ifs[IF0] = s THEN Nobody ELSE ifs[IF0]
         /\ TornOff(ifs)[IF0] = IF ifs[IF0] = Nobody THEN Nobody ELSE Kernel
  BY Numbers DEF LetGo, GivenBack, TornOff, Owner

\* An open that fails: the keyboard it had taken counts as dropped.
LEMMA FailsStep ==
  ASSUME UsbInv, NEW s \in Sessions, Fails(s), pc[s] \in {"claim", "protocol"},
         faults' \in 0 .. MaxFaults
  PROVE  UsbInv' /\ BusGrows
  <1>1. UsbTypeOK /\ BusOK /\ HandleOK /\ KeysOwned
    BY DEF UsbInv
  <1>2. PICK d \in Addresses : d = dev[s]
    BY <1>1 DEF HandleOK
  <1>3. /\ Goes(s, "failed") /\ Forgets(s)
        /\ owner' = [owner EXCEPT ![d] = LetGo(s, owner[d])]
        /\ dropped' = IF detached[s] THEN dropped \cup {d} ELSE dropped
        /\ UNCHANGED <<at, addresses, port>>
    BY <1>2 DEF Fails
  <1>4. owner \in [Addresses -> [Interfaces -> Owner]] /\ "failed" \in Pcs
    BY <1>1 DEF UsbTypeOK, Owner, Pcs
  <1>5. UsbTypeOK'
    <2>1. owner' \in [Addresses -> [Interfaces -> Owner]]
      BY <1>3, <1>4, LetGoType
    <2> QED
      BY <1>1, <1>3, <1>4, <2>1, GoesType, ForgetsType DEF UsbTypeOK, Owner
  <1>6. BusOK' /\ BusGrows /\ Live' = Live
    BY <1>1, <1>3 DEF BusOK, BusGrows, UsbTypeOK, Live
  <1>7. /\ pc'[s] = "failed"
        /\ \A q \in Sessions \ {s} :
             /\ pc'[q] = pc[q] /\ dev'[q] = dev[q] /\ detached'[q] = detached[q]
             /\ todo'[q] = todo[q]
    BY <1>1, <1>3, <1>4, GoesType, ForgetsType
  <1>8. HandleOK'
    BY <1>1, <1>7 DEF HandleOK
  <1>9. ASSUME NEW a \in Addresses, a \in Live', a \notin dropped'
        PROVE  a \in Live \ dropped /\ owner'[a][IF0] = owner[a][IF0] /\ owner[a][IF0] # s
    <2>1. a \in Live \ dropped
      BY <1>3, <1>6, <1>9
    <2>2. owner[a][IF0] # s
      <3> SUFFICES ASSUME owner[a][IF0] = s PROVE FALSE
        OBVIOUS
      <3>1. dev[s] = a /\ detached[s]
        BY <1>1, <2>1 DEF KeysOwned, Has
      <3> QED
        BY <1>2, <1>3, <1>9, <3>1
    <2>3. owner'[a][IF0] = owner[a][IF0]
      BY <1>3, <1>4, <2>2, LetGoType
    <2> QED
      BY <2>1, <2>2, <2>3
  <1>10. KeysOwned'
    BY <1>7, <1>9, KeysKept
  <1> QED
    BY <1>5, <1>6, <1>8, <1>10 DEF UsbInv

LEMMA ClaimStep ==
  ASSUME UsbInv, NEW s \in Sessions, Claim(s)
  PROVE  UsbInv' /\ BusGrows
  <1>1. UsbTypeOK /\ BusOK /\ HandleOK /\ KeysOwned /\ pc[s] = "claim"
    BY DEF UsbInv, Claim
  <1>2. PICK d \in Addresses : d = dev[s]
    BY <1>1 DEF HandleOK
  <1>3. Next0(s) \in todo[s] /\ todo[s] \subseteq Interfaces
    <2>1. todo[s] # {} /\ todo[s] \subseteq {0, 1}
      BY <1>1 DEF HandleOK, UsbTypeOK, Interfaces, IF0, IF1
    <2>2. \E i \in todo[s] : \A j \in todo[s] : i <= j
      BY <2>1
    <2> QED
      BY <1>1, <2>2 DEF Next0, UsbTypeOK
  <1>4. PICK i \in Interfaces : i = Next0(s)
    BY <1>3
  <1>5. /\ owner' = [owner EXCEPT ![d][i] = s] /\ owner[d][i] \notin Sessions
        /\ detached' = [detached EXCEPT ![s] = @ \/ (i = IF0 /\ owner[d][i] = Kernel)]
        /\ todo' = [todo EXCEPT ![s] = @ \ {i}]
        /\ Goes(s, IF todo[s] = {i} THEN "protocol" ELSE "claim")
        /\ UNCHANGED <<at, addresses, port, want, dev, recovered, dropped, faults>>
    BY <1>2, <1>4 DEF Claim, Busy
  <1>6. /\ pc' \in [Sessions -> Pcs] /\ pc'[s] = IF todo[s] = {i} THEN "protocol" ELSE "claim"
        /\ \A q \in Sessions \ {s} : pc'[q] = pc[q]
    BY <1>1, <1>5 DEF UsbTypeOK, Goes, Pcs
  <1>7. owner \in [Addresses -> [Interfaces -> Owner]]
    BY <1>1 DEF UsbTypeOK, Owner
  <1>8. UsbTypeOK'
    <2>1. owner' \in [Addresses -> [Interfaces -> Owner]]
      BY <1>5, <1>7 DEF Owner
    <2>2. /\ detached' \in [Sessions -> BOOLEAN] /\ todo' \in [Sessions -> SUBSET Interfaces]
      BY <1>1, <1>5 DEF UsbTypeOK
    <2> QED
      BY <1>1, <1>5, <1>6, <2>1, <2>2 DEF UsbTypeOK, Owner
  <1>9. BusOK' /\ BusGrows /\ Live' = Live
    BY <1>1, <1>5 DEF BusOK, BusGrows, UsbTypeOK, Live
  <1>10. HandleOK'
    <2>1. todo'[s] = todo[s] \ {i} /\ i \in todo[s]
      BY <1>1, <1>3, <1>4, <1>5 DEF UsbTypeOK
    <2>2. \A q \in Sessions \ {s} : todo'[q] = todo[q]
      BY <1>1, <1>5 DEF UsbTypeOK
    <2> QED
      BY <1>1, <1>5, <1>6, <2>1, <2>2 DEF HandleOK
  <1>11. ASSUME NEW a \in Addresses, a \in Live', a \notin dropped'
         PROVE  \/ owner'[a][IF0] = Kernel
                \/ owner'[a][IF0] = s /\ Has(s, a)'
                \/ /\ a \in Live \ dropped
                   /\ owner'[a][IF0] = owner[a][IF0] /\ owner[a][IF0] # s
    <2>1. a \in Live \ dropped
      BY <1>5, <1>9, <1>11
    <2>2. owner[a][IF0] # Nobody /\ (owner[a][IF0] = s => Has(s, a))
      BY <1>1, <2>1 DEF KeysOwned
    <2>3. pc'[s] \in {"claim", "protocol"} /\ dev'[s] = d
      BY <1>2, <1>5, <1>6
    <2>4. detached'[s] = (detached[s] \/ (i = IF0 /\ owner[d][i] = Kernel))
      BY <1>1, <1>5 DEF UsbTypeOK
    <2>5. CASE a = d /\ i = IF0
      <3>1. owner[d][i] = Kernel
        BY <1>5, <1>7, <2>2, <2>5 DEF Owner
      <3>2. owner'[a][IF0] = s
        BY <1>5, <1>7, <2>5
      <3> QED
        BY <2>3, <2>4, <2>5, <3>1, <3>2 DEF Has
    <2>6. CASE ~(a = d /\ i = IF0)
      <3>1. owner'[a][IF0] = owner[a][IF0]
        BY <1>5, <1>7, <2>6, Numbers
      <3>2. CASE owner[a][IF0] = s
        BY <1>2, <2>2, <2>3, <2>4, <3>1, <3>2 DEF Has
      <3> QED
        BY <2>1, <3>1, <3>2
    <2> QED
      BY <2>5, <2>6
  <1>12. \A q \in Sessions \ {s} :
           pc'[q] = pc[q] /\ dev'[q] = dev[q] /\ detached'[q] = detached[q]
    BY <1>1, <1>5, <1>6 DEF UsbTypeOK
  <1>13. KeysOwned'
    BY <1>11, <1>12, KeysKept
  <1> QED
    BY <1>8, <1>9, <1>10, <1>13 DEF UsbInv

\* The steps of a session that leave the bus alone.
LEMMA QuietStep ==
  ASSUME UsbInv, NEW s \in Sessions, UNCHANGED <<bus, dropped>>,
         faults' \in 0 .. MaxFaults,
         \/ /\ pc[s] \in {"closed", "find", "settle", "failed"}
            /\ \/ pc'[s] \in {"closed", "find", "failed"}
               \/ /\ pc'[s] = "claim" /\ dev'[s] \in Addresses /\ todo'[s] # {}
         \/ /\ pc[s] = "protocol" /\ pc'[s] = "open"
            /\ dev' = dev /\ detached' = detached,
         \A q \in Sessions \ {s} :
           /\ pc'[q] = pc[q] /\ dev'[q] = dev[q] /\ detached'[q] = detached[q]
           /\ todo'[q] = todo[q],
         pc' \in [Sessions -> Pcs],
         want' \in [Sessions -> Addresses \cup {NoAddress}],
         dev' \in [Sessions -> Addresses \cup {NoAddress}],
         todo' \in [Sessions -> SUBSET Interfaces],
         detached' \in [Sessions -> BOOLEAN],
         recovered' \in [Sessions -> BOOLEAN]
  PROVE  UsbInv' /\ BusGrows
  <1>1. UsbTypeOK /\ BusOK /\ HandleOK /\ KeysOwned
        /\ UNCHANGED <<at, addresses, port, owner, dropped>>
    BY DEF UsbInv, bus
  <1>2. UsbTypeOK'
    BY <1>1 DEF UsbTypeOK
  <1>3. BusOK' /\ BusGrows /\ Live' = Live
    BY <1>1 DEF BusOK, BusGrows, UsbTypeOK, Live
  <1>4. HandleOK'
    BY <1>1 DEF HandleOK
  <1>5. ASSUME NEW a \in Addresses, a \in Live', a \notin dropped'
        PROVE  \/ owner'[a][IF0] = s /\ Has(s, a)'
               \/ /\ a \in Live \ dropped
                  /\ owner'[a][IF0] = owner[a][IF0] /\ owner[a][IF0] # s
    <2>1. a \in Live \ dropped /\ (owner[a][IF0] = s => Has(s, a))
      BY <1>1, <1>3, <1>5 DEF KeysOwned
    <2>2. Has(s, a) => Has(s, a)'
      BY DEF Has
    <2> QED
      BY <1>1, <2>1, <2>2
  <1>6. KeysOwned'
    BY <1>5, KeysKept
  <1> QED
    BY <1>2, <1>3, <1>4, <1>6 DEF UsbInv

LEMMA OpenAtStep ==
  ASSUME UsbInv, NEW s \in Sessions, NEW a \in Addresses, OpenAt(s, a)
  PROVE  UsbInv' /\ BusGrows
  <1>1. UsbTypeOK /\ UNCHANGED <<bus, dropped, faults, dev, todo, detached, recovered>>
    BY DEF UsbInv, OpenAt
  <1>2. /\ pc[s] = "closed" /\ pc'[s] \in {"find", "failed"} /\ pc' \in [Sessions -> Pcs]
        /\ \A q \in Sessions \ {s} : pc'[q] = pc[q]
        /\ want' \in [Sessions -> Addresses \cup {NoAddress}]
    BY <1>1 DEF OpenAt, Goes, UsbTypeOK, Pcs
  <1>3. /\ faults' \in 0 .. MaxFaults
        /\ dev' \in [Sessions -> Addresses \cup {NoAddress}]
        /\ todo' \in [Sessions -> SUBSET Interfaces]
        /\ detached' \in [Sessions -> BOOLEAN]
        /\ recovered' \in [Sessions -> BOOLEAN]
    BY <1>1 DEF UsbTypeOK
  <1>4. \A q \in Sessions \ {s} :
          /\ pc'[q] = pc[q] /\ dev'[q] = dev[q] /\ detached'[q] = detached[q]
          /\ todo'[q] = todo[q]
    BY <1>1, <1>2
  <1>5. /\ pc[s] \in {"closed", "find", "settle", "failed"}
        /\ pc'[s] \in {"closed", "find", "failed"}
        /\ UNCHANGED <<bus, dropped>>
    BY <1>1, <1>2
  <1> QED
    BY <1>2, <1>3, <1>4, <1>5, QuietStep

LEMMA FindStep ==
  ASSUME UsbInv, NEW s \in Sessions, Find(s)
  PROVE  UsbInv' /\ BusGrows
  <1>1. UsbTypeOK /\ pc[s] = "find" /\ UNCHANGED <<bus, dropped, faults>>
        /\ "failed" \in Pcs /\ "claim" \in Pcs
    BY DEF UsbInv, Find, Pcs
  <1>2. CASE Goes(s, "failed") /\ Forgets(s)
    <2>1. /\ pc' \in [Sessions -> Pcs] /\ pc'[s] = "failed"
          /\ \A q \in Sessions \ {s} : pc'[q] = pc[q]
      BY <1>1, <1>2, GoesType
    <2>2. /\ want' \in [Sessions -> Addresses \cup {NoAddress}]
          /\ dev' \in [Sessions -> Addresses \cup {NoAddress}]
          /\ todo' \in [Sessions -> SUBSET Interfaces]
          /\ detached' \in [Sessions -> BOOLEAN]
          /\ recovered' \in [Sessions -> BOOLEAN]
          /\ \A q \in Sessions \ {s} :
               dev'[q] = dev[q] /\ detached'[q] = detached[q] /\ todo'[q] = todo[q]
      BY <1>1, <1>2, ForgetsType
    <2>3. faults' \in 0 .. MaxFaults /\ UNCHANGED <<bus, dropped>>
      BY <1>1 DEF UsbTypeOK
    <2> QED
      BY <1>1, <2>1, <2>2, <2>3, QuietStep
  <1>3. CASE ~(Goes(s, "failed") /\ Forgets(s))
    <2>1. PICK a \in Addresses : dev' = [dev EXCEPT ![s] = a]
      BY <1>3 DEF Find, SameModel, Live
    <2>2. /\ Goes(s, "claim") /\ todo' = [todo EXCEPT ![s] = Interfaces]
          /\ UNCHANGED <<want, detached, recovered>>
      BY <1>3 DEF Find
    <2>3. /\ pc' \in [Sessions -> Pcs] /\ pc'[s] = "claim"
          /\ \A q \in Sessions \ {s} : pc'[q] = pc[q]
      BY <1>1, <2>2, GoesType
    <2>4. /\ todo' \in [Sessions -> SUBSET Interfaces] /\ todo'[s] # {}
          /\ dev' \in [Sessions -> Addresses \cup {NoAddress}] /\ dev'[s] \in Addresses
          /\ \A q \in Sessions \ {s} : dev'[q] = dev[q] /\ todo'[q] = todo[q]
      BY <1>1, <2>1, <2>2 DEF UsbTypeOK, Interfaces
    <2> QED
      BY <1>1, <2>2, <2>3, <2>4, QuietStep DEF UsbTypeOK
  <1> QED
    BY <1>2, <1>3

LEMMA SettledStep ==
  ASSUME UsbInv, NEW s \in Sessions, SetProtocol(s) \/ Settled(s)
  PROVE  UsbInv' /\ BusGrows
  <1>1. /\ UsbTypeOK
        /\ UNCHANGED <<bus, want, dev, todo, detached, recovered, dropped, faults>>
    BY DEF UsbInv, SetProtocol, Settled
  <1>2. /\ pc' \in [Sessions -> Pcs]
        /\ \/ pc[s] = "protocol" /\ pc'[s] = "open"
           \/ pc[s] = "settle" /\ pc'[s] = "find"
        /\ \A q \in Sessions \ {s} : pc'[q] = pc[q]
    BY <1>1 DEF SetProtocol, Settled, Goes, UsbTypeOK, Pcs
  <1> QED
    BY <1>1, <1>2, QuietStep DEF UsbTypeOK

LEMMA StallsStep ==
  ASSUME UsbInv, NEW s \in Sessions, SetProtocolStalls(s)
  PROVE  UsbInv' /\ BusGrows
  <1>1. /\ UsbTypeOK /\ BusOK /\ HandleOK /\ KeysOwned /\ pc[s] = "protocol"
        /\ MaxFaults \in Nat /\ "settle" \in Pcs
    BY BoundsAssumption DEF UsbInv, SetProtocolStalls, Pcs
  <1>2. PICK d \in Addresses : d = dev[s]
    BY <1>1 DEF HandleOK
  <1>3. PICK ifs \in [Interfaces -> Owner] : ifs = owner[d]
    BY <1>1 DEF UsbTypeOK, Owner
  <1>4. PICK back \in [Interfaces -> Owner] : back = GivenBack(s, ifs)
    BY LetGoType
  <1>5. /\ Reset(d, back) /\ Goes(s, "settle")
        /\ recovered' = [recovered EXCEPT ![s] = TRUE]
        /\ detached' = [detached EXCEPT ![s] = FALSE]
        /\ dev' = [dev EXCEPT ![s] = NoAddress]
        /\ UNCHANGED <<want, todo, dropped>>
        /\ Fault
    BY <1>2, <1>3, <1>4 DEF SetProtocolStalls
  <1>6. /\ pc' \in [Sessions -> Pcs] /\ pc'[s] = "settle"
        /\ \A q \in Sessions \ {s} : pc'[q] = pc[q]
    BY <1>1, <1>5, GoesType
  <1>7. /\ recovered' \in [Sessions -> BOOLEAN] /\ detached' \in [Sessions -> BOOLEAN]
        /\ dev' \in [Sessions -> Addresses \cup {NoAddress}]
        /\ \A q \in Sessions \ {s} : dev'[q] = dev[q] /\ detached'[q] = detached[q]
        /\ faults' \in 0 .. MaxFaults
    BY <1>1, <1>5 DEF UsbTypeOK, Fault
  <1>8. UsbTypeOK'
    BY <1>1, <1>5, <1>6, <1>7, ResetStep DEF UsbTypeOK, Owner
  <1>9. BusOK' /\ BusGrows
    BY <1>1, <1>5, ResetStep
  <1>10. HandleOK'
    BY <1>1, <1>5, <1>6, <1>7 DEF HandleOK
  <1>11. ASSUME NEW a \in Addresses, a \in Live', a \notin dropped'
         PROVE  \/ owner'[a][IF0] = Kernel
                \/ /\ a \in Live \ dropped
                   /\ owner'[a][IF0] = owner[a][IF0] /\ owner[a][IF0] # s
    <2>1. \/ owner'[a][IF0] = Kernel
          \/ a \in Live /\ a = d /\ owner'[a] \in {back, TornOff(back)}
          \/ a \in Live /\ a # d /\ owner'[a] = owner[a]
      BY <1>1, <1>5, <1>11, ResetStep
    <2>2. a \in Live => /\ owner[a][IF0] # Nobody
                        /\ owner[a][IF0] = s => dev[s] = a /\ detached[s]
      BY <1>1, <1>5, <1>11 DEF KeysOwned, Has
    <2>3. CASE a \in Live /\ a = d /\ owner'[a] \in {back, TornOff(back)}
      <3>1. back[IF0] = IF ifs[IF0] = s THEN Kernel ELSE ifs[IF0]
        BY <1>3, <1>4, <2>2, <2>3, LetGoType
      <3>2. back[IF0] # Nobody
        BY <1>3, <2>2, <2>3, <3>1, Numbers
      <3>3. TornOff(back)[IF0] = Kernel
        BY <3>2, LetGoType
      <3> QED
        BY <1>3, <1>5, <1>11, <2>3, <3>1, <3>3
    <2>4. CASE a \in Live /\ a # d /\ owner'[a] = owner[a]
      BY <1>2, <1>5, <1>11, <2>2, <2>4
    <2> QED
      BY <2>1, <2>3, <2>4
  <1>12. KeysOwned'
    BY <1>6, <1>7, <1>11, KeysKept
  <1> QED
    BY <1>8, <1>9, <1>10, <1>12 DEF UsbInv

LEMMA OpeningStep ==
  ASSUME UsbInv, NEW s \in Sessions, Opening(s)
  PROVE  UsbInv' /\ BusGrows /\ \A q \in Sessions \ {s} : pc'[q] = pc[q]
  <1>1. UsbTypeOK /\ MaxFaults \in Nat
    BY BoundsAssumption DEF UsbInv
  <1>2. CASE Find(s) \/ Claim(s) \/ SetProtocol(s) \/ Settled(s) \/ SetProtocolStalls(s)
    BY <1>1, <1>2, FindStep, ClaimStep, SettledStep, StallsStep
       DEF Find, Claim, SetProtocol, Settled, SetProtocolStalls, Goes, UsbTypeOK
  <1>3. CASE ClaimFails(s) \/ SetProtocolFails(s)
    <2>1. Fails(s) /\ pc[s] \in {"claim", "protocol"} /\ faults' \in 0 .. MaxFaults
      BY <1>1, <1>3 DEF ClaimFails, SetProtocolFails, Fault, UsbTypeOK
    <2> QED
      BY <1>1, <2>1, FailsStep DEF Fails, Goes, UsbTypeOK
  <1> QED
    BY <1>2, <1>3 DEF Opening

LEMMA DropStep ==
  ASSUME UsbInv, NEW s \in Sessions, Drop(s)
  PROVE  UsbInv' /\ BusGrows /\ pc'[s] = "closed" /\ \A q \in Sessions \ {s} : pc'[q] = pc[q]
  <1>1. UsbTypeOK /\ BusOK /\ HandleOK /\ KeysOwned /\ "closed" \in Pcs
    BY DEF UsbInv, Pcs
  <1>2. /\ Goes(s, "closed") /\ Forgets(s)
        /\ owner' = [owner EXCEPT ![dev[s]] = GivenBack(s, owner[dev[s]])]
        /\ UNCHANGED <<at, addresses, port, dropped, faults>>
    BY DEF Drop
  <1>3. owner \in [Addresses -> [Interfaces -> Owner]]
    BY <1>1 DEF UsbTypeOK, Owner
  <1>4. owner' \in [Addresses -> [Interfaces -> Owner]]
    <2>1. CASE dev[s] \in Addresses
      <3>1. owner[dev[s]] \in [Interfaces -> Owner]
        BY <1>3, <2>1
      <3> QED
        BY <1>2, <1>3, <3>1, LetGoType
    <2>2. CASE dev[s] \notin Addresses
      BY <1>2, <1>3, <2>2
    <2> QED
      BY <2>1, <2>2
  <1>5. UsbTypeOK'
    BY <1>1, <1>2, <1>4, GoesType, ForgetsType DEF UsbTypeOK, Owner
  <1>6. BusOK' /\ BusGrows /\ Live' = Live
    BY <1>1, <1>2 DEF BusOK, BusGrows, UsbTypeOK, Live
  <1>7. /\ pc'[s] = "closed"
        /\ \A q \in Sessions \ {s} :
             /\ pc'[q] = pc[q] /\ dev'[q] = dev[q] /\ detached'[q] = detached[q]
             /\ todo'[q] = todo[q]
    BY <1>1, <1>2, GoesType, ForgetsType
  <1>8. HandleOK'
    BY <1>1, <1>7 DEF HandleOK
  <1>9. ASSUME NEW a \in Addresses, a \in Live', a \notin dropped'
        PROVE  \/ owner'[a][IF0] = Kernel
               \/ /\ a \in Live \ dropped
                  /\ owner'[a][IF0] = owner[a][IF0] /\ owner[a][IF0] # s
    <2>1. /\ a \in Live \ dropped
          /\ owner[a][IF0] # Nobody
          /\ owner[a][IF0] = s => dev[s] = a /\ detached[s]
      BY <1>1, <1>2, <1>6, <1>9 DEF KeysOwned, Has
    <2>2. CASE a = dev[s]
      <3>1. owner[a] \in [Interfaces -> Owner] /\ owner'[a] = GivenBack(s, owner[a])
        BY <1>2, <1>3, <2>2
      <3>2. GivenBack(s, owner[a])[IF0]
              = IF detached[s] /\ owner[a][IF0] \in {s, Nobody} THEN Kernel
                ELSE IF owner[a][IF0] = s THEN Nobody ELSE owner[a][IF0]
        BY <3>1, LetGoType
      <3> QED
        BY <2>1, <3>1, <3>2
    <2>3. CASE a # dev[s]
      BY <1>2, <1>3, <2>1, <2>3
    <2> QED
      BY <2>2, <2>3
  <1>10. KeysOwned'
    BY <1>7, <1>9, KeysKept
  <1> QED
    BY <1>5, <1>6, <1>7, <1>8, <1>10 DEF UsbInv

LEMMA KilledStep ==
  ASSUME UsbInv, Killed(Sessions), UNCHANGED <<at, addresses, port>>,
         faults' \in 0 .. MaxFaults
  PROVE  UsbInv' /\ BusGrows /\ \A s \in Sessions : pc'[s] = "closed"
  <1>1. UsbTypeOK /\ BusOK /\ HandleOK /\ KeysOwned
    BY DEF UsbInv
  <1>2. /\ pc' \in [Sessions -> Pcs] /\ \A s \in Sessions : pc'[s] = "closed"
        /\ want' \in [Sessions -> Addresses \cup {NoAddress}]
        /\ dev' \in [Sessions -> Addresses \cup {NoAddress}]
        /\ todo' \in [Sessions -> SUBSET Interfaces]
        /\ detached' \in [Sessions -> BOOLEAN]
        /\ recovered' \in [Sessions -> BOOLEAN]
        /\ dropped' = dropped \cup {a \in Addresses : \E i \in Interfaces : owner[a][i] \in Sessions}
    BY <1>1 DEF Killed, UsbTypeOK, Pcs
  <1>3. /\ owner' \in [Addresses -> [Interfaces -> Owner]]
        /\ \A a \in Addresses : owner'[a][IF0]
             = IF owner[a][IF0] \in Sessions THEN Nobody ELSE owner[a][IF0]
    BY <1>1, Numbers DEF Killed, UsbTypeOK, Owner
  <1>4. UsbTypeOK'
    BY <1>1, <1>2, <1>3 DEF UsbTypeOK, Owner
  <1>5. BusOK' /\ BusGrows /\ Live' = Live
    BY <1>1 DEF BusOK, BusGrows, UsbTypeOK, Live
  <1>6. HandleOK'
    BY <1>2 DEF HandleOK
  <1>7. KeysOwned'
    <2> SUFFICES ASSUME NEW a \in Addresses, a \in Live', a \notin dropped'
                 PROVE  /\ owner'[a][IF0] # Nobody
                        /\ \A q \in Sessions : owner'[a][IF0] = q => Has(q, a)'
      BY DEF KeysOwned, Live
    <2>1. owner[a][IF0] \notin Sessions /\ a \in Live \ dropped
      BY <1>2, <1>5, Numbers
    <2> QED
      BY <1>1, <1>3, <2>1 DEF KeysOwned
  <1> QED
    BY <1>2, <1>4, <1>5, <1>6, <1>7 DEF UsbInv

LEMMA DriverResetStep ==
  ASSUME UsbInv, NEW b \in Addresses, ResetAndReopen(b)
  PROVE  UsbInv' /\ BusGrows /\ pc' = pc
  <1>1. UsbTypeOK /\ BusOK /\ HandleOK /\ KeysOwned /\ MaxFaults \in Nat
    BY BoundsAssumption DEF UsbInv
  <1>2. PICK ifs \in [Interfaces -> Owner] : ifs = owner[b]
    BY <1>1 DEF UsbTypeOK, Owner
  <1>3. Reset(b, ifs) /\ Fault /\ UNCHANGED <<pc, want, dev, todo, detached, recovered, dropped>>
    BY <1>2 DEF ResetAndReopen, session
  <1>4. UsbTypeOK'
    BY <1>1, <1>3, ResetStep DEF UsbTypeOK, Owner, Fault
  <1>5. BusOK' /\ BusGrows /\ HandleOK'
    BY <1>1, <1>3, ResetStep DEF HandleOK
  <1>6. KeysOwned'
    <2> SUFFICES ASSUME NEW a \in Addresses, a \in Live', a \notin dropped'
                 PROVE  /\ owner'[a][IF0] # Nobody
                        /\ \A q \in Sessions : owner'[a][IF0] = q => Has(q, a)'
      BY DEF KeysOwned, Live
    <2>1. \/ owner'[a][IF0] = Kernel
          \/ a \in Live /\ a = b /\ owner'[a] \in {ifs, TornOff(ifs)}
          \/ a \in Live /\ a # b /\ owner'[a] = owner[a]
      BY <1>1, <1>3, ResetStep
    <2>2. a \in Live => owner[a][IF0] # Nobody /\ \A q \in Sessions : owner[a][IF0] = q => Has(q, a)
      BY <1>1, <1>3 DEF KeysOwned
    <2>3. \A q \in Sessions : Has(q, a) <=> Has(q, a)'
      BY <1>3 DEF Has
    <2>4. a \in Live /\ a = b => TornOff(ifs)[IF0] = Kernel
      BY <1>2, <2>2, Numbers DEF TornOff
    <2> QED
      BY <1>2, <2>1, <2>2, <2>3, <2>4, Numbers
  <1> QED
    BY <1>3, <1>4, <1>5, <1>6 DEF UsbInv

----------------------------------------------------------------------------
(* The daemon.  Until it has stopped, every thread has the handle of its   *)
(* keyboard's path, so two threads are never at work for one path.         *)

WorkersTypeOK ==
  /\ supervisor \in Supervisors
  /\ live \in SUBSET Addresses
  /\ workers \in [Ports -> Addresses \cup {NoAddress}]
  /\ shutdown \in BOOLEAN
  /\ told \in [Addresses -> BOOLEAN]
  /\ thread \in [Addresses -> Threads]
  /\ errors \in [Addresses -> 0 .. DISCONNECT_ERROR_THRESHOLD - 1]
  /\ files \in [Ports -> Addresses \cup {NoAddress}]

ThreadsOK ==
  \A a \in Addresses :
    /\ thread[a] # "none" => a <= addresses /\ (supervisor # "stopped" => workers[port[a]] = a)
    /\ Over(a) => pc[a] = "closed"

HandlesOK ==
  \A p \in Ports : workers[p] # NoAddress =>
    workers[p] <= addresses /\ port[workers[p]] = p

LookOK ==
  /\ \A a \in live : a <= addresses
  /\ \A a, b \in live : port[a] = port[b] => a = b

StoppedOK ==
  supervisor = "stopped" =>
    /\ \A a \in Addresses : Over(a)
    /\ \A p \in Ports : files[p] = NoAddress

WorkersInv ==
  WorkersTypeOK /\ ThreadsOK /\ HandlesOK /\ LookOK /\ StoppedOK /\ ReadersArePublished

DaemonInv == UsbInv /\ WorkersInv

\* A step of the bus, the driver or a session that leaves the daemon alone.
LEMMA OutsideStep ==
  ASSUME DaemonInv, UNCHANGED <<daemon, threads>>, UsbInv', BusGrows,
         \A a \in Addresses : Over(a) => pc'[a] = pc[a]
  PROVE  DaemonInv'
  <1>1. /\ WorkersTypeOK /\ ThreadsOK /\ HandlesOK /\ LookOK /\ StoppedOK
        /\ ReadersArePublished /\ UsbTypeOK /\ UsbTypeOK'
    BY DEF DaemonInv, WorkersInv, UsbInv
  <1>2. UNCHANGED <<supervisor, live, workers, shutdown, told, thread, errors, files>>
    BY DEF daemon, threads
  <1>3. \A a \in Addresses : a <= addresses => a <= addresses' /\ port'[a] = port[a]
    <2>1. addresses \in Nat /\ addresses' \in Nat /\ addresses <= addresses'
      BY <1>1, Numbers DEF BusGrows, UsbTypeOK
    <2>2. \A a \in Nat : a <= addresses => a <= addresses'
      BY <2>1
    <2> QED
      BY <2>2, Numbers DEF BusGrows
  <1>4. WorkersTypeOK' /\ StoppedOK'
    BY <1>1, <1>2 DEF WorkersTypeOK, StoppedOK, Over
  <1>5. ThreadsOK'
    BY <1>1, <1>2, <1>3 DEF ThreadsOK, Over
  <1>6. HandlesOK'
    BY <1>1, <1>2, <1>3 DEF HandlesOK, WorkersTypeOK
  <1>7. LookOK'
    <2>1. \A a \in live : a \in Addresses /\ a <= addresses' /\ port'[a] = port[a]
      BY <1>1, <1>3 DEF LookOK, WorkersTypeOK
    <2> QED
      BY <1>1, <1>2, <2>1 DEF LookOK
  <1>8. ReadersArePublished'
    <2> SUFFICES ASSUME NEW a \in Addresses, thread[a] = "reading"
                 PROVE  files[port'[a]] = a
      BY <1>2 DEF ReadersArePublished
    <2>1. port'[a] = port[a]
      BY <1>1, <1>3 DEF ThreadsOK
    <2> QED
      BY <1>1, <2>1 DEF ReadersArePublished
  <1> QED
    BY <1>4, <1>5, <1>6, <1>7, <1>8 DEF DaemonInv, WorkersInv

LEMMA SameBus ==
  ASSUME UsbInv, UNCHANGED <<bus, session, dropped>>, faults' \in 0 .. MaxFaults
  PROVE  UsbInv' /\ UNCHANGED <<addresses, port, pc>>
  <1>1. UsbTypeOK /\ BusOK /\ HandleOK /\ KeysOwned
        /\ UNCHANGED <<at, addresses, port, owner>>
        /\ UNCHANGED <<pc, want, dev, todo, detached, recovered, dropped>>
    BY DEF UsbInv, bus, session
  <1>2. UsbTypeOK' /\ BusOK' /\ HandleOK' /\ Live' = Live
    BY <1>1 DEF UsbTypeOK, BusOK, HandleOK, Live
  <1>3. KeysOwned'
    BY <1>1, <1>2 DEF KeysOwned, Has
  <1> QED
    BY <1>1, <1>2, <1>3 DEF UsbInv

\* The step of one worker that is at work.
LEMMA OneWorker ==
  ASSUME DaemonInv, UsbInv', UNCHANGED <<addresses, port, daemon, told>>,
         NEW a \in Addresses, ~Over(a),
         NEW t \in {"opening", "reading", "leaving", "ended"}, Becomes(a, t),
         t = "ended" => pc'[a] = "closed",
         \A b \in Addresses \ {a} : pc'[b] = pc[b],
         errors' \in [Addresses -> 0 .. DISCONNECT_ERROR_THRESHOLD - 1],
         \/ UNCHANGED files /\ (t = "reading" => thread[a] = "reading")
         \/ Publishes(a) \/ (Withdraws(a) /\ t # "reading")
  PROVE  DaemonInv'
  <1>1. /\ WorkersTypeOK /\ ThreadsOK /\ HandlesOK /\ LookOK /\ StoppedOK
        /\ ReadersArePublished /\ UsbTypeOK
        /\ UNCHANGED <<supervisor, live, workers, shutdown, told>>
    BY DEF DaemonInv, WorkersInv, UsbInv, daemon
  <1>2. /\ thread' = [thread EXCEPT ![a] = t] /\ thread'[a] = t
        /\ \A b \in Addresses \ {a} : thread'[b] = thread[b]
        /\ port[a] \in Ports
    BY <1>1 DEF Becomes, WorkersTypeOK, UsbTypeOK
  <1>3. files' \in [Ports -> Addresses \cup {NoAddress}]
    BY <1>1, <1>2 DEF WorkersTypeOK, Publishes, Withdraws
  <1>4. WorkersTypeOK'
    BY <1>1, <1>2, <1>3 DEF WorkersTypeOK, Threads
  <1>5. supervisor # "stopped" /\ StoppedOK'
    BY <1>1 DEF StoppedOK
  <1>6. thread[a] # "none"
    BY DEF Over
  <1>7. ThreadsOK'
    BY <1>1, <1>2, <1>5, <1>6 DEF ThreadsOK, Over
  <1>8. HandlesOK' /\ LookOK'
    BY <1>1 DEF HandlesOK, LookOK
  <1>9. ReadersArePublished'
    <2> SUFFICES ASSUME NEW b \in Addresses, thread'[b] = "reading"
                 PROVE  files'[port[b]] = b
      BY <1>1 DEF ReadersArePublished
    <2>1. CASE b = a
      BY <1>1, <1>2, <2>1 DEF Publishes, ReadersArePublished, WorkersTypeOK
    <2>2. CASE b # a
      <3>1. thread[b] = "reading" /\ files[port[b]] = b /\ port[b] \in Ports
        BY <1>1, <1>2, <2>2 DEF ReadersArePublished, UsbTypeOK
      <3>2. port[b] # port[a]
        BY <1>1, <1>5, <1>6, <2>2, <3>1 DEF ThreadsOK
      <3> QED
        BY <1>1, <3>1, <3>2 DEF Publishes, Withdraws, WorkersTypeOK
    <2> QED
      BY <2>1, <2>2
  <1> QED
    BY <1>4, <1>5, <1>7, <1>8, <1>9 DEF DaemonInv, WorkersInv

LEMMA WorkerStep ==
  ASSUME DaemonInv, NEW a \in Addresses, Worker(a)
  PROVE  DaemonInv'
  <1>1. /\ UsbInv /\ UsbTypeOK /\ WorkersTypeOK /\ ThreadsOK /\ a \in Sessions
        /\ Sessions = Addresses /\ MaxFaults \in Nat
    BY WorkersAssumption, BoundsAssumption DEF DaemonInv, UsbInv, WorkersInv, Addresses
  <1>2. CASE Opens(a) \/ SessionStep(a)
    <2>1. ~Over(a) /\ UNCHANGED <<daemon, threads>>
      BY <1>2 DEF Opens, SessionStep, Over
    <2>2. UsbInv' /\ BusGrows /\ \A b \in Sessions \ {a} : pc'[b] = pc[b]
      <3>1. CASE Opens(a)
        BY <1>1, <3>1, OpenAtStep DEF Opens, OpenAt, Goes, UsbTypeOK
      <3>2. CASE SessionStep(a)
        BY <1>1, <3>2, OpeningStep DEF SessionStep
      <3> QED
        BY <1>2, <3>1, <3>2
    <2>3. \A b \in Addresses : Over(b) => pc'[b] = pc[b]
      BY <1>1, <2>1, <2>2
    <2> QED
      BY <2>1, <2>2, <2>3, OutsideStep
  <1>3. CASE OpenFailed(a)
    <2>1. /\ ~Over(a) /\ pc[a] = "failed" /\ Goes(a, "closed") /\ Becomes(a, "ended")
          /\ UNCHANGED <<bus, dropped, daemon, told>>
          /\ UNCHANGED <<want, dev, todo, detached, recovered, faults, errors, files>>
          /\ "closed" \in Pcs
      BY <1>3 DEF OpenFailed, Over, Pcs
    <2>2. /\ pc' \in [Sessions -> Pcs] /\ pc'[a] = "closed"
          /\ \A q \in Sessions \ {a} : pc'[q] = pc[q]
      BY <1>1, <2>1, GoesType
    <2>3. UsbInv'
      BY <1>1, <2>1, <2>2, QuietStep DEF UsbTypeOK
    <2>4. UNCHANGED <<addresses, port>>
      BY <2>1 DEF bus
    <2> QED
      BY <1>1, <2>1, <2>2, <2>3, <2>4, OneWorker DEF WorkersTypeOK
  <1>4. CASE Publish(a) \/ Republish(a) \/ ReadsReport(a)
    <2>1. /\ ~Over(a) /\ Becomes(a, "reading")
          /\ Publishes(a) \/ (UNCHANGED files /\ thread[a] = "reading")
          /\ UNCHANGED <<daemon, told>> /\ UNCHANGED usb
          /\ errors' \in [Addresses -> 0 .. DISCONNECT_ERROR_THRESHOLD - 1]
      BY <1>1, <1>4, ThresholdAssumption
         DEF Publish, Republish, ReadsReport, Over, Becomes, WorkersTypeOK
    <2>2. UsbInv' /\ UNCHANGED <<addresses, port, pc>>
      BY <1>1, <2>1, SameBus DEF usb, UsbTypeOK
    <2> QED
      BY <2>1, <2>2, OneWorker
  <1>5. CASE UinputFails(a)
    <2>1. /\ ~Over(a) /\ Becomes(a, "leaving")
          /\ UNCHANGED <<daemon, told, files, errors>> /\ UNCHANGED <<bus, session, dropped>>
          /\ faults' \in 0 .. MaxFaults
      BY <1>1, <1>5 DEF UinputFails, Over, Fault, UsbTypeOK
    <2>2. UsbInv' /\ UNCHANGED <<addresses, port, pc>>
      BY <1>1, <2>1, SameBus
    <2> QED
      BY <1>1, <2>1, <2>2, OneWorker DEF WorkersTypeOK
  <1>6. CASE StopsWhenTold(a) \/ Disconnected(a) \/ EmitFails(a) \/ ReadFails(a)
    <2>1. /\ ~Over(a) /\ UNCHANGED <<bus, session, dropped>>
          /\ UNCHANGED <<daemon, told>> /\ faults' \in 0 .. MaxFaults
      BY <1>1, <1>6 DEF StopsWhenTold, Disconnected, EmitFails, ReadFails, Over, Fault,
                        UsbTypeOK, usb
    <2>2. \/ Becomes(a, "leaving") /\ Withdraws(a)
          \/ Becomes(a, "reading") /\ UNCHANGED files /\ thread[a] = "reading"
      BY <1>1, <1>6 DEF StopsWhenTold, Disconnected, EmitFails, ReadFails, Leaves, Becomes,
                        WorkersTypeOK
    <2>3. errors' \in [Addresses -> 0 .. DISCONNECT_ERROR_THRESHOLD - 1]
      <3>1. errors[a] \in Nat /\ DISCONNECT_ERROR_THRESHOLD \in Nat
            /\ DISCONNECT_ERROR_THRESHOLD >= 1
        BY <1>1, ThresholdAssumption DEF WorkersTypeOK
      <3>2. \/ errors' = [errors EXCEPT ![a] = 0]
            \/ /\ errors' = [errors EXCEPT ![a] = errors[a] + 1]
               /\ ~(errors[a] + 1 >= DISCONNECT_ERROR_THRESHOLD)
        BY <1>6 DEF StopsWhenTold, Disconnected, EmitFails, ReadFails
      <3>3. 0 \in 0 .. DISCONNECT_ERROR_THRESHOLD - 1
        BY <3>1
      <3>4. ~(errors[a] + 1 >= DISCONNECT_ERROR_THRESHOLD)
              => errors[a] + 1 \in 0 .. DISCONNECT_ERROR_THRESHOLD - 1
        BY <3>1
      <3> QED
        BY <1>1, <3>2, <3>3, <3>4 DEF WorkersTypeOK
    <2>4. UsbInv' /\ UNCHANGED <<addresses, port, pc>>
      BY <1>1, <2>1, SameBus
    <2> QED
      BY <2>1, <2>2, <2>3, <2>4, OneWorker
  <1>7. CASE CloseSession(a)
    <2>1. ~Over(a) /\ Drop(a) /\ Becomes(a, "ended") /\ UNCHANGED <<daemon, told, errors, files>>
      BY <1>7 DEF CloseSession, Over
    <2>2. /\ UsbInv' /\ pc'[a] = "closed" /\ UNCHANGED <<addresses, port>>
          /\ \A q \in Addresses \ {a} : pc'[q] = pc[q]
      BY <1>1, <2>1, DropStep DEF Drop
    <2> QED
      BY <1>1, <2>1, <2>2, OneWorker DEF WorkersTypeOK
  <1> QED
    BY <1>2, <1>3, <1>4, <1>5, <1>6, <1>7 DEF Worker

LEMMA SupervisorStep ==
  ASSUME DaemonInv, Start \/ Signal \/ Supervisor
  PROVE  DaemonInv'
  <1>1. /\ WorkersTypeOK /\ ThreadsOK /\ HandlesOK /\ LookOK /\ StoppedOK
        /\ ReadersArePublished /\ UsbInv /\ UsbTypeOK /\ BusOK /\ MaxFaults \in Nat
        /\ Sessions = Addresses
    BY WorkersAssumption, BoundsAssumption DEF DaemonInv, WorkersInv, UsbInv, Addresses
  <1>2. ASSUME UNCHANGED usb PROVE UsbInv' /\ UNCHANGED <<addresses, port, pc>>
    BY <1>1, <1>2, SameBus DEF usb, UsbTypeOK
  <1>3. CASE Start \/ Signal \/ TellStale \/ End
    <2>1. /\ UNCHANGED <<usb, live, workers, thread, errors, files>>
          /\ supervisor' \in Supervisors /\ shutdown' \in BOOLEAN
          /\ told' \in [Addresses -> BOOLEAN] /\ supervisor' # "stopped"
          /\ supervisor # "stopped"
      BY <1>1, <1>3 DEF Start, Signal, TellStale, End, Step, threads, WorkersTypeOK,
                        Supervisors
    <2>2. UsbInv' /\ UNCHANGED <<addresses, port, pc>>
      BY <1>2, <2>1
    <2>3. WorkersTypeOK'
      BY <1>1, <2>1 DEF WorkersTypeOK
    <2> QED
      BY <1>1, <2>1, <2>2, <2>3
         DEF DaemonInv, WorkersInv, ThreadsOK, HandlesOK, LookOK, StoppedOK,
             ReadersArePublished, Over
  <1>4. CASE LookFails
    <2>1. /\ Killed(Sessions) /\ UNCHANGED <<at, addresses, port, shutdown, files>>
          /\ faults' \in 0 .. MaxFaults
      BY <1>1, <1>4 DEF LookFails, Exits, Fault, UsbTypeOK
    <2>2. UsbInv' /\ \A a \in Addresses : pc'[a] = "closed"
      BY <1>1, <2>1, KilledStep
    <2>3. /\ supervisor' = "down" /\ live' = {} /\ workers' = [p \in Ports |-> NoAddress]
          /\ thread' = [a \in Addresses |-> "none"] /\ told' = [a \in Addresses |-> FALSE]
          /\ errors' = [a \in Addresses |-> 0]
      BY <1>4 DEF LookFails, Exits, Step
    <2>4. 0 \in 0 .. DISCONNECT_ERROR_THRESHOLD - 1
      BY ThresholdAssumption
    <2>5. WorkersTypeOK'
      BY <1>1, <2>1, <2>3, <2>4 DEF WorkersTypeOK, Supervisors, Threads
    <2> QED
      BY <1>1, <2>1, <2>2, <2>3, <2>5
         DEF DaemonInv, WorkersInv, ThreadsOK, HandlesOK, LookOK, StoppedOK,
             ReadersArePublished, Over
  <1>5. CASE Look
    <2>1. /\ UNCHANGED <<usb, workers, shutdown, told, thread, errors, files>>
          /\ live' = Live /\ supervisor' = "stale" /\ supervisor = "look"
      BY <1>5 DEF Look, Step, threads
    <2>2. UsbInv' /\ UNCHANGED <<addresses, port, pc>>
      BY <1>2, <2>1
    <2>3. Live \subseteq Addresses /\ \A a \in Live : \E p \in Ports :
            at[p] = a /\ port[a] = p /\ a <= addresses
      BY <1>1, Numbers DEF Live, BusOK
    <2>4. LookOK' /\ WorkersTypeOK'
      BY <1>1, <2>1, <2>2, <2>3 DEF LookOK, WorkersTypeOK, Supervisors
    <2> QED
      BY <1>1, <2>1, <2>2, <2>4
         DEF DaemonInv, WorkersInv, ThreadsOK, HandlesOK, StoppedOK, ReadersArePublished,
             Over
  <1>6. CASE JoinStale
    <2>1. PICK p \in Ports :
            /\ workers[p] # NoAddress /\ Over(workers[p])
            /\ workers' = [workers EXCEPT ![p] = NoAddress]
            /\ told' = [told EXCEPT ![workers[p]] = FALSE]
            /\ Becomes(workers[p], "none")
      BY <1>6 DEF JoinStale, StalePaths
    <2>2. PICK b \in Addresses : b = workers[p]
      BY <1>1, <2>1 DEF WorkersTypeOK
    <2>3. /\ UNCHANGED <<usb, live, shutdown, errors, files>>
          /\ supervisor' = "stale" /\ supervisor # "stopped"
          /\ thread' = [thread EXCEPT ![b] = "none"]
      BY <1>6, <2>1, <2>2 DEF JoinStale, Step, Becomes
    <2>4. UsbInv' /\ UNCHANGED <<addresses, port, pc>>
      BY <1>2, <2>3
    <2>5. WorkersTypeOK'
      BY <1>1, <2>1, <2>2, <2>3 DEF WorkersTypeOK, Supervisors, Threads
    <2>6. ThreadsOK'
      <3> SUFFICES ASSUME NEW a \in Addresses
                   PROVE  /\ thread'[a] # "none" => a <= addresses /\ workers'[port[a]] = a
                          /\ Over(a)' => pc[a] = "closed"
        BY <2>4 DEF ThreadsOK
      <3>1. CASE a = b
        BY <1>1, <2>1, <2>2, <2>3, <3>1 DEF ThreadsOK, WorkersTypeOK
      <3>2. CASE a # b
        <4>1. thread'[a] = thread[a]
          BY <1>1, <2>3, <3>2 DEF WorkersTypeOK
        <4>2. thread[a] # "none" => a <= addresses /\ workers[port[a]] = a /\ port[a] \in Ports
          BY <1>1, <2>3 DEF ThreadsOK, UsbTypeOK
        <4>3. thread[a] # "none" => workers'[port[a]] = a
          BY <1>1, <2>1, <2>2, <3>2, <4>2 DEF WorkersTypeOK
        <4> QED
          BY <1>1, <4>1, <4>2, <4>3 DEF ThreadsOK, Over
      <3> QED
        BY <3>1, <3>2
    <2>7. HandlesOK'
      BY <1>1, <2>1, <2>4 DEF HandlesOK, WorkersTypeOK
    <2>8. ReadersArePublished'
      BY <1>1, <2>3, <2>4 DEF ReadersArePublished, WorkersTypeOK
    <2> QED
      BY <1>1, <2>3, <2>4, <2>5, <2>6, <2>7, <2>8
         DEF DaemonInv, WorkersInv, LookOK, StoppedOK
  <1>7. CASE Reap
    <2> DEFINE finished == {p \in Ports : workers[p] # NoAddress /\ Over(workers[p])}
    <2>1. /\ UNCHANGED <<usb, live, shutdown, told, errors, files>>
          /\ supervisor' = "spawn" /\ supervisor # "stopped"
          /\ workers' = [p \in Ports |-> IF p \in finished THEN NoAddress ELSE workers[p]]
          /\ thread' = [a \in Addresses |->
               IF \E p \in finished : workers[p] = a THEN "none" ELSE thread[a]]
      BY <1>7 DEF Reap, Step
    <2>2. UsbInv' /\ UNCHANGED <<addresses, port, pc>>
      BY <1>2, <2>1
    <2>3. WorkersTypeOK'
      <3>1. workers' \in [Ports -> Addresses \cup {NoAddress}] /\ thread' \in [Addresses -> Threads]
        BY <1>1, <2>1 DEF WorkersTypeOK, Threads
      <3> QED
        BY <1>1, <2>1, <3>1 DEF WorkersTypeOK, Supervisors
    <2>4. ASSUME NEW a \in Addresses
          PROVE  /\ thread'[a] # "none" => a <= addresses /\ workers'[port[a]] = a
                 /\ Over(a)' => pc[a] = "closed"
                 /\ thread'[a] = "reading" => thread[a] = "reading"
      <3>1. CASE \E p \in finished : workers[p] = a
        BY <1>1, <2>1, <3>1 DEF ThreadsOK
      <3>2. CASE ~(\E p \in finished : workers[p] = a)
        <4>1. thread'[a] = thread[a]
          BY <2>1, <3>2
        <4>2. thread[a] # "none" => a <= addresses /\ workers[port[a]] = a /\ port[a] \in Ports
          BY <1>1, <2>1 DEF ThreadsOK, UsbTypeOK
        <4>3. thread[a] # "none" => workers'[port[a]] = a
          BY <2>1, <3>2, <4>2
        <4> QED
          BY <1>1, <4>1, <4>2, <4>3 DEF ThreadsOK, Over
      <3> QED
        BY <3>1, <3>2
    <2>5. HandlesOK'
      BY <1>1, <2>1, <2>2 DEF HandlesOK
    <2>6. ThreadsOK' /\ ReadersArePublished'
      BY <1>1, <2>1, <2>2, <2>4 DEF ThreadsOK, ReadersArePublished
    <2> QED
      BY <1>1, <2>1, <2>2, <2>3, <2>5, <2>6
         DEF DaemonInv, WorkersInv, LookOK, StoppedOK
  <1>8. CASE Spawn
    <2>1. /\ UNCHANGED <<usb, shutdown, errors, files>>
          /\ supervisor' = "look" /\ supervisor # "stopped" /\ live' = {}
          /\ workers' = [p \in Ports |->
               IF \E a \in Unserved : port[a] = p THEN CHOOSE a \in Unserved : port[a] = p
               ELSE workers[p]]
          /\ thread' = [a \in Addresses |-> IF a \in Unserved THEN "opening" ELSE thread[a]]
          /\ told' = [a \in Addresses |-> a \notin Unserved /\ told[a]]
      BY <1>8 DEF Spawn, Step
    <2>2. UsbInv' /\ UNCHANGED <<addresses, port, pc>>
      BY <1>2, <2>1
    <2>3. /\ Unserved \subseteq Addresses
          /\ \A a \in Unserved : a <= addresses /\ workers[port[a]] = NoAddress
          /\ \A a, b \in Unserved : port[a] = port[b] => a = b
      BY <1>1 DEF Unserved, LookOK, WorkersTypeOK
    <2>4. \A p \in Ports : \/ \E a \in Unserved : port[a] = p /\ workers'[p] = a
                           \/ workers'[p] = workers[p] /\ \A a \in Unserved : port[a] # p
      BY <2>1
    <2>5. workers' \in [Ports -> Addresses \cup {NoAddress}]
      BY <1>1, <2>1, <2>3, <2>4 DEF WorkersTypeOK
    <2>6. WorkersTypeOK'
      <3>1. thread' \in [Addresses -> Threads] /\ told' \in [Addresses -> BOOLEAN]
        BY <1>1, <2>1 DEF WorkersTypeOK, Threads
      <3> QED
        BY <1>1, <2>1, <2>5, <3>1 DEF WorkersTypeOK, Supervisors
    <2>7. ASSUME NEW a \in Addresses
          PROVE  /\ thread'[a] # "none" => a <= addresses /\ workers'[port[a]] = a
                 /\ Over(a)' => pc[a] = "closed"
                 /\ thread'[a] = "reading" => thread[a] = "reading"
      <3>1. port[a] \in Ports
        BY <1>1 DEF UsbTypeOK
      <3>2. CASE a \in Unserved
        <4>1. thread'[a] = "opening"
          BY <2>1, <3>2
        <4>2. workers'[port[a]] = a /\ a <= addresses
          BY <2>3, <2>4, <3>1, <3>2
        <4> QED
          BY <4>1, <4>2 DEF Over
      <3>3. CASE a \notin Unserved
        <4>1. thread'[a] = thread[a]
          BY <2>1, <3>3
        <4>2. thread[a] # "none" => a <= addresses /\ workers[port[a]] = a
          BY <1>1, <2>1 DEF ThreadsOK
        <4>3. thread[a] # "none" => workers'[port[a]] = a
          BY <2>3, <2>4, <3>1, <4>2, Numbers
        <4> QED
          BY <1>1, <4>1, <4>2, <4>3 DEF ThreadsOK, Over
      <3> QED
        BY <3>2, <3>3
    <2>8. HandlesOK'
      BY <1>1, <2>2, <2>3, <2>4 DEF HandlesOK
    <2>9. ThreadsOK' /\ ReadersArePublished'
      BY <1>1, <2>1, <2>2, <2>7 DEF ThreadsOK, ReadersArePublished
    <2> QED
      BY <1>1, <2>1, <2>2, <2>6, <2>8, <2>9
         DEF DaemonInv, WorkersInv, LookOK, StoppedOK
  <1>9. CASE Stop
    <2>1. /\ UNCHANGED <<usb, live, shutdown, told, thread, errors>>
          /\ supervisor' = "stopped" /\ supervisor # "stopped"
          /\ workers' = [p \in Ports |-> NoAddress] /\ files' = [p \in Ports |-> NoAddress]
          /\ \A p \in Ports : workers[p] # NoAddress => Over(workers[p])
      BY <1>9 DEF Stop, Step
    <2>2. UsbInv' /\ UNCHANGED <<addresses, port, pc>>
      BY <1>2, <2>1
    <2>3. \A a \in Addresses : Over(a)
      <3> SUFFICES ASSUME NEW a \in Addresses, thread[a] # "none"
                   PROVE  Over(a)
        BY DEF Over
      <3>1. workers[port[a]] = a /\ port[a] \in Ports
        BY <1>1, <2>1 DEF ThreadsOK, UsbTypeOK
      <3> QED
        BY <2>1, <3>1, Numbers
    <2>4. WorkersTypeOK'
      BY <1>1, <2>1 DEF WorkersTypeOK, Supervisors
    <2> QED
      BY <1>1, <2>1, <2>2, <2>3, <2>4
         DEF DaemonInv, WorkersInv, ThreadsOK, HandlesOK, LookOK, StoppedOK,
             ReadersArePublished, Over
  <1> QED
    BY <1>3, <1>4, <1>5, <1>6, <1>7, <1>8, <1>9 DEF Supervisor

LEMMA DaemonInit == Init => DaemonInv
  <1> SUFFICES ASSUME Init PROVE DaemonInv
    OBVIOUS
  <1>1. (CHOOSE p \in Ports : TRUE) \in Ports
    BY PortsAssumption
  <1>2. 0 \in 0 .. DISCONNECT_ERROR_THRESHOLD - 1 /\ 0 \in 0 .. MaxAddresses
        /\ 0 \in 0 .. MaxFaults
    BY ThresholdAssumption, BoundsAssumption
  <1>3. UsbTypeOK
    BY <1>1, <1>2 DEF Init, UsbInit, UsbTypeOK, Pcs
  <1>4. Live = {}
    BY Numbers DEF Init, UsbInit, Live
  <1>5. BusOK /\ HandleOK /\ KeysOwned
    BY <1>4 DEF Init, UsbInit, BusOK, HandleOK, KeysOwned
  <1>6. WorkersTypeOK
    BY <1>2 DEF Init, WorkersTypeOK, Supervisors, Threads
  <1>7. ThreadsOK
    BY WorkersAssumption DEF Init, UsbInit, ThreadsOK, Addresses
  <1>8. HandlesOK /\ LookOK /\ StoppedOK /\ ReadersArePublished
    BY DEF Init, HandlesOK, LookOK, StoppedOK, ReadersArePublished
  <1> QED
    BY <1>3, <1>5, <1>6, <1>7, <1>8 DEF DaemonInv, UsbInv, WorkersInv

LEMMA DaemonStep == DaemonInv /\ [Next]_vars => DaemonInv'
  <1> SUFFICES ASSUME DaemonInv, [Next]_vars PROVE DaemonInv'
    OBVIOUS
  <1>1. UsbInv /\ UsbTypeOK
    BY DEF DaemonInv, UsbInv
  <1>2. CASE Driver
    BY <1>1, <1>2, DriverResetStep, OutsideStep DEF Driver
  <1>3. CASE Hotplug
    <2>1. PICK p \in Ports : Plug(p) \/ Unplug(p)
      BY <1>3 DEF Hotplug
    <2>2. UsbInv' /\ BusGrows /\ pc' = pc
      BY <1>1, <2>1, PlugStep, UnplugStep DEF Plug, Unplug, session
    <2>3. UNCHANGED <<daemon, threads>>
      BY <1>3 DEF Hotplug
    <2> QED
      BY <2>2, <2>3, OutsideStep
  <1>4. CASE UNCHANGED vars
    <2>1. UNCHANGED <<bus, session, dropped, faults>> /\ UNCHANGED <<daemon, threads>>
      BY <1>4 DEF vars, usb
    <2>2. UsbInv' /\ UNCHANGED <<addresses, port, pc>>
      BY <1>1, <2>1, SameBus DEF UsbTypeOK
    <2>3. BusGrows
      BY <1>1, <2>2 DEF BusGrows, UsbTypeOK
    <2> QED
      BY <2>1, <2>2, <2>3, OutsideStep
  <1> QED
    BY <1>2, <1>3, <1>4, WorkerStep, SupervisorStep DEF Next

LEMMA DaemonInvariant == Spec => []DaemonInv
  <1> QED
    BY DaemonInit, DaemonStep, PTL DEF Spec

\* While a worker reads a keyboard, the active path file of its path is its own
\* (run_worker, run_daemon), for any number of ports, addresses and faults.
THEOREM ReadersPublished == Spec => []ReadersArePublished
  <1>1. DaemonInv => ReadersArePublished
    BY DEF DaemonInv, WorkersInv
  <1> QED
    BY <1>1, DaemonInvariant, PTL

\* A daemon that was told to stop, and has, leaves no thread, no session and no
\* published path; and every keyboard no open of which failed half way is the
\* kernel's again (run_daemon, Drop of UsbSession).
THEOREM StopIsClean == Spec => []StopGivesBack
  <1>1. DaemonInv => StopGivesBack
    <2> SUFFICES ASSUME DaemonInv, supervisor = "stopped"
                 PROVE  /\ \A a \in Addresses : Over(a) /\ pc[a] = "closed"
                        /\ \A p \in Ports : files[p] = NoAddress
                        /\ \A a \in Live \ dropped : owner[a][IF0] = Kernel
      BY DEF StopGivesBack
    <2>1. UsbTypeOK /\ KeysOwned /\ ThreadsOK /\ StoppedOK
      BY DEF DaemonInv, UsbInv, WorkersInv
    <2>2. \A a \in Addresses : Over(a) /\ pc[a] = "closed"
      BY <2>1 DEF StoppedOK, ThreadsOK
    <2>3. \A p \in Ports : files[p] = NoAddress
      BY <2>1 DEF StoppedOK
    <2>4. ASSUME NEW a \in Live \ dropped PROVE owner[a][IF0] = Kernel
      <3>1. a \in Addresses /\ owner[a][IF0] \in Sessions \cup {Kernel, Nobody}
        BY <2>1, Numbers DEF Live, UsbTypeOK
      <3>2. owner[a][IF0] # Nobody /\ \A s \in Sessions : owner[a][IF0] = s => Has(s, a)
        BY <2>1, <2>4 DEF KeysOwned
      <3>3. \A s \in Sessions : ~Has(s, a)
        BY <2>2, WorkersAssumption DEF Has, Addresses
      <3> QED
        BY <3>1, <3>2, <3>3
    <2> QED
      BY <2>2, <2>3, <2>4
  <1> QED
    BY <1>1, DaemonInvariant, PTL
=============================================================================
