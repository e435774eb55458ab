----------------------------- MODULE CommandProofs --------------------------
(***************************************************************************)
(* What reaches a keyboard stays within its tables: for commands of any    *)
(* bytes and length from the web application, to definitions with any      *)
(* bounds and command bytes of their own, one byte for two commands        *)
(* included, and for the CLI's, whose catalogue keeps the bytes apart.     *)
(* And what the CLI sends is for the keyboard it names, and does there     *)
(* what the user asked for.                                                *)
(***************************************************************************)
EXTENDS CommandLine, FiniteSetTheorems, SequenceTheorems, WellFoundedInduction, TLAPS

\* The rewriting of a payload touches bytes 10 and 11 only.
LEMMA NormalizeKeeps ==
  ASSUME NEW def, NEW cmd \in Seq(Byte)
  PROVE  LET out == NormalizeOutboundCommand(def, cmd)
         IN  /\ out \in Seq(Byte) /\ Len(out) = Len(cmd)
             /\ \A i \in 1 .. Len(cmd) : i \notin {10, 11} => out[i] = cmd[i]
<1> DEFINE out == NormalizeOutboundCommand(def, cmd)
           rewritten == [cmd EXCEPT ![10] = cmd[11], ![11] = 0]
<1>1. CASE out = cmd
  BY <1>1
<1>2. CASE out = rewritten /\ Len(cmd) >= 12
  <2>1. cmd[11] \in Byte /\ 0 \in Byte
    <3>1. cmd[11] \in Byte
      BY <1>2
    <3>2. 0 \in Byte
      BY DEF Byte
    <3> QED
      BY <3>1, <3>2
  <2>2. rewritten \in Seq(Byte) /\ Len(rewritten) = Len(cmd)
    BY <1>2, <2>1
  <2> QED
    BY <1>2, <2>2
<1> QED
  BY <1>1, <1>2 DEF NormalizeOutboundCommand

\* A command that passes has passed every check that is for its byte.
LEMMA PassedChecks ==
  ASSUME NEW def, NEW cmd \in Seq(Byte), PayloadCheck(def, cmd) = "ok"
  PROVE  LET t == TableOf(def)
         IN  /\ cmd[1] = t.set_profile =>
                  Len(cmd) >= 2 /\ ProfileCheck(def, cmd[2]) = "ok"
             /\ cmd[1] = t.set_keymatrix =>
                  Len(cmd) >= 7 /\ KeyCheck(def, cmd[3], cmd[7]) = "ok"
             /\ cmd[1] \in {t.set_keymatrix_simple, t.set_fn_simple} =>
                  Len(cmd) >= 3 /\ KeyCheck(def, cmd[3], 0) = "ok"
             /\ cmd[1] = t.set_macro =>
                  Len(cmd) >= 3 /\ cmd[2] <= MAX_MACRO_INDEX /\ cmd[3] <= MAX_CHUNK_PAGE
             /\ cmd[1] = SET_FN =>
                  Len(cmd) >= 4 /\ KeyCheck(def, cmd[4], 0) = "ok"
  BY DEF PayloadCheck, Then, Check, FnCheck

\* What the keyboard took, if it took something, is a command that passed,
\* rewritten; its read is the policy's decision on that command.
Passed(def, dec, taken) ==
  taken # <<>> =>
    /\ Bounded(def)
    /\ \E cmd \in Seq(Byte) :
         /\ cmd # <<>>
         /\ PayloadCheck(def, cmd) = "ok"
         /\ taken = NormalizeOutboundCommand(def, cmd)
         /\ dec = Forward(ClassifyCommand(def, cmd[1]))

PassedInv == Passed(definition, decision, frame)

\* So it is after a command of any bytes, from either client.
LEMMA SentPasses ==
  ASSUME NEW def, Bounded(def), NEW cmd \in Seq(Byte),
         NEW dec, dec = EvaluateOutboundCommand(def, cmd),
         NEW taken,
         taken = IF dec.forwarded THEN NormalizeOutboundCommand(def, cmd) ELSE <<>>
  PROVE  Passed(def, dec, taken)
<1> SUFFICES ASSUME taken # <<>> PROVE Passed(def, dec, taken)
  BY DEF Passed
<1>1. dec.forwarded /\ taken = NormalizeOutboundCommand(def, cmd)
  OBVIOUS
<1>2. cmd # <<>>
  <2>1. Len(taken) = Len(cmd) /\ taken \in Seq(Byte)
    BY <1>1, NormalizeKeeps
  <2> QED
    BY <2>1
<1>3. PayloadCheck(def, cmd) = "ok" /\ dec = Forward(ClassifyCommand(def, cmd[1]))
  BY <1>1, <1>2 DEF EvaluateOutboundCommand, Decision
<1> QED
  BY <1>1, <1>2, <1>3 DEF Passed

\* The web application's session has one of the definitions.
PolicyInv == definition \in Definitions /\ PassedInv

LEMMA PolicyInvInit == Init => PolicyInv
  BY DEF Init, PolicyInv, PassedInv, Passed

LEMMA PolicyInvStep == PolicyInv /\ [Next]_vars => PolicyInv'
<1> SUFFICES ASSUME PolicyInv, [Next]_vars PROVE PolicyInv'
  OBVIOUS
<1>1. ASSUME NEW cmd \in Commands, Send(cmd) PROVE PolicyInv'
  <2>1. /\ decision' = EvaluateOutboundCommand(definition, cmd)
        /\ frame' = IF decision'.forwarded THEN NormalizeOutboundCommand(definition, cmd) ELSE <<>>
        /\ definition' = definition
    BY <1>1 DEF Send
  <2>2. Bounded(definition) /\ cmd \in Seq(Byte) /\ definition \in Definitions
    BY PolicyAssumption DEF PolicyInv
  <2>3. Passed(definition, decision', frame')
    BY <2>1, <2>2, SentPasses
  <2> QED
    BY <2>1, <2>2, <2>3 DEF PolicyInv, PassedInv, Passed
<1>2. CASE UNCHANGED vars
  BY <1>2 DEF vars, PolicyInv, PassedInv, Passed
<1> QED
  BY <1>1, <1>2 DEF Next

LEMMA PolicyHolds == Spec => []PolicyInv
  BY PolicyInvInit, PolicyInvStep, PTL DEF Spec

\* The command behind a frame, and the bytes of it the firmware goes by.
LEMMA Taken ==
  ASSUME PassedInv, frame # <<>>
  PROVE  /\ Bounded(definition)
         /\ \E cmd \in Seq(Byte) :
              /\ Len(cmd) > 0 /\ Len(frame) = Len(cmd)
              /\ PayloadCheck(definition, cmd) = "ok"
              /\ frame = NormalizeOutboundCommand(definition, cmd)
              /\ decision = Forward(ClassifyCommand(definition, cmd[1]))
              /\ \A i \in 1 .. 9 : i <= Len(cmd) => ByteAt(i) = cmd[i] /\ frame[i] = cmd[i]
<1>1. PICK cmd \in Seq(Byte) :
        /\ cmd # <<>>
        /\ PayloadCheck(definition, cmd) = "ok"
        /\ frame = NormalizeOutboundCommand(definition, cmd)
        /\ decision = Forward(ClassifyCommand(definition, cmd[1]))
  BY DEF PassedInv, Passed
<1>2. Bounded(definition)
  BY DEF PassedInv, Passed
<1>3. Len(cmd) > 0 /\ Len(frame) = Len(cmd)
      /\ \A i \in 1 .. Len(cmd) : i \notin {10, 11} => frame[i] = cmd[i]
  BY <1>1, NormalizeKeeps
<1>4. \A i \in 1 .. 9 : i <= Len(cmd) => ByteAt(i) = cmd[i] /\ frame[i] = cmd[i]
  BY <1>3 DEF ByteAt
<1> QED
  BY <1>1, <1>2, <1>3, <1>4

\* The last index of a table and the number of its entries.
LEMMA SmallBytes ==
  ASSUME NEW x \in Byte
  PROVE  (x <= 49 => x < 50) /\ (x <= 9 => x < 10)
<1>1. x \in Int
  BY DEF Byte
<1> QED
  BY <1>1

\* A key and a layer that pass the policy pass the transport's check.
LEMMA KeyChecked ==
  ASSUME NEW def, Bounded(def), NEW key \in Byte, NEW layer \in Byte,
         KeyCheck(def, key, layer) = "ok"
  PROVE  ValidateWriteRequest(def, key, layer)
<1>1. def.key_count # None /\ def.layer # None /\ key < def.key_count /\ layer < def.layer
  BY DEF KeyCheck, Check
<1>2. def.key_count \in Nat /\ def.layer \in Nat
  BY <1>1 DEF Bounded
<1> QED
  BY <1>1, <1>2 DEF ValidateWriteRequest, Byte

\* The bytes the firmware goes by are those the checks were about.
LEMMA PassedInBounds == PassedInv => WritesInBounds
<1> SUFFICES ASSUME PassedInv, frame # <<>> PROVE WritesInBounds
  BY DEF WritesInBounds, KeyWrites, Takes
<1> DEFINE t == TableOf(definition)
<1>1. PICK cmd \in Seq(Byte) :
        /\ Len(cmd) > 0 /\ Len(frame) = Len(cmd)
        /\ PayloadCheck(definition, cmd) = "ok"
        /\ \A i \in 1 .. 9 : i <= Len(cmd) => ByteAt(i) = cmd[i] /\ frame[i] = cmd[i]
  BY Taken
<1>2. /\ cmd[1] = t.set_profile =>
           Len(cmd) >= 2 /\ ProfileCheck(definition, cmd[2]) = "ok"
      /\ cmd[1] = t.set_keymatrix =>
           Len(cmd) >= 7 /\ KeyCheck(definition, cmd[3], cmd[7]) = "ok"
      /\ cmd[1] \in {t.set_keymatrix_simple, t.set_fn_simple} =>
           Len(cmd) >= 3 /\ KeyCheck(definition, cmd[3], 0) = "ok"
      /\ cmd[1] = t.set_macro =>
           Len(cmd) >= 3 /\ cmd[2] <= MAX_MACRO_INDEX /\ cmd[3] <= MAX_CHUNK_PAGE
      /\ cmd[1] = SET_FN => Len(cmd) >= 4 /\ KeyCheck(definition, cmd[4], 0) = "ok"
  BY <1>1, PassedChecks
<1>3. Bounded(definition)
  BY Taken
<1>4. frame[1] = cmd[1] /\ \A i \in 1 .. Len(cmd) : cmd[i] \in Byte
  BY <1>1
<1>5. 0 \in Byte
  BY DEF Byte
<1>6. \A w \in KeyWrites : ValidateWriteRequest(definition, w.key, w.layer)
  <2> HIDE DEF t
  <2>1. ASSUME cmd[1] = t.set_keymatrix
        PROVE  ValidateWriteRequest(definition, ByteAt(3), ByteAt(7))
    BY <1>1, <1>2, <1>3, <1>4, <2>1, KeyChecked
  <2>2. ASSUME cmd[1] \in {t.set_keymatrix_simple, t.set_fn_simple}
        PROVE  ValidateWriteRequest(definition, ByteAt(3), 0)
    BY <1>1, <1>2, <1>3, <1>4, <1>5, <2>2, KeyChecked
  <2>3. ASSUME cmd[1] = SET_FN
        PROVE  ValidateWriteRequest(definition, ByteAt(4), 0)
    BY <1>1, <1>2, <1>3, <1>4, <1>5, <2>3, KeyChecked
  <2>4. ASSUME NEW w \in KeyWrites
        PROVE  \/ cmd[1] = t.set_keymatrix /\ w.key = ByteAt(3) /\ w.layer = ByteAt(7)
               \/ /\ cmd[1] \in {t.set_keymatrix_simple, t.set_fn_simple}
                  /\ w.key = ByteAt(3) /\ w.layer = 0
               \/ cmd[1] = SET_FN /\ w.key = ByteAt(4) /\ w.layer = 0
    BY <1>4 DEF KeyWrites, Takes, t
  <2> QED
    BY <2>1, <2>2, <2>3, <2>4
<1>7. Takes(t.set_macro) => ByteAt(2) < 50 /\ ByteAt(3) < 10
  <2> SUFFICES ASSUME cmd[1] = t.set_macro
               PROVE  ByteAt(2) < 50 /\ ByteAt(3) < 10
    BY <1>4 DEF Takes
  <2> HIDE DEF t
  <2>1. Len(cmd) >= 3 /\ cmd[2] <= 49 /\ cmd[3] <= 9
    BY <1>2 DEF MAX_MACRO_INDEX, MAX_CHUNK_PAGE
  <2>2. ByteAt(2) = cmd[2] /\ ByteAt(3) = cmd[3] /\ cmd[2] \in Byte /\ cmd[3] \in Byte
    BY <1>1, <1>4, <2>1
  <2> QED
    BY <2>1, <2>2, SmallBytes
<1>8. Takes(t.set_profile) =>
        definition.layer # None /\ ByteAt(2) < Profiles(definition)
  BY <1>1, <1>2, <1>4 DEF Takes, ProfileCheck, Check
<1> QED
  BY <1>6, <1>7, <1>8 DEF WritesInBounds

\* The bytes that write to the tables are among those the policy knows.
LEMMA PassedNotAwaited == PassedInv => WritesAreNotAwaited
<1> SUFFICES ASSUME PassedInv, KeyWrites # {} PROVE decision.read = "synthetic"
  BY DEF WritesAreNotAwaited
<1> DEFINE t == TableOf(definition)
<1>1. frame # <<>>
  BY DEF KeyWrites
<1>2. PICK cmd \in Seq(Byte) :
        /\ Len(cmd) > 0 /\ frame[1] = cmd[1]
        /\ decision = Forward(ClassifyCommand(definition, cmd[1]))
  BY <1>1, Taken
<1>3. cmd[1] \in {t.set_keymatrix, t.set_keymatrix_simple, t.set_fn_simple, SET_FN}
  BY <1>1, <1>2 DEF KeyWrites, Takes
<1>4. cmd[1] \in {t[f] : f \in Setters} \cup SharedWrites
  BY <1>3 DEF Setters, SharedWrites, SET_FN
<1>5. ClassifyCommand(definition, cmd[1]) = "write"
  BY <1>4 DEF ClassifyCommand
<1> QED
  BY <1>2, <1>5 DEF Forward, Decision

\* The rewriting leaves no simple command in the form the firmware misreads.
LEMMA PassedPlaced == PassedInv => KeycodesAreWhereTheyBelong
<1> DEFINE t == TableOf(definition)
           Misread == ByteAt(9) = 0 /\ ByteAt(10) = 0 /\ ByteAt(11) # 0 /\ ByteAt(12) = 0
<1> SUFFICES ASSUME PassedInv, frame # <<>>, Len(frame) >= 12,
                    frame[1] \in {t.set_keymatrix_simple, t.set_fn_simple}
             PROVE  ~Misread
  BY DEF KeycodesAreWhereTheyBelong, Takes
<1>1. PICK cmd \in Seq(Byte) :
        /\ Len(cmd) > 0 /\ Len(frame) = Len(cmd) /\ frame[1] = cmd[1]
        /\ frame = NormalizeOutboundCommand(definition, cmd)
  BY Taken
<1>2. CASE frame = [cmd EXCEPT ![10] = cmd[11], ![11] = 0] /\ Len(cmd) >= 12
  <2>1. 11 \in DOMAIN cmd /\ 11 <= Len(frame)
    BY <1>1, <1>2
  <2>2. frame[11] = 0
    BY <1>2, <2>1
  <2> QED
    BY <2>1, <2>2 DEF ByteAt
<1>3. CASE /\ frame = cmd
           /\ ~(/\ Len(cmd) >= 12
                /\ cmd[9] = 0 /\ cmd[10] = 0 /\ cmd[11] # 0 /\ cmd[12] = 0)
  BY <1>1, <1>3 DEF ByteAt
<1> QED
  BY <1>1, <1>2, <1>3 DEF NormalizeOutboundCommand

-----------------------------------------------------------------------------
(* The catalogue, and what discovery makes of a keyboard with it.          *)

\* CHOOSE's condition is met by the largest element of a set of indices: the
\* set of what n - x is for the elements has a minimum, as < is well-founded.
LEMMA MaxIsAnElement ==
  ASSUME NEW n \in Int, NEW S \in SUBSET (1 .. n), S # {}
  PROVE  Max(S) \in S
<1> DEFINE less == OpToRel(<, Nat)
           T == {n - x : x \in S}
<1>1. T \subseteq Nat /\ T # {}
  <2>1. \A x \in S : x \in Int /\ x <= n
    OBVIOUS
  <2>2. \A x \in S : n - x \in Nat
    BY <2>1
  <2> QED
    BY <2>2
<1>2. \E t \in T : \A u \in T : ~(<<u, t>> \in less)
  <2> HIDE DEF less, T
  <2>1. IsWellFoundedOn(less, Nat)
    BY NatLessThanWellFounded DEF less
  <2> QED
    BY <1>1, <2>1, WFMin
<1>3. PICK t \in T : \A u \in T : ~(u < t)
  BY <1>1, <1>2 DEF OpToRel
<1>4. PICK x \in S : t = n - x
  OBVIOUS
<1>5. \A y \in S : x >= y
  <2> SUFFICES ASSUME NEW y \in S PROVE x >= y
    OBVIOUS
  <2>1. ~(n - y < n - x)
    BY <1>3, <1>4
  <2> QED
    BY <2>1
<1> QED
  BY <1>5 DEF Max

\* Each id leads to a definition of that id, read from one of the files.
LEMMA CatalogueIds ==
  ASSUME NEW i \in DOMAIN Catalogue
  PROVE  /\ Catalogue[i] \in ToSet(DeviceFiles) /\ Catalogue[i] # None
         /\ Catalogue[i].id = i
<1> DEFINE Of(id) == {n \in DOMAIN DeviceFiles : DeviceFiles[n].id = id}
<1>1. /\ DeviceFiles \in Seq(ToSet(DeviceFiles))
      /\ None \notin ToSet(DeviceFiles)
  BY ClientAssumption
<1>2. /\ DOMAIN Catalogue = {def.id : def \in ToSet(DeviceFiles)}
      /\ Catalogue[i] = DeviceFiles[Max(Of(i))]
  BY <1>1 DEF Catalogue, LoadFromDirectory
<1>3. Of(i) \in SUBSET (1 .. Len(DeviceFiles)) /\ Of(i) # {}
  <2>1. PICK n \in DOMAIN DeviceFiles : DeviceFiles[n].id = i
    BY <1>2 DEF ToSet
  <2> QED
    BY <1>1, <2>1
<1>4. Max(Of(i)) \in Of(i)
  <2>1. Len(DeviceFiles) \in Int
    BY <1>1
  <2> HIDE DEF Of
  <2> QED
    BY <1>3, <2>1, MaxIsAnElement
<1> QED
  BY <1>1, <1>2, <1>4 DEF ToSet

\* The definitions for a VID/PID are finitely many, as the files are.
LEMMA MatchesAreFinite ==
  ASSUME NEW vid, NEW pid
  PROVE  IsFiniteSet(FindByRuntimeVidPid(Catalogue, vid, pid))
<1> DEFINE S == 1 .. Len(DeviceFiles)
           T == ToSet(DeviceFiles)
           f == [n \in S |-> DeviceFiles[n]]
<1>1. DeviceFiles \in Seq(T) /\ Len(DeviceFiles) \in Nat
  BY ClientAssumption
<1>2. f \in Surjection(S, T)
  <2>1. DOMAIN DeviceFiles = S
    BY <1>1
  <2>2. T = {DeviceFiles[n] : n \in S}
    BY <2>1 DEF ToSet
  <2>3. \A n \in S : f[n] = DeviceFiles[n]
    OBVIOUS
  <2> HIDE DEF S, T
  <2>4. f \in [S -> T]
    BY <2>2
  <2>5. \A t \in T : \E n \in S : f[n] = t
    BY <2>2, <2>3
  <2> QED
    BY <2>4, <2>5 DEF Surjection
<1>3. IsFiniteSet(S)
  BY <1>1, FS_Interval
<1>4. IsFiniteSet(T)
  <2> HIDE DEF S, T, f
  <2> QED
    BY <1>2, <1>3, FS_Surjection
<1>5. FindByRuntimeVidPid(Catalogue, vid, pid) \subseteq T
  BY CatalogueIds DEF FindByRuntimeVidPid
<1> QED
  BY <1>4, <1>5, FS_Subset

\* The definition of the keyboard's firmware, when it names the VID/PID shown.
LEMMA TheModel ==
  ASSUME NEW keyboard, Catalogued(keyboard)
  PROVE  LET model == FindById(Catalogue, keyboard.firmware_id)
         IN  /\ keyboard.firmware_id \in DOMAIN Catalogue
             /\ model # None /\ model.id = keyboard.firmware_id
             /\ model \in FindByRuntimeVidPid(Catalogue, keyboard.vid, keyboard.pid)
  BY CatalogueIds DEF Catalogued, FindByRuntimeVidPid, FindById

\* Then discovery's only answers are that definition and none: a VID/PID of
\* its own belongs to it, and for a shared one the firmware has told its id.
LEMMA ProbeNamesTheModel ==
  ASSUME NEW keyboard, Catalogued(keyboard),
         NEW def \in ProbeOutcomes(Catalogue, keyboard), def # None
  PROVE  def = FindById(Catalogue, keyboard.firmware_id)
<1> DEFINE matches == FindByRuntimeVidPid(Catalogue, keyboard.vid, keyboard.pid)
           model == FindById(Catalogue, keyboard.firmware_id)
<1>1. model \in matches
  BY TheModel
<1>2. CASE Cardinality(matches) = 1
  <2>1. IsFiniteSet(matches)
    BY MatchesAreFinite
  <2>2. PICK x : matches = {x}
    <3> HIDE DEF matches
    <3> QED
      BY <1>2, <2>1, FS_Singleton
  <2>3. def \in matches
    BY <1>1, <1>2 DEF ProbeOutcomes
  <2> QED
    BY <1>1, <2>2, <2>3
<1>3. CASE Cardinality(matches) # 1
  BY <1>1, <1>3 DEF ProbeOutcomes
<1> QED
  BY <1>2, <1>3


-----------------------------------------------------------------------------
(* What the CLI believes about its target.                                 *)

\* What an entry, of the registry or of a list, says of a keyboard: true for
\* every keyboard whose VID/PID its firmware's definition names.
Names(e, keyboard) ==
  /\ e.vid = keyboard.vid /\ e.pid = keyboard.pid
  /\ Catalogued(keyboard) => e.id = keyboard.firmware_id

\* An entry for a path speaks of the keyboard with the entry's address; others
\* have come or will come to the port, and never with that address.
EntryOK(p, e) ==
  /\ e.addr \in 1 .. lastAddr
  /\ bus[p] # None /\ bus[p].addr = e.addr => Names(e, bus[p])

EntriesOK(entries) == \A p \in DOMAIN entries : p \in Paths /\ EntryOK(p, entries[p])

BusInv ==
  /\ lastAddr \in Nat
  /\ DOMAIN bus = Paths
  /\ \A p \in Paths : bus[p] # None => bus[p].addr \in 1 .. lastAddr

KnownInv ==
  /\ DOMAIN known = Paths
  /\ \A p \in Paths : known[p] # None =>
       EntryOK(p, known[p]) /\ DOMAIN known[p] = {"id", "vid", "pid", "addr", "online"}

UpdatesInv ==
  updates # <<>> =>
    \E u : updates = <<u>> /\ u.type \in {"Add", "Change"} /\ EntriesOK(u.devices)

PhaseInv ==
  /\ phase \in {"start", "connected", "bootstrap", "listed"} => target = None
  /\ phase \in {"start", "connected", "bootstrap", "listed", "resolved"} => frame = <<>>
  /\ phase = "off" => target = None

TargetInv ==
  target # None => target.path \in Paths /\ target.addr \in 1 .. lastAddr

\* What the keyboard took is the CLI's plan for its target, by the policy.
SentInv ==
  phase # "off" /\ frame # <<>> =>
    /\ asked \in Requests
    /\ plan = BuildCommandRequest(asked, target.definition)
    /\ plan # None /\ plan.request # None
    /\ decision = EvaluateOutboundCommand(definition, plan.request)
    /\ decision.forwarded
    /\ frame = NormalizeOutboundCommand(definition, plan.request)

ClientInv ==
  /\ BusInv /\ KnownInv /\ UpdatesInv /\ EntriesOK(list)
  /\ PhaseInv /\ TargetInv /\ SentInv /\ TargetIsTheKeyboardNamed

LEMMA ClientInvInit == ClientInit => ClientInv
<1> SUFFICES ASSUME ClientInit PROVE ClientInv
  OBVIOUS
<1> USE DEF ClientInit
<1>1. BusInv /\ KnownInv /\ UpdatesInv
  BY DEF BusInv, KnownInv, UpdatesInv
<1>2. EntriesOK(list)
  BY DEF EntriesOK, EmptyList
<1>3. frame = <<>> /\ phase \in {"off", "start"}
  BY DEF WebInit, CliInit, Init
<1>4. PhaseInv /\ TargetInv /\ SentInv
  BY <1>3 DEF PhaseInv, TargetInv, SentInv
<1>5. TargetIsTheKeyboardNamed
  BY DEF TargetIsTheKeyboardNamed, Sound, Unmoved
<1> QED
  BY <1>1, <1>2, <1>4, <1>5 DEF ClientInv

\* Addresses are not used again: a keyboard with an address given out before a
\* step was there before it.
BusKept ==
  /\ lastAddr' \in Nat /\ lastAddr' >= lastAddr
  /\ \A p \in Paths : bus'[p] # None /\ bus'[p].addr \in 1 .. lastAddr =>
       bus'[p] = bus[p]

LEMMA BusStep ==
  ASSUME ClientInv,
         \/ UNCHANGED <<bus, lastAddr>>
         \/ \E p \in Paths, keyboard \in Keyboards : Replug(p, keyboard)
         \/ \E p \in Paths : Unplug(p)
  PROVE  BusInv' /\ BusKept
<1> USE DEF ClientInv, BusInv
<1>1. CASE UNCHANGED <<bus, lastAddr>>
  BY <1>1 DEF BusKept
<1>2. CASE \E p \in Paths, keyboard \in Keyboards : Replug(p, keyboard)
  <2>1. PICK p \in Paths, keyboard \in Keyboards : Replug(p, keyboard)
    BY <1>2
  <2>2. /\ lastAddr' = lastAddr + 1
        /\ bus' = [bus EXCEPT ![p] = At(keyboard, lastAddr + 1)]
    BY <2>1 DEF Replug
  <2>3. At(keyboard, lastAddr + 1).addr = lastAddr + 1
    BY DEF At
  <2> QED
    BY <2>2, <2>3 DEF BusKept
<1>3. CASE \E p \in Paths : Unplug(p)
  BY <1>3 DEF Unplug, BusKept
<1> QED
  BY <1>1, <1>2, <1>3

\* So what is true of an entry stays true.
LEMMA EntryKept ==
  ASSUME BusInv, BusKept, NEW p \in Paths, NEW e, EntryOK(p, e)
  PROVE  e.addr \in 1 .. lastAddr' /\ (bus'[p] # None /\ bus'[p].addr = e.addr =>
                                         Names(e, bus'[p]))
<1>1. e.addr \in 1 .. lastAddr'
  BY DEF BusInv, BusKept, EntryOK
<1>2. ASSUME bus'[p] # None, bus'[p].addr = e.addr PROVE Names(e, bus'[p])
  <2>1. bus'[p] = bus[p]
    BY <1>2 DEF BusKept, EntryOK
  <2> QED
    BY <1>2, <2>1 DEF EntryOK
<1> QED
  BY <1>1, <1>2

\* And the target, as long as it is the one named, has not been exchanged.
LEMMA SoundKept ==
  ASSUME ClientInv, BusKept, UNCHANGED target, Sound'
  PROVE  Sound /\ Real' = Real
<1>1. target # None /\ target.path \in Paths /\ target.addr \in 1 .. lastAddr
  BY DEF ClientInv, TargetInv, Sound, Unmoved
<1>2. bus'[target.path] = bus[target.path]
  BY <1>1 DEF BusKept, Sound, Unmoved
<1> QED
  BY <1>2 DEF Sound, Unmoved, Real, Catalogued, FindById, FindByRuntimeVidPid,
               SupportsRuntimePid, Catalogue

LEMMA KeptKnown ==
  ASSUME ClientInv, BusInv', BusKept, UNCHANGED known
  PROVE  KnownInv'
<1> SUFFICES ASSUME NEW p \in Paths, known[p] # None
             PROVE  EntryOK(p, known[p])'
  BY DEF ClientInv, KnownInv
<1>1. BusInv /\ EntryOK(p, known[p])
  BY DEF ClientInv, KnownInv
<1> QED
  BY <1>1, EntryKept DEF EntryOK

LEMMA KeptUpdates ==
  ASSUME ClientInv, BusInv', BusKept, UNCHANGED updates
  PROVE  UpdatesInv'
<1> SUFFICES ASSUME NEW u, updates = <<u>>, EntriesOK(u.devices)
             PROVE  EntriesOK(u.devices)'
  BY DEF ClientInv, UpdatesInv
<1> QED
  BY EntryKept DEF ClientInv, EntriesOK, EntryOK

LEMMA KeptList ==
  ASSUME ClientInv, BusInv', BusKept, UNCHANGED list
  PROVE  EntriesOK(list)'
<1> QED
  BY EntryKept DEF ClientInv, EntriesOK, EntryOK

LEMMA KeptTarget ==
  ASSUME ClientInv, BusInv', BusKept, UNCHANGED <<target, frame, definition>>
  PROVE  TargetInv' /\ TargetIsTheKeyboardNamed'
<1>1. TargetInv'
  BY DEF ClientInv, TargetInv, BusInv, BusKept
<1>2. TargetIsTheKeyboardNamed'
  BY SoundKept DEF ClientInv, TargetIsTheKeyboardNamed
<1> QED
  BY <1>1, <1>2

\* A message that reports a registration says what the registration says.
LEMMA Announced ==
  ASSUME ClientInv, BusInv', BusKept, NEW type \in {"Add", "Change"}, NEW p \in Paths,
         EntryOK(p, known[p])', Announce(type, p)
  PROVE  UpdatesInv'
<1>1. CASE UNCHANGED updates
  BY <1>1, KeptUpdates
<1>2. CASE updates = <<>> /\
           updates' = Append(updates, [type |-> type, devices |-> [q \in {p} |-> known'[q]]])
  <2>1. PICK u : /\ updates' = <<u>> /\ u.type = type
                  /\ u.devices = [q \in {p} |-> known'[q]]
    BY <1>2
  <2>2. DOMAIN u.devices = {p} /\ u.devices[p] = known'[p]
    BY <2>1
  <2>3. EntriesOK(u.devices)'
    BY <2>2 DEF EntriesOK, EntryOK
  <2> QED
    BY <2>1, <2>3 DEF UpdatesInv
<1> QED
  BY <1>1, <1>2 DEF Announce

\* The ports and the driver.
LEMMA DriverSteps ==
  ASSUME ClientInv, NEW p \in Paths,
         \/ \E keyboard \in Keyboards : Replug(p, keyboard)
         \/ Unplug(p)
         \/ Discover(p)
         \/ MarkOffline(p)
  PROVE  ClientInv'
<1>1. BusInv' /\ BusKept
  BY BusStep DEF Discover, MarkOffline
<1>2. UNCHANGED <<policyVars, clientVars>>
  BY DEF Replug, Unplug, Discover, MarkOffline
<1>3. PhaseInv' /\ SentInv'
  BY <1>2 DEF ClientInv, PhaseInv, SentInv, policyVars, clientVars
<1>4. EntriesOK(list)' /\ TargetInv' /\ TargetIsTheKeyboardNamed'
  BY <1>1, <1>2, KeptList, KeptTarget DEF policyVars, clientVars
<1>5. CASE (\E keyboard \in Keyboards : Replug(p, keyboard)) \/ Unplug(p)
  <2>1. UNCHANGED <<known, updates>>
    BY <1>5 DEF Replug, Unplug
  <2> QED
    BY <1>1, <1>3, <1>4, <2>1, KeptKnown, KeptUpdates DEF ClientInv
<1>6. CASE Discover(p)
  <2>1. PICK def \in ProbeOutcomes(Catalogue, bus[p]) \ {None} :
          known' = [known EXCEPT ![p] = Registration(def, bus[p])]
    BY <1>6 DEF Discover
  <2>2. bus[p] # None /\ UNCHANGED <<bus, lastAddr>> /\ \E type \in {"Add", "Change"} : Announce(type, p)
    BY <1>6 DEF Discover
  <2> DEFINE e == Registration(def, bus[p])
  <2>3. /\ e.id = def.id /\ e.vid = bus[p].vid /\ e.pid = bus[p].pid /\ e.addr = bus[p].addr
        /\ DOMAIN e = {"id", "vid", "pid", "addr", "online"}
    BY DEF Registration
  <2>4. Catalogued(bus[p]) => def.id = bus[p].firmware_id
    BY <2>1, ProbeNamesTheModel, TheModel
  <2>5. Names(e, bus[p])
    BY <2>3, <2>4 DEF Names
  <2>6. EntryOK(p, e)
    BY <2>2, <2>3, <2>5 DEF EntryOK, ClientInv, BusInv
  <2> HIDE DEF e
  <2>7. KnownInv'
    <3>1. DOMAIN known' = Paths /\ known'[p] = e /\ \A q \in Paths \ {p} : known'[q] = known[q]
      BY <2>1 DEF ClientInv, KnownInv, e
    <3> QED
      BY <2>2, <2>3, <2>6, <3>1 DEF ClientInv, KnownInv, EntryOK
  <2>8. EntryOK(p, known[p])'
    <3>1. known'[p] = e
      BY <2>1 DEF ClientInv, KnownInv, e
    <3> QED
      BY <2>2, <2>6, <3>1 DEF EntryOK
  <2>9. UpdatesInv'
    BY <1>1, <2>2, <2>8, Announced
  <2> QED
    BY <1>1, <1>3, <1>4, <2>7, <2>9 DEF ClientInv
<1>7. CASE MarkOffline(p)
  <2>1. /\ known[p] # None /\ UNCHANGED <<bus, lastAddr>>
        /\ known' = [known EXCEPT ![p].online = FALSE]
        /\ Announce("Change", p)
    BY <1>7 DEF MarkOffline
  <2>2. /\ DOMAIN known' = Paths /\ \A q \in Paths \ {p} : known'[q] = known[q]
        /\ known'[p] = [known[p] EXCEPT !.online = FALSE]
    BY <2>1 DEF ClientInv, KnownInv
  <2>3. EntryOK(p, known[p]) /\ DOMAIN known[p] = {"id", "vid", "pid", "addr", "online"}
    BY <2>1 DEF ClientInv, KnownInv
  <2>4. /\ DOMAIN known'[p] = {"id", "vid", "pid", "addr", "online"}
        /\ \A f \in {"id", "vid", "pid", "addr"} : known'[p][f] = known[p][f]
    BY <2>2, <2>3
  <2>5. EntryOK(p, known'[p])
    BY <2>3, <2>4 DEF EntryOK, Names
  <2>6. KnownInv'
    BY <2>1, <2>2, <2>4, <2>5 DEF ClientInv, KnownInv, EntryOK
  <2>7. UpdatesInv'
    BY <1>1, <2>1, <2>5, Announced DEF EntryOK
  <2> QED
    BY <1>1, <1>3, <1>4, <2>6, <2>7 DEF ClientInv
<1> QED
  BY <1>5, <1>6, <1>7

\* The connection and the list.
LEMMA ListSteps ==
  ASSUME ClientInv, Connect \/ WatchDevListInit \/ Bootstrap \/ BootstrapEnds
  PROVE  ClientInv'
<1>1. /\ UNCHANGED <<policyVars, bus, lastAddr, known, target, asked, plan>>
      /\ phase \in {"start", "connected", "bootstrap"} /\ phase' # "off"
      /\ phase' \in {"connected", "bootstrap", "listed", "failed"}
  BY DEF Connect, WatchDevListInit, Bootstrap, BootstrapEnds, Goes, driverVars
<1>2. BusInv' /\ BusKept /\ KnownInv' /\ TargetInv' /\ TargetIsTheKeyboardNamed'
  BY <1>1, BusStep, KeptKnown, KeptTarget DEF policyVars
<1>3. PhaseInv' /\ SentInv'
  BY <1>1 DEF ClientInv, PhaseInv, SentInv, policyVars
<1>4. UpdatesInv' /\ EntriesOK(list)'
  <2>1. CASE Connect \/ BootstrapEnds
    <3>1. UNCHANGED list /\ (UNCHANGED updates \/ updates' = <<>>)
      BY <2>1 DEF Connect, BootstrapEnds, driverVars
    <3> QED
      BY <1>2, <3>1, KeptUpdates, KeptList DEF UpdatesInv
  <2>2. CASE WatchDevListInit
    <3> DEFINE snapshot == [p \in {q \in Paths : known[q] # None} |-> known[p]]
    <3>1. UNCHANGED updates /\ (list' = list \/ list' = snapshot)
      BY <2>2 DEF WatchDevListInit, driverVars
    <3>2. EntriesOK(snapshot)
      BY DEF ClientInv, KnownInv, EntriesOK
    <3>3. list' = snapshot => EntriesOK(list)'
      BY <1>1, <3>2 DEF EntriesOK, EntryOK
    <3> QED
      BY <1>2, <3>1, <3>3, KeptUpdates, KeptList
  <2>3. CASE Bootstrap
    <3>1. PICK u : updates = <<u>> /\ u.type \in {"Add", "Change"} /\ EntriesOK(u.devices)
      BY <2>3 DEF Bootstrap, ClientInv, UpdatesInv
    <3>2. updates' = <<>>
      BY <2>3, <3>1 DEF Bootstrap
    <3>3. list' = MergeDeviceListUpdate(list, u)
      BY <2>3, <3>1 DEF Bootstrap
    <3>4. EntriesOK(list)
      BY DEF ClientInv
    <3>5. EntriesOK(MergeDeviceListUpdate(list, u))
      BY <3>1, <3>4 DEF MergeDeviceListUpdate, EntriesOK
    <3> QED
      BY <1>1, <3>2, <3>3, <3>5 DEF UpdatesInv, EntriesOK, EntryOK
  <2> QED
    BY <2>1, <2>2, <2>3
<1> QED
  BY <1>2, <1>3, <1>4 DEF ClientInv

\* A target is one of the devices, whichever selector picks it.
LEMMA TargetIsOfTheList ==
  ASSUME NEW s, Resolve(s), target' # None
  PROVE  \E devices \in SupportedOnlineDevices : target' \in devices
<1>1. PICK devices \in SupportedOnlineDevices : target' = ResolveTargetDevice(s, devices)
  BY DEF Resolve
<1>2. \A D : OnlyOne(D) # None => OnlyOne(D) \in D
  BY FS_EmptySet DEF OnlyOne
<1>3. target' \in devices
  BY <1>1, <1>2 DEF ResolveTargetDevice
<1> QED
  BY <1>3

\* The device resolved: it is of the list, and what it names is in its port.
LEMMA ResolveStep ==
  ASSUME ClientInv, NEW s, Resolve(s)
  PROVE  ClientInv'
<1>1. /\ UNCHANGED <<policyVars, driverVars, asked, plan>>
      /\ phase = "listed" /\ phase' \in {"failed", "resolved"}
      /\ list' = EmptyList
  BY DEF Resolve
<1>2. BusInv' /\ BusKept /\ KnownInv' /\ UpdatesInv'
  BY <1>1, BusStep, KeptKnown, KeptUpdates DEF driverVars
<1>3. EntriesOK(list)'
  BY <1>1 DEF EntriesOK, EmptyList
<1>4. frame = <<>> /\ frame' = <<>>
  BY <1>1 DEF ClientInv, PhaseInv, policyVars
<1>5. PhaseInv' /\ SentInv'
  BY <1>1, <1>4 DEF ClientInv, PhaseInv, SentInv
<1>6. CASE target' # None
  <2>1. PICK devices \in SupportedOnlineDevices : target' \in devices
    BY <1>6, TargetIsOfTheList
  <2>2. PICK p \in DOMAIN list :
          \E def \in ResolveDefinition(list[p]) :
            target' = [path |-> p, device_id |-> def.id, definition |-> def,
                       addr |-> list[p].addr]
    BY <2>1 DEF SupportedOnlineDevices
  <2> PICK def \in ResolveDefinition(list[p]) :
            target' = [path |-> p, device_id |-> def.id, definition |-> def,
                       addr |-> list[p].addr]
    BY <2>2
  <2>3. p \in Paths /\ EntryOK(p, list[p])
    BY DEF ClientInv, EntriesOK
  <2>4. TargetInv'
    BY <1>1, <2>2, <2>3 DEF TargetInv, EntryOK, driverVars
  <2>5. TargetIsTheKeyboardNamed'
    <3> DEFINE keyboard == bus[p]
               model == FindById(Catalogue, keyboard.firmware_id)
    <3> SUFFICES ASSUME Sound'
                 PROVE  target'.device_id = model.id /\ target'.definition = model
      BY <1>1, <1>4, <2>2 DEF TargetIsTheKeyboardNamed, Real, driverVars, FindById, Catalogue
    <3>1. keyboard # None /\ keyboard.addr = list[p].addr
      BY <1>1, <2>2 DEF Sound, Unmoved, driverVars
    <3>2. Catalogued(keyboard)
      BY <1>1, <2>2 DEF Sound, Catalogued, driverVars, FindByRuntimeVidPid,
                        SupportsRuntimePid, Catalogue
    <3>3. /\ list[p].id = keyboard.firmware_id
          /\ list[p].vid = keyboard.vid /\ list[p].pid = keyboard.pid
      BY <2>3, <3>1, <3>2 DEF EntryOK, Names
    <3>4. def.id = keyboard.firmware_id /\ \E i \in DOMAIN Catalogue : def = Catalogue[i]
      <4>1. /\ model \in FindByRuntimeVidPid(Catalogue, list[p].vid, list[p].pid)
            /\ model.id = list[p].id
        BY <3>2, <3>3, TheModel
      <4>2. /\ def \in FindByRuntimeVidPid(Catalogue, list[p].vid, list[p].pid)
            /\ def.id = list[p].id
        BY <4>1 DEF ResolveDefinition
      <4> QED
        BY <3>3, <4>2 DEF FindByRuntimeVidPid
    <3>5. def = model
      BY <3>4, CatalogueIds DEF FindById
    <3> QED
      BY <2>2, <3>5
  <2> QED
    BY <1>2, <1>3, <1>5, <2>4, <2>5 DEF ClientInv
<1>7. CASE target' = None
  BY <1>2, <1>3, <1>5, <1>7
     DEF ClientInv, TargetInv, TargetIsTheKeyboardNamed, Sound, Unmoved
<1> QED
  BY <1>6, <1>7

\* The command sent: the registration of the target's path is opened, so it is
\* of the keyboard the list spoke of, when that one is still there.
LEMMA ExecuteStep ==
  ASSUME ClientInv, NEW a \in Requests, Execute(a)
  PROVE  ClientInv'
<1>1. /\ UNCHANGED <<driverVars, list, target>>
      /\ phase = "resolved" /\ phase' \in {"failed", "sent"}
  BY DEF Execute
<1>2. BusInv' /\ BusKept /\ KnownInv' /\ UpdatesInv' /\ EntriesOK(list)'
  BY <1>1, BusStep, KeptKnown, KeptUpdates, KeptList DEF driverVars
<1>3. PhaseInv' /\ TargetInv'
  BY <1>1 DEF ClientInv, PhaseInv, TargetInv, driverVars
<1>4. frame = <<>>
  BY <1>1 DEF ClientInv, PhaseInv
<1>5. CASE UNCHANGED policyVars
  <2>1. TargetIsTheKeyboardNamed'
    BY <1>1, <1>2, <1>5, KeptTarget DEF policyVars
  <2>2. SentInv'
    BY <1>4, <1>5 DEF SentInv, policyVars
  <2> QED
    BY <1>2, <1>3, <2>1, <2>2 DEF ClientInv
<1>6. CASE ~UNCHANGED policyVars
  <2> DEFINE p == target.path
  <2>1. /\ asked' = a /\ plan' = BuildCommandRequest(a, target.definition)
        /\ plan' # None /\ plan'.request # None
        /\ Opens(p)
        /\ definition' = FindById(Catalogue, known[p].id)
        /\ decision' = EvaluateOutboundCommand(definition', plan'.request)
        /\ frame' = IF decision'.forwarded
                    THEN NormalizeOutboundCommand(definition', plan'.request) ELSE <<>>
    BY <1>6 DEF Execute
  <2>2. SentInv'
    BY <1>1, <2>1 DEF SentInv
  <2>3. TargetIsTheKeyboardNamed'
    <3> SUFFICES ASSUME Sound'
                 PROVE  /\ target.device_id = Real.id /\ target.definition = Real
                        /\ definition' = Real
      BY <1>1, <1>2, SoundKept DEF TargetIsTheKeyboardNamed
    <3>1. Sound
      BY <1>1, <1>2, SoundKept
    <3>2. target # None /\ p \in Paths /\ Catalogued(bus[p])
      BY <3>1 DEF Sound, Unmoved, ClientInv, TargetInv
    <3>3. known[p].id = bus[p].firmware_id
      BY <2>1, <3>2 DEF Opens, ClientInv, KnownInv, EntryOK, Names
    <3> QED
      BY <2>1, <3>1, <3>3 DEF Real, ClientInv, TargetIsTheKeyboardNamed
  <2> QED
    BY <1>2, <1>3, <2>2, <2>3 DEF ClientInv
<1> QED
  BY <1>5, <1>6

LEMMA ClientInvStep == ClientInv /\ [ClientNext]_allVars => ClientInv'
<1> SUFFICES ASSUME ClientInv, [ClientNext]_allVars PROVE ClientInv'
  OBVIOUS
<1>1. CASE WebNext \/ UNCHANGED allVars
  <2>1. UNCHANGED <<driverVars, clientVars>>
    BY <1>1 DEF WebNext, allVars
  <2>2. BusInv' /\ BusKept /\ KnownInv' /\ UpdatesInv' /\ EntriesOK(list)'
    BY <2>1, BusStep, KeptKnown, KeptUpdates, KeptList DEF driverVars, clientVars
  <2>3. TargetInv'
    BY <2>1 DEF ClientInv, TargetInv, driverVars, clientVars
  <2>4. CASE WebNext
    BY <2>1, <2>2, <2>3, <2>4 DEF WebNext, ClientInv, PhaseInv, SentInv, clientVars,
         TargetIsTheKeyboardNamed, Sound, Unmoved
  <2>5. CASE UNCHANGED allVars
    <3>1. TargetIsTheKeyboardNamed'
      BY <2>2, <2>5, KeptTarget DEF allVars, policyVars, clientVars
    <3> QED
      BY <2>2, <2>3, <2>5, <3>1
         DEF ClientInv, PhaseInv, SentInv, allVars, policyVars, clientVars
  <2> QED
    BY <1>1, <2>4, <2>5
<1>2. CASE CliNext
  BY <1>2, DriverSteps, ListSteps, ResolveStep, ExecuteStep DEF CliNext
<1> QED
  BY <1>1, <1>2 DEF ClientNext

LEMMA ClientHolds == ClientSpec => []ClientInv
  BY ClientInvInit, ClientInvStep, PTL DEF ClientSpec

\* The model the CLI frames a command for, and the model whose bounds the driver
\* checks it by, are those of the keyboard's own firmware, whatever the
\* catalogue, with models that share a VID/PID, and however keyboards come and go
\* between the list and the send (resolve_target_device, send_command_rpc).
THEOREM TheTargetIsTheKeyboard == ClientSpec => []TargetIsTheKeyboardNamed
<1>1. ClientInv => TargetIsTheKeyboardNamed
  BY DEF ClientInv
<1> QED
  BY <1>1, ClientHolds, PTL

-----------------------------------------------------------------------------
(* What the CLI's frames say to the keyboard.                              *)

\* The checksum takes one byte's place, and the padding what is left.
LEMMA FramedBytes ==
  ASSUME NEW bytes, NEW n \in 0 .. 12, Len(bytes) = n
  PROVE  /\ \A i \in (1 .. Len(bytes)) \ {8} : BuildCommand(bytes, "Bit7")[i] = bytes[i]
         /\ \A i \in (1 .. Len(bytes)) \ {9} : BuildCommand(bytes, "Bit8")[i] = bytes[i]
<1> DEFINE padded == [j \in 1 .. 64 |-> IF j <= Len(bytes) THEN bytes[j] ELSE 0]
           Sum(m) == 255 - (FoldLeft(LAMBDA a, b : a + b, 0, SubSeq(padded, 1, m)) % 256)
<1>1. /\ BuildCommand(bytes, "Bit7") = [padded EXCEPT ![8] = Sum(7)]
      /\ BuildCommand(bytes, "Bit8") = [padded EXCEPT ![9] = Sum(8)]
  BY DEF BuildCommand
<1> HIDE DEF Sum
<1>2. ASSUME NEW i \in 1 .. Len(bytes)
      PROVE  /\ i # 8 => BuildCommand(bytes, "Bit7")[i] = bytes[i]
             /\ i # 9 => BuildCommand(bytes, "Bit8")[i] = bytes[i]
  <2>1. i \in 1 .. 64 /\ i <= Len(bytes)
    <3>1. i \in 1 .. n
      OBVIOUS
    <3> QED
      BY <3>1
  <2> QED
    BY <1>1, <2>1
<1> QED
  BY <1>2

\* The policy rewrites commands of the simple bytes with their whole config only.
LEMMA NotRewritten ==
  ASSUME NEW def, NEW cmd,
         \/ Len(cmd) \in 0 .. 11
         \/ cmd[1] \notin {TableOf(def).set_keymatrix_simple, TableOf(def).set_fn_simple}
  PROVE  NormalizeOutboundCommand(def, cmd) = cmd
  BY DEF NormalizeOutboundCommand

\* The command bytes of settings, as far as the client's frames need them.
LEMMA SettingBytes ==
  ASSUME NEW def, BytesApart(def)
  PROVE  LET t == TableOf(def)
             w == <<t.set_debounce, t.set_profile, t.set_keymatrix, t.set_report>>
         IN  /\ \A i \in 1 .. 3 : w[i] \in 0 .. 127
             /\ \A i, j \in 1 .. 4 : i # j => w[i] # w[j]
             /\ \A i \in 1 .. 4 : w[i] # 7
             /\ t.set_keymatrix \notin {t.set_keymatrix_simple, t.set_fn_simple}
  BY DEF BytesApart, Setters

\* A setting's frame, as the keyboard takes it.
Arrives(a, def) ==
  LET made == BuildCommandRequest(a, def)
  IN  BuildCommand(NormalizeOutboundCommand(def, made.request), made.checksum)

LEMMA LedArrives ==
  ASSUME NEW def, BytesApart(def), NEW a \in Settings, a.op = "led_set"
  PROVE  Performs(def, Arrives(a, def)) = a
<1> DEFINE t == TableOf(def)
           w == Arrives(a, def)
           bytes == LedSet(a)
<1>1. a \in [op : {"led_set"}, mode : Byte, speed : Byte, brightness : Byte,
             dazzle : BOOLEAN, r : Byte, g : Byte, b : Byte]
  BY DEF Settings
<1>2. BuildCommandRequest(a, def) = Plan(bytes, "Bit8", FALSE)
  BY DEF BuildCommandRequest, LedPlan
<1>3. Len(bytes) = 8
  BY DEF LedSet
<1>4. w = BuildCommand(bytes, "Bit8")
  BY <1>2, <1>3, NotRewritten DEF Arrives, Plan
<1>5. \A i \in 1 .. 8 : w[i] = bytes[i]
  <2> HIDE DEF w, bytes
  <2> QED
    <3>1. Len(bytes) \in 0 .. 12
      BY <1>3
    <3>2. \A i \in (1 .. Len(bytes)) \ {9} : BuildCommand(bytes, "Bit8")[i] = bytes[i]
      BY <3>1, FramedBytes
    <3> QED
      BY <1>3, <1>4, <3>2
<1>6. /\ w[1] = 7 /\ w[2] = a.mode /\ w[3] = (4 - a.speed) % 256 /\ w[4] = a.brightness
      /\ w[5] = (IF a.dazzle THEN 7 ELSE 8) /\ w[6] = a.r /\ w[7] = a.g /\ w[8] = a.b
  BY <1>5 DEF LedSet, SET_LEDPARAM
<1>7. (4 - w[3]) % 256 = a.speed
  <2>1. \A v \in 0 .. 255 : (4 - ((4 - v) % 256)) % 256 = v
    OBVIOUS
  <2> QED
    BY <1>1, <1>6, <2>1 DEF Byte
<1>8. (w[5] = 7) = a.dazzle
  BY <1>1, <1>6
<1>9. Performs(def, w) =
        [op |-> "led_set", mode |-> w[2], speed |-> (4 - w[3]) % 256, brightness |-> w[4],
         dazzle |-> (w[5] = 7), r |-> w[6], g |-> w[7], b |-> w[8]]
  <2>1. w[1] \notin {t.set_debounce, t.set_report, t.set_profile, t.set_keymatrix}
    BY <1>6, SettingBytes
  <2> HIDE DEF w, t
  <2> QED
    BY <1>6, <2>1 DEF Performs, SET_LEDPARAM, t
<1> QED
  <2> HIDE DEF w
  <2>1. Performs(def, w) = a
    BY <1>1, <1>6, <1>7, <1>8, <1>9
  <2> QED
    BY <2>1 DEF w

LEMMA DebounceArrives ==
  ASSUME NEW def, BytesApart(def), NEW a \in Settings, a.op = "debounce_set"
  PROVE  Performs(def, Arrives(a, def)) = a
<1> DEFINE t == TableOf(def)
           w == Arrives(a, def)
           bytes == BuildCommandRequest(a, def).request
<1>1. a \in [op : {"debounce_set"}, value : Byte]
  BY DEF Settings
<1>2. /\ BuildCommandRequest(a, def) = Write(bytes)
      /\ \/ t.set_debounce = 17 /\ bytes = <<t.set_debounce, 0, a.value>>
         \/ t.set_debounce # 17 /\ bytes = <<t.set_debounce, a.value>>
  BY DEF BuildCommandRequest, DebouncePlan, Write, Plan
<1>3. Len(bytes) \in {2, 3}
  BY <1>2
<1>4. w = BuildCommand(bytes, "Bit7")
  BY <1>2, <1>3, NotRewritten DEF Arrives, Write, Plan
<1>5. \A i \in 1 .. 3 : i <= Len(bytes) => w[i] = bytes[i]
  <2> HIDE DEF w, bytes
  <2> QED
    <3>1. Len(bytes) \in 0 .. 12
      BY <1>3
    <3>2. \A i \in (1 .. Len(bytes)) \ {8} : BuildCommand(bytes, "Bit7")[i] = bytes[i]
      BY <3>1, FramedBytes
    <3> QED
      BY <1>3, <1>4, <3>2
<1>6. w[1] = t.set_debounce /\ a.value = (IF t.set_debounce = 17 THEN w[3] ELSE w[2])
  <2> HIDE DEF w, bytes, t
  <2>1. CASE t.set_debounce = 17 /\ bytes = <<t.set_debounce, 0, a.value>>
    <3>1. Len(bytes) = 3 /\ bytes[1] = t.set_debounce /\ bytes[3] = a.value
      BY <2>1
    <3> QED
      BY <1>5, <2>1, <3>1
  <2>2. CASE t.set_debounce # 17 /\ bytes = <<t.set_debounce, a.value>>
    <3>1. Len(bytes) = 2 /\ bytes[1] = t.set_debounce /\ bytes[2] = a.value
      BY <2>2
    <3> QED
      BY <1>5, <2>2, <3>1
  <2> QED
    BY <1>2, <2>1, <2>2
<1>7. Performs(def, w) =
        [op |-> "debounce_set", value |-> IF w[1] = 17 THEN w[3] ELSE w[2]]
  <2>1. w[1] \notin {7, t.set_report, t.set_profile, t.set_keymatrix}
    BY <1>6, SettingBytes
  <2> HIDE DEF w, t
  <2> QED
    BY <1>6, <2>1 DEF Performs, SET_LEDPARAM, t
<1> QED
  <2> HIDE DEF w
  <2>1. Performs(def, w) = a
    BY <1>1, <1>6, <1>7
  <2> QED
    BY <2>1 DEF w

LEMMA ProfileArrives ==
  ASSUME NEW def, BytesApart(def), NEW a \in Settings, a.op = "profile_set"
  PROVE  Performs(def, Arrives(a, def)) = a
<1> DEFINE t == TableOf(def)
           w == Arrives(a, def)
           bytes == <<t.set_profile, a.value>>
<1>1. a \in [op : {"profile_set"}, value : Byte]
  BY DEF Settings
<1>2. BuildCommandRequest(a, def) = Plan(bytes, "Bit7", FALSE)
  BY DEF BuildCommandRequest, ProfilePlan, Write
<1>3. w = BuildCommand(bytes, "Bit7")
  BY <1>2, NotRewritten DEF Arrives, Plan
<1>4. w[1] = t.set_profile /\ w[2] = a.value
  <2>1. Len(bytes) = 2 /\ bytes[1] = t.set_profile /\ bytes[2] = a.value
    OBVIOUS
  <2>2. w[1] = bytes[1] /\ w[2] = bytes[2]
    <3> HIDE DEF w, bytes
    <3> QED
      <4>1. Len(bytes) \in 0 .. 12
        BY <2>1
      <4>2. \A i \in (1 .. Len(bytes)) \ {8} : BuildCommand(bytes, "Bit7")[i] = bytes[i]
        BY <4>1, FramedBytes
      <4> QED
        BY <1>3, <2>1, <4>2
  <2> QED
    BY <2>1, <2>2
<1>5. Performs(def, w) = [op |-> "profile_set", value |-> w[2]]
  <2>1. w[1] \notin {7, t.set_report, t.set_debounce, t.set_keymatrix}
    BY <1>4, SettingBytes
  <2> HIDE DEF w, t
  <2> QED
    BY <1>4, <2>1 DEF Performs, SET_LEDPARAM, t
<1> QED
  <2> HIDE DEF w
  <2>1. Performs(def, w) = a
    BY <1>1, <1>4, <1>5
  <2> QED
    BY <2>1 DEF w

LEMMA KeymapArrives ==
  ASSUME NEW def, BytesApart(def), NEW a \in Settings, a.op = "keymap_set"
  PROVE  Performs(def, Arrives(a, def)) = a
<1> DEFINE t == TableOf(def)
           w == Arrives(a, def)
           bytes == BuildCommandRequest(a, def).request
<1>1. a \in [op : {"keymap_set"}, profile : Byte, key_index : Byte, layer : Byte,
             config : [1 .. 4 -> Byte]]
  BY DEF Settings
<1>2. /\ BuildCommandRequest(a, def) = Plan(bytes, "Bit7", FALSE)
      /\ bytes = <<t.set_keymatrix, a.profile, a.key_index, 0, 0, 1, a.layer, 0>> \o a.config
  BY DEF BuildCommandRequest, KeymapPlan, Write, Plan
<1>3. a.config \in Seq(Int) /\ Len(a.config) = 4
  <2>1. a.config \in [1 .. 4 -> Int]
    BY <1>1 DEF Byte
  <2>2. a.config \in Seq(Int)
    BY <2>1, SeqDef
  <2> QED
    BY <2>1, <2>2
<1>4. /\ Len(bytes) = 12 /\ bytes[1] = t.set_keymatrix
      /\ bytes[2] = a.profile /\ bytes[3] = a.key_index /\ bytes[7] = a.layer
      /\ \A i \in 1 .. 4 : bytes[8 + i] = a.config[i]
  <2> DEFINE head == <<t.set_keymatrix, a.profile, a.key_index, 0, 0, 1, a.layer, 0>>
  <2>1. {t.set_keymatrix, a.profile, a.key_index, a.layer} \subseteq Int
    BY <1>1, SettingBytes DEF Byte
  <2>2. /\ head \in Seq(Int) /\ Len(head) = 8
        /\ head[1] = t.set_keymatrix /\ head[2] = a.profile /\ head[3] = a.key_index
        /\ head[7] = a.layer
    BY <2>1
  <2>3. bytes = head \o a.config
    BY <1>2
  <2> HIDE DEF head, bytes
  <2> DEFINE config == a.config
  <2>4. /\ Len(head \o config) = Len(head) + Len(config)
        /\ \A i \in 1 .. Len(head) + Len(config) :
             (head \o config)[i] =
               IF i <= Len(head) THEN head[i] ELSE config[i - Len(head)]
    BY <1>3, <2>2, ConcatProperties
  <2>5. Len(head) = 8 /\ Len(config) = 4
    BY <1>3, <2>2
  <2> HIDE DEF config
  <2>6. Len(bytes) = 12 /\ \A i \in 1 .. 8 : bytes[i] = head[i]
    <3>1. Len(bytes) = 12
      BY <2>3, <2>4, <2>5 DEF config
    <3>2. ASSUME NEW i \in 1 .. 8 PROVE bytes[i] = head[i]
      <4>1. i \in 1 .. Len(head) + Len(config) /\ i <= Len(head)
        BY <2>5
      <4>2. (head \o config)[i] = head[i]
        BY <2>4, <4>1
      <4> QED
        BY <2>3, <4>2 DEF config
    <3> QED
      BY <3>1, <3>2
  <2>7. ASSUME NEW i \in 1 .. 4 PROVE bytes[8 + i] = config[i]
    <3>1. 8 + i \in 1 .. Len(head) + Len(config) /\ ~(8 + i <= Len(head))
          /\ (8 + i) - Len(head) = i
      BY <2>5
    <3>2. (head \o config)[8 + i] = config[(8 + i) - Len(head)]
      BY <2>4, <3>1
    <3> QED
      BY <2>3, <3>1, <3>2 DEF config
  <2> QED
    BY <2>2, <2>6, <2>7 DEF config
<1>5. w = BuildCommand(bytes, "Bit7")
  <2>1. t.set_keymatrix \notin {t.set_keymatrix_simple, t.set_fn_simple}
    BY SettingBytes
  <2>2. NormalizeOutboundCommand(def, bytes) = bytes
    BY <1>4, <2>1, NotRewritten
  <2> HIDE DEF bytes
  <2>3. BuildCommandRequest(a, def) = Plan(bytes, "Bit7", FALSE)
    BY <1>2
  <2>4. /\ BuildCommandRequest(a, def).request = bytes
        /\ BuildCommandRequest(a, def).checksum = "Bit7"
    BY <2>3 DEF Plan
  <2> QED
    BY <2>2, <2>4 DEF Arrives
<1>6. \A i \in (1 .. 12) \ {8} : w[i] = bytes[i]
  <2> HIDE DEF w, bytes
  <2> QED
    <3>1. Len(bytes) \in 0 .. 12
      BY <1>4
    <3>2. \A i \in (1 .. Len(bytes)) \ {8} : BuildCommand(bytes, "Bit7")[i] = bytes[i]
      BY <3>1, FramedBytes
    <3> QED
      BY <1>4, <1>5, <3>2
<1>7. Performs(def, w) =
        [op |-> "keymap_set", profile |-> w[2], key_index |-> w[3], layer |-> w[7],
         config |-> SubSeq(w, 9, 12)]
  <2>1. w[1] = t.set_keymatrix
    BY <1>4, <1>6
  <2>2. w[1] \notin {7, t.set_report, t.set_debounce, t.set_profile}
    BY <2>1, SettingBytes
  <2> HIDE DEF w, t
  <2> QED
    BY <2>1, <2>2 DEF Performs, SET_LEDPARAM, t
<1>8. SubSeq(w, 9, 12) = a.config
  <2>1. \A i \in 1 .. 4 : w[8 + i] = a.config[i]
    BY <1>4, <1>6
  <2>2. SubSeq(w, 9, 12) = [i \in 1 .. 4 |-> w[8 + i]]
    OBVIOUS
  <2> QED
    BY <1>1, <2>1, <2>2
<1> QED
  <2> HIDE DEF w, bytes
  <2>1. Performs(def, w) = a
    BY <1>1, <1>4, <1>6, <1>7, <1>8
  <2> QED
    BY <2>1 DEF w

\* A setting the user asks for is what the keyboard is told to do, argument for
\* argument, for every value of the arguments and every catalogue whose command
\* bytes are apart (build_command_request, build_command,
\* normalize_outbound_command).
THEOREM SettingsArrive == ClientSpec => []SettingsArriveAsAsked
<1>1. ClientInv => SettingsArriveAsAsked
  <2> SUFFICES ASSUME ClientInv, Sound, frame # <<>>, asked \in Settings
               PROVE  Performs(Real, BuildCommand(frame, plan.checksum)) = asked
    BY DEF SettingsArriveAsAsked
  <2>1. phase # "off"
    BY DEF ClientInv, PhaseInv, Sound, Unmoved
  <2>2. target.definition = Real /\ definition = Real
    BY DEF ClientInv, TargetIsTheKeyboardNamed
  <2>3. BytesApart(Real)
    BY TheModel, CatalogueIds, ClientAssumption DEF Sound, Real, FindById
  <2>4. BuildCommand(frame, plan.checksum) = Arrives(asked, Real)
    BY <2>1, <2>2 DEF ClientInv, SentInv, Arrives
  <2>5. asked.op \in {"led_set", "debounce_set", "profile_set", "keymap_set"}
    BY DEF Settings
  <2> QED
    BY <2>3, <2>4, <2>5, LedArrives, DebounceArrives, ProfileArrives, KeymapArrives
<1> QED
  BY <1>1, ClientHolds, PTL

\* The first byte of what is put before a payload.
LEMMA FirstByte ==
  ASSUME NEW S, NEW s \in Seq(S), Len(s) > 0, NEW t \in Seq(S)
  PROVE  s \o t # <<>> /\ (s \o t)[1] = s[1]
<1>1. /\ Len(s \o t) = Len(s) + Len(t)
      /\ \A i \in 1 .. Len(s) + Len(t) : (s \o t)[i] = IF i <= Len(s) THEN s[i] ELSE t[i - Len(s)]
  BY ConcatProperties
<1>2. Len(s) \in Nat /\ Len(t) \in Nat
  OBVIOUS
<1> QED
  BY <1>1, <1>2

\* The bytes the policy takes for writes.
Writes(def) == {TableOf(def)[f] : f \in Setters} \cup SharedWrites

\* A plan to read asks, and one not to read writes.
LEMMA PlansAgree ==
  ASSUME NEW def, BytesApart(def), NEW a \in Requests, a.op # "raw_send",
         NEW made, made = BuildCommandRequest(a, def), made # None, made.request # None
  PROVE  made.request # <<>> /\ (made.expects_read <=> made.request[1] \notin Writes(def))
<1> DEFINE t == TableOf(def)
           cmd == made.request
           Asks(byte) == cmd # <<>> /\ cmd[1] = byte /\ made.expects_read
           Tells(byte) == cmd # <<>> /\ cmd[1] = byte /\ ~made.expects_read
<1>1. a.op \in Ops \ {"raw_send"}
  BY ClientAssumption
<1>2. \A byte \in 128 .. 231 : byte \notin Writes(def)
  <2> SUFFICES ASSUME NEW byte \in 128 .. 231 PROVE byte \notin Writes(def)
    OBVIOUS
  <2>1. \A f \in Setters : t[f] \in (0 .. 127) \cup {None}
    BY DEF BytesApart
  <2>2. byte \in Int /\ byte \notin (0 .. 127) /\ byte # None
    BY PolicyAssumption
  <2>3. byte \notin {t[f] : f \in Setters}
    BY <2>1, <2>2
  <2>4. byte \notin SharedWrites
    BY DEF SharedWrites
  <2> QED
    BY <2>3, <2>4 DEF Writes
<1>3. /\ \A f \in Setters : t[f] \in Writes(def)
      /\ 3 \in Writes(def) /\ 7 \in Writes(def)
  BY DEF Writes, SharedWrites
<1>4. CASE a.op \in {"info", "firmware_version", "led_get", "debounce_get", "poll_get",
                     "profile_get", "keymap_get", "macro_get"}
  <2>1. \E byte \in 128 .. 231 : Asks(byte)
    <3>1. CASE a.op \in {"info", "firmware_version"}
      <4>1. Asks(143)
        BY <3>1 DEF BuildCommandRequest, Query, Plan, GET_USB_VERSION
      <4> QED
        BY <4>1
    <3>2. CASE a.op = "led_get"
      <4>1. Asks(135)
        BY <3>2 DEF BuildCommandRequest, LedPlan, Query, Plan, GET_LEDPARAM
      <4> QED
        BY <4>1
    <3>3. CASE a.op = "debounce_get"
      <4>1. Asks(t.get_debounce)
        BY <3>3 DEF BuildCommandRequest, DebouncePlan, Query, Plan
      <4> QED
        BY <4>1 DEF BytesApart
    <3>4. CASE a.op = "poll_get"
      <4>1. Asks(UnwrapOr(t.get_report, 131))
        BY <3>4 DEF BuildCommandRequest, PollPlan, Query, Plan, GET_REPORT
      <4>2. UnwrapOr(t.get_report, 131) \in 128 .. 231
        BY DEF UnwrapOr, BytesApart
      <4> QED
        BY <4>1, <4>2
    <3>5. CASE a.op = "profile_get"
      <4>1. Asks(t.get_profile)
        BY <3>5 DEF BuildCommandRequest, ProfilePlan, Query, Plan
      <4> QED
        BY <4>1 DEF BytesApart
    <3>6. CASE a.op = "keymap_get"
      <4>1. Asks(t.get_keymatrix)
        BY <3>6 DEF BuildCommandRequest, KeymapPlan, Query, Plan
      <4> QED
        BY <4>1 DEF BytesApart
    <3>7. CASE a.op = "macro_get"
      <4>1. Asks(139)
        BY <3>7 DEF BuildCommandRequest, MacroPlan, Query, Plan, GET_MACRO
      <4> QED
        BY <4>1
    <3> QED
      BY <1>4, <3>1, <3>2, <3>3, <3>4, <3>5, <3>6, <3>7
  <2> QED
    BY <1>2, <2>1
<1>5. CASE a.op \in {"led_set", "debounce_set", "poll_set", "profile_set", "keymap_set",
                     "macro_set"}
  <2>1. \E byte \in Writes(def) : Tells(byte)
    <3>1. CASE a.op = "led_set"
      <4>1. Tells(7)
        BY <3>1 DEF BuildCommandRequest, LedPlan, LedSet, Plan, SET_LEDPARAM
      <4> QED
        BY <1>3, <4>1
    <3>2. CASE a.op = "debounce_set"
      <4>1. Tells(t.set_debounce)
        BY <3>2 DEF BuildCommandRequest, DebouncePlan, Write, Plan
      <4> QED
        BY <1>3, <4>1 DEF Setters
    <3>3. CASE a.op = "poll_set"
      <4>1. Tells(UnwrapOr(t.set_report, 3))
        BY <3>3 DEF BuildCommandRequest, PollPlan, Write, Plan, SET_REPORT
      <4> QED
        BY <1>3, <4>1 DEF Setters, UnwrapOr
    <3>4. CASE a.op = "profile_set"
      <4>1. Tells(t.set_profile)
        BY <3>4 DEF BuildCommandRequest, ProfilePlan, Write, Plan
      <4> QED
        BY <1>3, <4>1 DEF Setters
    <3>5. CASE a.op = "keymap_set"
      <4> DEFINE head == <<t.set_keymatrix, a.profile, a.key_index, 0, 0, 1, a.layer, 0>>
                 S == Byte \cup {t.set_keymatrix, a.profile, a.key_index, 0, 1, a.layer}
      <4>1. a.config \in [1 .. 4 -> Byte]
        BY <3>5, ClientAssumption DEF Settings
      <4>2. a.config \in Seq(S)
        <5>1. a.config \in [1 .. 4 -> S]
          BY <4>1
        <5> HIDE DEF S
        <5> QED
          BY <5>1, SeqDef
      <4>3. head \in Seq(S) /\ Len(head) > 0 /\ head[1] = t.set_keymatrix
        OBVIOUS
      <4>4. made = Write(head \o a.config)
        BY <3>5 DEF BuildCommandRequest, KeymapPlan
      <4> HIDE DEF head, S
      <4>5. Tells(t.set_keymatrix)
        BY <4>2, <4>3, <4>4, FirstByte DEF Write, Plan
      <4> QED
        BY <1>3, <4>5 DEF Setters
    <3>6. CASE a.op = "macro_set"
      <4> DEFINE head == <<t.set_macro, a.macro_index, a.page, Len(a.data), a.is_last, 0, 0>>
                 S == Byte \cup {t.set_macro, a.macro_index, a.page, Len(a.data), a.is_last, 0}
      <4>1. a.data \in Seq(S)
        BY <3>6, ClientAssumption
      <4>2. head \in Seq(S) /\ Len(head) > 0 /\ head[1] = t.set_macro
        OBVIOUS
      <4>3. made = Write(head \o a.data)
        BY <3>6 DEF BuildCommandRequest, MacroPlan
      <4> HIDE DEF head, S
      <4>4. Tells(t.set_macro)
        BY <4>1, <4>2, <4>3, FirstByte DEF Write, Plan
      <4> QED
        BY <1>3, <4>4 DEF Setters
    <3> QED
      BY <1>5, <3>1, <3>2, <3>3, <3>4, <3>5, <3>6
  <2> QED
    BY <2>1
<1>6. CASE a.op = "raw_read"
  BY <1>6 DEF BuildCommandRequest, RawPlan, Plan
<1> QED
  BY <1>1, <1>4, <1>5, <1>6 DEF Ops

\* The CLI reads exactly after those of its own commands that the driver's policy
\* takes for queries, though each has a table of its own
\* (build_command_request, classify_command).
THEOREM AnswersAwaited == ClientSpec => []AnswersAreAwaited
<1>1. ClientInv => AnswersAreAwaited
  <2> SUFFICES ASSUME ClientInv, Sound, frame # <<>>, asked.op # "raw_send"
               PROVE  plan.expects_read <=> decision.read = "device"
    BY DEF AnswersAreAwaited
  <2> DEFINE cmd == plan.request
  <2>1. phase # "off"
    BY DEF ClientInv, PhaseInv, Sound, Unmoved
  <2>2. target.definition = Real /\ definition = Real
    BY DEF ClientInv, TargetIsTheKeyboardNamed
  <2>3. BytesApart(Real)
    BY TheModel, CatalogueIds, ClientAssumption DEF Sound, Real, FindById
  <2>4. /\ asked \in Requests /\ plan = BuildCommandRequest(asked, Real)
        /\ plan # None /\ cmd # None
        /\ decision = EvaluateOutboundCommand(Real, cmd) /\ decision.forwarded
    BY <2>1, <2>2 DEF ClientInv, SentInv
  <2>5. cmd # <<>> /\ (plan.expects_read <=> cmd[1] \notin Writes(Real))
    BY <2>3, <2>4, PlansAgree
  <2>6. decision = Forward(ClassifyCommand(Real, cmd[1]))
    BY <2>4, <2>5 DEF EvaluateOutboundCommand, Decision
  <2> QED
    BY <2>5, <2>6 DEF Forward, Decision, ClassifyCommand, Writes
<1> QED
  BY <1>1, ClientHolds, PTL

-----------------------------------------------------------------------------
(* What the policy promises, for the commands of both clients.             *)

\* Sequences written out byte by byte.
LEMMA ShortCommands ==
  ASSUME NEW x \in Byte, NEW y \in Byte, NEW z \in Byte
  PROVE  <<x>> \in Seq(Byte) /\ <<x, y>> \in Seq(Byte) /\ <<x, y, z>> \in Seq(Byte)
  OBVIOUS

\* A plan's request is bytes, as the arguments are.
LEMMA PlansAreBytes ==
  ASSUME NEW def, BytesApart(def), NEW a \in Requests,
         NEW made, made = BuildCommandRequest(a, def), made # None, made.request # None
  PROVE  made.request \in Seq(Byte)
<1> DEFINE t == TableOf(def)
<1>1. a.op \in Ops
  BY ClientAssumption
<1>2. /\ 0 .. 127 \subseteq Byte /\ 128 .. 231 \subseteq Byte
      /\ {0, 1, 3, 7, 8, 131, 135, 139, 143, 255} \subseteq Byte
  BY DEF Byte
<1>3. /\ {t.set_profile, t.set_debounce, t.set_keymatrix, t.set_macro} \subseteq Byte
      /\ {t.get_profile, t.get_debounce, t.get_keymatrix} \subseteq Byte
      /\ {UnwrapOr(t.get_report, 131), UnwrapOr(t.set_report, 3)} \subseteq Byte
  <2>1. /\ {t.set_profile, t.set_debounce, t.set_keymatrix, t.set_macro} \subseteq Byte
        /\ UnwrapOr(t.set_report, 3) \in Byte
    BY <1>2 DEF BytesApart, Setters, UnwrapOr
  <2>2. /\ {t.get_profile, t.get_debounce, t.get_keymatrix} \subseteq Byte
        /\ UnwrapOr(t.get_report, 131) \in Byte
    BY <1>2 DEF BytesApart, UnwrapOr
  <2> QED
    BY <2>1, <2>2
<1> HIDE DEF t
<1>4. CASE a.op \in {"info", "firmware_version"}
  <2>1. made.request = <<143>>
    BY <1>4 DEF BuildCommandRequest, Query, Plan, GET_USB_VERSION
  <2> QED
    BY <1>2, <2>1, ShortCommands
<1>5. CASE a.op = "led_get"
  <2>1. made.request = <<135>>
    BY <1>5 DEF BuildCommandRequest, LedPlan, Query, Plan, GET_LEDPARAM
  <2> QED
    BY <1>2, <2>1, ShortCommands
<1>6. CASE a.op = "led_set"
  <2>1. a \in [op : {"led_set"}, mode : Byte, speed : Byte, brightness : Byte,
               dazzle : BOOLEAN, r : Byte, g : Byte, b : Byte]
    BY <1>6, ClientAssumption DEF Settings
  <2>2. (4 - a.speed) % 256 \in Byte
    BY <2>1 DEF Byte
  <2>3. (IF a.dazzle THEN 7 ELSE 8) \in Byte
    BY <1>2
  <2>4. LedSet(a) \in Seq(Byte)
    BY <1>2, <2>1, <2>2, <2>3 DEF LedSet, SET_LEDPARAM
  <2>5. made.request = LedSet(a)
    BY <1>6 DEF BuildCommandRequest, LedPlan, Plan
  <2> QED
    BY <2>4, <2>5
<1>7. CASE a.op = "debounce_get"
  <2>1. made.request = <<t.get_debounce>>
    BY <1>7 DEF BuildCommandRequest, DebouncePlan, Query, Plan, t
  <2> QED
    BY <1>3, <2>1, ShortCommands
<1>8. CASE a.op = "debounce_set"
  <2>1. a.value \in Byte
    BY <1>8, ClientAssumption DEF Settings
  <2>2. \/ made.request = <<t.set_debounce, 0, a.value>>
        \/ made.request = <<t.set_debounce, a.value>>
    BY <1>8 DEF BuildCommandRequest, DebouncePlan, Write, Plan, t
  <2>3. 0 \in Byte /\ t.set_debounce \in Byte
    BY <1>2, <1>3
  <2>4. <<t.set_debounce, 0, a.value>> \in Seq(Byte) /\ <<t.set_debounce, a.value>> \in Seq(Byte)
    BY <2>1, <2>3, ShortCommands
  <2> QED
    BY <2>2, <2>4
<1>9. CASE a.op = "poll_get"
  <2>1. made.request = <<UnwrapOr(t.get_report, 131)>>
    BY <1>9 DEF BuildCommandRequest, PollPlan, Query, Plan, GET_REPORT, t
  <2> QED
    BY <1>3, <2>1, ShortCommands
<1>10. CASE a.op = "poll_set"
  <2>1. a.value \in Byte
    BY <1>10, ClientAssumption
  <2>2. made.request = <<UnwrapOr(t.set_report, 3), a.value>>
    BY <1>10 DEF BuildCommandRequest, PollPlan, Write, Plan, SET_REPORT, t
  <2> QED
    BY <1>3, <2>1, <2>2, ShortCommands
<1>11. CASE a.op = "profile_get"
  <2>1. made.request = <<t.get_profile>>
    BY <1>11 DEF BuildCommandRequest, ProfilePlan, Query, Plan, t
  <2> QED
    BY <1>3, <2>1, ShortCommands
<1>12. CASE a.op = "profile_set"
  <2>1. a.value \in Byte
    BY <1>12, ClientAssumption DEF Settings
  <2>2. made.request = <<t.set_profile, a.value>>
    BY <1>12 DEF BuildCommandRequest, ProfilePlan, Write, Plan, t
  <2> QED
    BY <1>3, <2>1, <2>2, ShortCommands
<1>13. CASE a.op = "keymap_get"
  <2>1. a.profile \in Byte /\ a.key_index \in Byte
    BY <1>13, ClientAssumption
  <2>2. a.key_index \div KEYMATRIX_ENTRIES_PER_PAGE \in Byte
    BY <2>1 DEF Byte, KEYMATRIX_ENTRIES_PER_PAGE
  <2> DEFINE page == a.key_index \div KEYMATRIX_ENTRIES_PER_PAGE
  <2>3. made.request = <<t.get_keymatrix, a.profile, 255, page, 0>>
    BY <1>13 DEF BuildCommandRequest, KeymapPlan, Query, Plan, t
  <2> HIDE DEF page
  <2> QED
    BY <1>2, <1>3, <2>1, <2>2, <2>3 DEF page
<1>14. CASE a.op = "keymap_set"
  <2> DEFINE head == <<t.set_keymatrix, a.profile, a.key_index, 0, 0, 1, a.layer, 0>>
  <2>1. /\ {a.profile, a.key_index, a.layer} \subseteq Byte
        /\ a.config \in [1 .. 4 -> Byte]
    BY <1>14, ClientAssumption DEF Settings
  <2>2. a.config \in Seq(Byte)
    BY <2>1, SeqDef
  <2>3. head \in Seq(Byte)
    BY <1>2, <1>3, <2>1
  <2>4. made.request = head \o a.config
    BY <1>14 DEF BuildCommandRequest, KeymapPlan, Write, Plan, t
  <2> HIDE DEF head
  <2> QED
    BY <2>2, <2>3, <2>4
<1>15. CASE a.op = "macro_get"
  <2>1. a.macro_index \in Byte /\ a.page \in Byte
    BY <1>15, ClientAssumption
  <2>2. made.request = <<139, a.macro_index, a.page>>
    BY <1>15 DEF BuildCommandRequest, MacroPlan, Query, Plan, GET_MACRO
  <2> QED
    BY <1>2, <2>1, <2>2, ShortCommands
<1>16. CASE a.op = "macro_set"
  <2> DEFINE head == <<t.set_macro, a.macro_index, a.page, Len(a.data), a.is_last, 0, 0>>
  <2>1. /\ {a.macro_index, a.page, a.is_last} \subseteq Byte
        /\ a.data \in Seq(Byte)
    BY <1>16, ClientAssumption
  <2>2. made = IF Len(a.data) > 255 THEN None ELSE Write(head \o a.data)
    BY <1>16 DEF BuildCommandRequest, MacroPlan, t
  <2>3. Len(a.data) \in Byte
    <3>1. Len(a.data) \in Nat
      BY <2>1
    <3>2. ~(Len(a.data) > 255)
      BY <2>2
    <3> DEFINE n == Len(a.data)
    <3> HIDE DEF n
    <3>3. n \in Nat /\ ~(n > 255) => n \in 0 .. 255
      OBVIOUS
    <3> QED
      BY <3>1, <3>2, <3>3 DEF Byte, n
  <2>4. head \in Seq(Byte)
    BY <1>2, <1>3, <2>1, <2>3
  <2> HIDE DEF head
  <2> QED
    BY <2>1, <2>2, <2>4 DEF Write, Plan
<1>17. CASE a.op = "raw_send"
  <2>1. made = Write(a.bytes)
    BY <1>17 DEF BuildCommandRequest, RawPlan
  <2> QED
    BY <1>17, <2>1, ClientAssumption DEF Write, Plan
<1>18. CASE a.op = "raw_read"
  BY <1>18 DEF BuildCommandRequest, RawPlan, Plan
<1> QED
  BY <1>1, <1>4, <1>5, <1>6, <1>7, <1>8, <1>9, <1>10, <1>11, <1>12, <1>13, <1>14, <1>15,
     <1>16, <1>17, <1>18 DEF Ops

\* The CLI frames commands for a definition of the files, and the driver checks
\* them by one.
FilesInv ==
  /\ phase = "off" => definition \in Definitions
  /\ phase = "resolved" => target # None
  /\ target # None => target.definition \in ToSet(DeviceFiles)

BothPass == FilesInv /\ PassedInv

LEMMA BothPassInit == ClientInit => BothPass
<1> SUFFICES ASSUME ClientInit PROVE BothPass
  OBVIOUS
<1>1. /\ target = None /\ frame = <<>> /\ phase \in {"off", "start"}
      /\ phase = "off" => definition \in Definitions
  BY DEF ClientInit, WebInit, CliInit, Init
<1> QED
  BY <1>1 DEF BothPass, FilesInv, PassedInv, Passed

LEMMA BothPassStep == ClientInv /\ BothPass /\ [ClientNext]_allVars => BothPass'
<1> SUFFICES ASSUME ClientInv, BothPass, [ClientNext]_allVars PROVE BothPass'
  OBVIOUS
<1> USE DEF BothPass
<1>1. CASE WebNext
  <2>1. PICK cmd \in Commands : Send(cmd)
    BY <1>1 DEF WebNext, Next
  <2>2. /\ decision' = EvaluateOutboundCommand(definition, cmd)
        /\ frame' = IF decision'.forwarded THEN NormalizeOutboundCommand(definition, cmd) ELSE <<>>
        /\ definition' = definition
    BY <2>1 DEF Send
  <2>3. phase = "off" /\ UNCHANGED <<phase, target>>
    BY <1>1 DEF WebNext, clientVars
  <2>4. Bounded(definition) /\ cmd \in Seq(Byte)
    BY <2>3, PolicyAssumption DEF FilesInv
  <2>5. Passed(definition, decision', frame')
    BY <2>2, <2>4, SentPasses
  <2> QED
    BY <2>2, <2>3, <2>5 DEF FilesInv, PassedInv, Passed
<1>2. ASSUME UNCHANGED policyVars, phase' = "off" => phase = "off",
             phase' = "resolved" => (phase = "resolved" /\ target' = target) \/ target' # None,
             target' = target \/ target' = None \/ target'.definition \in ToSet(DeviceFiles)
      PROVE  BothPass'
  BY <1>2 DEF FilesInv, PassedInv, Passed, policyVars
<1>3. CASE UNCHANGED allVars
  BY <1>2, <1>3 DEF allVars, clientVars
<1>4. CASE \E p \in Paths : \/ \E keyboard \in Keyboards : Replug(p, keyboard)
                            \/ Unplug(p) \/ Discover(p) \/ MarkOffline(p)
  <2>1. UNCHANGED <<policyVars, clientVars>>
    BY <1>4 DEF Replug, Unplug, Discover, MarkOffline
  <2> QED
    BY <1>2, <2>1 DEF clientVars
<1>5. CASE Connect \/ WatchDevListInit \/ Bootstrap \/ BootstrapEnds
  <2>1. /\ UNCHANGED <<policyVars, target>>
        /\ phase \in {"start", "connected", "bootstrap"}
        /\ phase' \in {"connected", "bootstrap", "listed", "failed"}
    BY <1>5 DEF Connect, WatchDevListInit, Bootstrap, BootstrapEnds, Goes
  <2> QED
    BY <1>2, <2>1
<1>6. CASE \E s \in Selectors : Resolve(s)
  <2>1. PICK s \in Selectors : Resolve(s)
    BY <1>6
  <2>2. /\ UNCHANGED policyVars /\ phase' \in {"failed", "resolved"}
        /\ phase' = "resolved" => target' # None
    BY <2>1 DEF Resolve
  <2>3. target' # None => target'.definition \in ToSet(DeviceFiles)
    <3> SUFFICES ASSUME target' # None PROVE target'.definition \in ToSet(DeviceFiles)
      OBVIOUS
    <3>1. PICK devices \in SupportedOnlineDevices : target' \in devices
      BY <2>1, TargetIsOfTheList
    <3>2. PICK p \in DOMAIN list :
            \E def \in ResolveDefinition(list[p]) :
              target' = [path |-> p, device_id |-> def.id, definition |-> def,
                         addr |-> list[p].addr]
      BY <3>1 DEF SupportedOnlineDevices
    <3>3. \A def \in ResolveDefinition(list[p]) : def \in ToSet(DeviceFiles)
      BY CatalogueIds DEF ResolveDefinition, FindByRuntimeVidPid
    <3> QED
      BY <3>2, <3>3
  <2> QED
    BY <1>2, <2>2, <2>3
<1>7. CASE \E a \in Requests : Execute(a)
  <2>1. PICK a \in Requests : Execute(a)
    BY <1>7
  <2>2. UNCHANGED target /\ phase = "resolved" /\ phase' \in {"failed", "sent"}
    BY <2>1 DEF Execute
  <2>3. CASE UNCHANGED policyVars
    BY <1>2, <2>2, <2>3
  <2>4. CASE ~UNCHANGED policyVars
    <3> DEFINE made == BuildCommandRequest(a, target.definition)
               def == FindById(Catalogue, known[target.path].id)
    <3>1. /\ made # None /\ made.request # None /\ def # None
          /\ definition' = def
          /\ decision' = EvaluateOutboundCommand(def, made.request)
          /\ frame' = IF decision'.forwarded
                      THEN NormalizeOutboundCommand(def, made.request) ELSE <<>>
      BY <2>1, <2>4 DEF Execute, Opens
    <3>2. Bounded(def)
      BY <3>1, CatalogueIds, ClientAssumption DEF FindById
    <3>3. target # None
      BY <2>2 DEF FilesInv
    <3>4. BytesApart(target.definition)
      BY <3>3, ClientAssumption DEF FilesInv
    <3>5. made.request \in Seq(Byte)
      BY <3>1, <3>4, PlansAreBytes
    <3> HIDE DEF made, def
    <3>6. Passed(def, decision', frame')
      BY <3>1, <3>2, <3>5, SentPasses
    <3> QED
      BY <2>2, <3>1, <3>6 DEF FilesInv, PassedInv, Passed
  <2> QED
    BY <2>3, <2>4
<1> QED
  BY <1>1, <1>3, <1>4, <1>5, <1>6, <1>7 DEF ClientNext, CliNext

LEMMA BothPassHolds == ClientSpec => []BothPass
  BY ClientHolds, BothPassInit, BothPassStep, PTL DEF ClientSpec

\* Commands of any bytes and length, of the web application or framed by the CLI,
\* leave no write outside the key tables, the macros and the profiles of a
\* keyboard with any bounds (evaluate_outbound_command,
\* normalize_outbound_command).
THEOREM WritesStayInBounds ==
  (Spec => []WritesInBounds) /\ (ClientSpec => []WritesInBounds)
<1>1. PolicyInv => WritesInBounds
  BY PassedInBounds DEF PolicyInv
<1>2. BothPass => WritesInBounds
  BY PassedInBounds DEF BothPass
<1> QED
  BY <1>1, <1>2, PolicyHolds, BothPassHolds, PTL

\* No command that writes to a keyboard's tables is read afterwards, whichever
\* bytes the keyboard's definition gives them (classify_command).
THEOREM WritesAreWrites ==
  (Spec => []WritesAreNotAwaited) /\ (ClientSpec => []WritesAreNotAwaited)
<1>1. PolicyInv => WritesAreNotAwaited
  BY PassedNotAwaited DEF PolicyInv
<1>2. BothPass => WritesAreNotAwaited
  BY PassedNotAwaited DEF BothPass
<1> QED
  BY <1>1, <1>2, PolicyHolds, BothPassHolds, PTL

\* No simple command arrives with the keycode where the firmware misreads it
\* (normalize_outbound_command).
THEOREM KeycodesArePlaced ==
  (Spec => []KeycodesAreWhereTheyBelong) /\ (ClientSpec => []KeycodesAreWhereTheyBelong)
<1>1. PolicyInv => KeycodesAreWhereTheyBelong
  BY PassedPlaced DEF PolicyInv
<1>2. BothPass => KeycodesAreWhereTheyBelong
  BY PassedPlaced DEF BothPass
<1> QED
  BY <1>1, <1>2, PolicyHolds, BothPassHolds, PTL
=============================================================================
