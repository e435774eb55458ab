------------------------ MODULE DriverServiceProofs -------------------------
(***************************************************************************)
(* Facts about the registry operators, type correctness of DriverService,  *)
(* and what its concurrent parts guarantee however they interleave: the    *)
(* by_bus_address index is exact, one opener holds a path, a working       *)
(* session keeps its claim and its place, the registry does not go back,   *)
(* present devices stay online, and the device lists of subscribers        *)
(* converge; for any ports, openers, watchers and bounds.                  *)
(***************************************************************************)
EXTENDS DeviceListHistory, TLAPS

-----------------------------------------------------------------------------
(* The registry: Upsert and MarkOfflineMissing.                            *)

\* The empty registry, an upsert and an offline sweep yield registry values.
LEMMA EmptyType == EmptyRegistry \in RegistryValue
  BY MaxAddrAssumption
     DEF EmptyRegistry, RegistryValue, Registration, Unregistered, NoAddr

LEMMA UpsertType ==
  ASSUME NEW reg \in RegistryValue, NEW p \in Paths, NEW a \in Addrs
  PROVE  Upsert(reg, p, a) \in RegistryValue
  BY MaxAddrAssumption DEF Upsert, RegistryValue, Registration, Addrs

LEMMA SweepType ==
  ASSUME NEW reg \in RegistryValue, NEW live
  PROVE  MarkOfflineMissing(reg, live) \in RegistryValue
  <1> DEFINE gone == NewlyOffline(reg, live)
             paths == [p \in Paths |-> IF p \in gone
                                       THEN [reg.byPath[p] EXCEPT !.online = FALSE]
                                       ELSE reg.byPath[p]]
             index == [x \in Addrs |-> IF \E p \in gone : reg.byPath[p].addr = x
                                       THEN NoPath ELSE reg.byBus[x]]
  <1>1. reg.byPath \in [Paths -> Registration]
        /\ reg.byBus \in [Addrs -> Paths \cup {NoPath}]
    BY DEF RegistryValue
  <1>2. paths \in [Paths -> Registration]
    BY <1>1 DEF Registration
  <1>3. index \in [Addrs -> Paths \cup {NoPath}]
    BY <1>1
  <1>4. MarkOfflineMissing(reg, live) = [byPath |-> paths, byBus |-> index]
    BY DEF MarkOfflineMissing
  <1> QED
    BY <1>2, <1>3, <1>4 DEF RegistryValue

\* What an upsert and a sweep do to each registration.
LEMMA UpsertPath ==
  ASSUME NEW reg \in RegistryValue, NEW p \in Paths, NEW a \in Addrs,
         NEW q \in Paths
  PROVE  Upsert(reg, p, a).byPath[q] =
           IF q = p THEN [addr |-> a, online |-> TRUE] ELSE reg.byPath[q]
  BY DEF Upsert, RegistryValue

LEMMA SweepPath ==
  ASSUME NEW reg \in RegistryValue, NEW live, NEW q \in Paths
  PROVE  MarkOfflineMissing(reg, live).byPath[q] =
           [addr   |-> reg.byPath[q].addr,
            online |-> reg.byPath[q].online /\ q \in live]
  BY DEF MarkOfflineMissing, NewlyOffline, Online, RegistryValue, Registration

LEMMA SweepFields ==
  ASSUME NEW reg \in RegistryValue, NEW live, NEW q \in Paths
  PROVE  LET new == MarkOfflineMissing(reg, live).byPath[q]
         IN  /\ new.addr = reg.byPath[q].addr
             /\ new.online <=> (reg.byPath[q].online /\ q \in live)
  <1>1. MarkOfflineMissing(reg, live).byPath[q]
          = IF q \in NewlyOffline(reg, live)
            THEN [reg.byPath[q] EXCEPT !.online = FALSE] ELSE reg.byPath[q]
    BY DEF MarkOfflineMissing
  <1>2. reg.byPath[q] \in Registration
    BY DEF RegistryValue
  <1>3. q \in NewlyOffline(reg, live)
          <=> reg.byPath[q].online /\ q \notin live
    BY DEF NewlyOffline, Online
  <1> QED
    BY <1>1, <1>2, <1>3 DEF Registration

\* upsert keeps every entry of the by_bus_address index leading to a device
\* that is online there, even when the address it records is one the kernel
\* has handed out again and another path is still registered at.
LEMMA UpsertKeepsIndex ==
  ASSUME NEW reg \in RegistryValue, IndexLeadsToDevice(reg),
         NEW p \in Paths, NEW a \in Addrs
  PROVE  IndexLeadsToDevice(Upsert(reg, p, a))
  <1> DEFINE new == Upsert(reg, p, a)
  <1> SUFFICES ASSUME NEW x \in Addrs, new.byBus[x] # NoPath
               PROVE  new.byPath[new.byBus[x]] = [addr |-> x, online |-> TRUE]
    BY DEF IndexLeadsToDevice
  <1>1. new.byBus[x] = IF x = a THEN p
                       ELSE IF x = reg.byPath[p].addr THEN NoPath
                       ELSE reg.byBus[x]
    BY DEF Upsert
  <1>2. CASE x = a
    BY <1>1, <1>2, UpsertPath
  <1>3. CASE x # a
    <2>1. x # reg.byPath[p].addr /\ new.byBus[x] = reg.byBus[x]
      BY <1>1, <1>3
    <2>2. reg.byBus[x] \in Paths
          /\ reg.byPath[reg.byBus[x]] = [addr |-> x, online |-> TRUE]
      BY <2>1 DEF IndexLeadsToDevice, RegistryValue
    <2>3. reg.byBus[x] # p
      BY <2>1, <2>2
    <2> DEFINE y == reg.byBus[x]
    <2>4. new.byPath[y] = reg.byPath[y]
      <3>1. y \in Paths
        BY <2>2
      <3> HIDE DEF y
      <3>2. new.byPath[y] =
              IF y = p THEN [addr |-> a, online |-> TRUE] ELSE reg.byPath[y]
        BY <3>1, UpsertPath
      <3> QED
        BY <3>2, <2>3 DEF y
    <2> HIDE DEF new, y
    <2> QED
      BY <2>1, <2>2, <2>4 DEF y
  <1> QED
    BY <1>2, <1>3

\* So does the offline sweep.
LEMMA SweepKeepsIndex ==
  ASSUME NEW reg \in RegistryValue, IndexLeadsToDevice(reg), NEW live
  PROVE  IndexLeadsToDevice(MarkOfflineMissing(reg, live))
  <1> DEFINE new == MarkOfflineMissing(reg, live)
             gone == NewlyOffline(reg, live)
  <1> SUFFICES ASSUME NEW x \in Addrs, new.byBus[x] # NoPath
               PROVE  new.byPath[new.byBus[x]] = [addr |-> x, online |-> TRUE]
    BY DEF IndexLeadsToDevice
  <1>1. new.byBus[x] = reg.byBus[x] /\ ~ \E p \in gone : reg.byPath[p].addr = x
    BY DEF MarkOfflineMissing
  <1>2. reg.byBus[x] \in Paths
        /\ reg.byPath[reg.byBus[x]] = [addr |-> x, online |-> TRUE]
    BY <1>1 DEF IndexLeadsToDevice, RegistryValue
  <1>3. reg.byBus[x] \in live
    BY <1>1, <1>2 DEF NewlyOffline, Online
  <1> DEFINE y == reg.byBus[x]
  <1>4. new.byPath[y] = [addr   |-> reg.byPath[y].addr,
                         online |-> reg.byPath[y].online /\ y \in live]
    <2>1. y \in Paths
      BY <1>2
    <2> HIDE DEF y
    <2> QED
      BY <2>1, SweepPath
  <1>5. new.byBus[x] = y /\ reg.byPath[y] = [addr |-> x, online |-> TRUE]
        /\ y \in live
    BY <1>1, <1>2, <1>3
  <1>6. reg.byPath[y].addr = x
        /\ (reg.byPath[y].online /\ y \in live) = TRUE
    BY <1>5
  <1>7. new.byPath[y] = [addr |-> x, online |-> TRUE]
    BY <1>4, <1>6, Zenon
  <1> HIDE DEF new, gone, y
  <1> QED
    BY <1>5, <1>7

LEMMA EmptyIsSound == IndexLeadsToDevice(EmptyRegistry)
  BY DEF IndexLeadsToDevice, EmptyRegistry

-----------------------------------------------------------------------------
(* The types.                                                              *)

\* upsert is only typed for a real address: what a refresh goes on to record
\* are keyboards it has found.
UpsertsFound ==
  \A r \in Refreshers : rpc[r] \in {"upsert", "drop", "notify"} =>
    \A p \in todo[r] : found[r][p] # NoAddr

RefreshInv == RefreshTypeOK /\ UpsertsFound
TypeInv == TypeOK /\ UpsertsFound

LEMMA NoAddrTyped == NoAddr \in AddrOrNone
  BY MaxAddrAssumption DEF NoAddr, AddrOrNone

LEMMA SnapshotType == ASSUME NEW reg PROVE Snapshot(reg) \in [Paths -> Status]
  BY DEF Snapshot, Status

LEMMA BroadcastType ==
  ASSUME StreamTypeOK, NEW p \in Paths, NEW online \in BOOLEAN,
         Broadcast(p, online)
  PROVE  rx' \in [Watchers -> Seq(Event)]
  <1> DEFINE event == [path |-> p, online |-> online]
  <1>1. event \in Event
    BY DEF Event
  <1>2. ASSUME NEW w \in Watchers
        PROVE  /\ rx[w] \in Seq(Event)
               /\ Append(rx[w], event) \in Seq(Event)
               /\ ~ Len(rx[w]) < RxCap
                    => Append(Tail(rx[w]), event) \in Seq(Event)
    <2>1. rx[w] \in Seq(Event)
      BY DEF StreamTypeOK
    <2> HIDE DEF event
    <2> QED
      BY <1>1, <2>1, BoundsAssumption
  <1> QED
    BY <1>2, BoundsAssumption DEF Broadcast

LEMMA InitTyped == Init => TypeInv
  <1> SUFFICES ASSUME Init PROVE TypeInv
    OBVIOUS
  <1> USE NoAddrTyped DEF Init
  <1>1. UsbTypeOK
    BY DEF UsbTypeOK, Claims
  <1>2. TableTypeOK
    BY EmptyType DEF TableTypeOK, Phases
  <1>3. OpenerTypeOK
    BY BoundsAssumption DEF OpenerTypeOK, OpenerPcs, PathOrNone
  <1>4. RefreshTypeOK
    BY DEF RefreshTypeOK, PathOrNone, Refreshers
  <1>5. StreamTypeOK
    BY SnapshotType DEF StreamTypeOK
  <1> QED
    BY <1>1, <1>2, <1>3, <1>4, <1>5 DEF TypeInv, TypeOK, UpsertsFound

-----------------------------------------------------------------------------
(* Steps that leave the refreshes and the streams alone.                   *)

LEMMA UsbTyped == TypeInv /\ UsbStep => TypeInv'
  <1> SUFFICES ASSUME TypeInv, NEW p \in Paths,
                      Plug(p) \/ Unplug(p) \/ TransportExit(p)
               PROVE  TypeInv'
    BY DEF UsbStep
  <1>1. UsbTypeOK'
    BY MaxAddrAssumption
       DEF TypeInv, TypeOK, UsbTypeOK, AddrOrNone, NoAddr, Claims, Plug, Unplug,
           TransportExit
  <1>2. UNCHANGED <<registry, devices, opening, guardVars, openerVars,
                    refreshVars, streamVars>>
    BY DEF Plug, Unplug, TransportExit
  <1> QED
    BY <1>1, <1>2
       DEF TypeInv, TypeOK, TableTypeOK, OpenerTypeOK, RefreshTypeOK,
           StreamTypeOK, UpsertsFound, guardVars, openerVars, refreshVars,
           streamVars

LEMMA OpenerTyped ==
  ASSUME TypeInv, NEW o \in Openers,
         OpenerStep(o) \/ \E p \in Paths : Call(o, p)
  PROVE  TypeInv'
  <1> USE NoAddrTyped DEF OpenerGoes, OpenerPcs
  <1>1. OpenerTypeOK /\ TableTypeOK /\ UsbTypeOK
    BY DEF TypeInv, TypeOK
  <1>2. OpenerTypeOK'
    <2> USE <1>1 DEF OpenerTypeOK
    <2>1. ASSUME NEW p \in Paths, Call(o, p) PROVE OpenerTypeOK'
      BY <2>1, BoundsAssumption DEF Call, PathOrNone
    <2>2. ASSUME NEW from \in {"find", "recheck", "result"},
                 NEW otherwise \in {"lookup", "slot", "idle"},
                 FindSession(o, from, otherwise)
          PROVE  OpenerTypeOK'
      BY <2>2 DEF FindSession, TableTypeOK
    <2>3. CASE Lookup(o)
      <3>1. registry.byPath[target[o]].addr \in AddrOrNone
        BY <2>3 DEF Lookup, TableTypeOK, RegistryValue, Registration, AddrOrNone
      <3> QED
        BY <2>3, <3>1 DEF Lookup
    <2>4. CASE TakeSlot(o) \/ Connect(o) \/ Insert(o) \/ ReleaseSlot(o)
      BY <2>4 DEF TakeSlot, Connect, Insert, ReleaseSlot
    <2>5. CASE Return(o)
      BY <2>5 DEF Return
    <2> QED
      BY <2>1, <2>2, <2>3, <2>4, <2>5
         DEF OpenerStep, FirstFind, Recheck, LastFind
  <1>3. UsbTypeOK'
    <2>1. claim' = claim \/ claim' = [claim EXCEPT ![target[o]] = "session"]
      BY DEF OpenerStep, Call, FirstFind, Recheck, LastFind, FindSession, Lookup,
             TakeSlot, Connect, Insert, ReleaseSlot, Return, usbVars
    <2>2. UNCHANGED <<attached, lastAddr>>
      BY DEF OpenerStep, Call, FirstFind, Recheck, LastFind, FindSession, Lookup,
             TakeSlot, Connect, Insert, ReleaseSlot, Return, usbVars
    <2> QED
      BY <1>1, <2>1, <2>2 DEF UsbTypeOK, Claims
  <1>4. TableTypeOK'
    <2>1. \/ UNCHANGED devices
          \/ devices' = [devices EXCEPT ![target[o]] = held[o]]
      BY DEF OpenerStep, Call, FirstFind, Recheck, LastFind, FindSession, Lookup,
             TakeSlot, Connect, Insert, ReleaseSlot, Return
    <2>2. opening' \in {opening, opening \cup {target[o]}, opening \ {target[o]}}
      BY DEF OpenerStep, Call, FirstFind, Recheck, LastFind, FindSession, Lookup,
             TakeSlot, Connect, Insert, ReleaseSlot, Return
    <2>3. UNCHANGED <<registry, guardVars>>
      BY DEF OpenerStep, Call, FirstFind, Recheck, LastFind, FindSession, Lookup,
             TakeSlot, Connect, Insert, ReleaseSlot, Return
    <2>4. opening' # opening => target[o] \in Paths
      BY <1>1
         DEF OpenerTypeOK, OpenerStep, Call, FirstFind, Recheck, LastFind,
             FindSession, Lookup, TakeSlot, Connect, Insert, ReleaseSlot, Return
    <2> QED
      BY <1>1, <2>1, <2>2, <2>3, <2>4 DEF TableTypeOK, OpenerTypeOK, guardVars
  <1>5. UNCHANGED <<refreshVars, streamVars>>
    BY DEF OpenerStep, Call, FirstFind, Recheck, LastFind, FindSession, Lookup,
           TakeSlot, Connect, Insert, ReleaseSlot, Return
  <1> QED
    BY <1>2, <1>3, <1>4, <1>5
       DEF TypeInv, TypeOK, RefreshTypeOK, StreamTypeOK, UpsertsFound,
           refreshVars, streamVars

LEMMA ShutdownTyped == TypeInv /\ ShutdownStep => TypeInv'
  <1> SUFFICES ASSUME TypeInv, Drain \/ ClearRegistry \/ ClearOpening
               PROVE  TypeInv'
    BY DEF ShutdownStep
  <1>1. TableTypeOK'
    BY EmptyType, NoAddrTyped
       DEF TypeInv, TypeOK, TableTypeOK, Phases, Drain, ClearRegistry,
           ClearOpening
  <1>2. UNCHANGED <<usbVars, openerVars, refreshVars, streamVars>>
    BY DEF Drain, ClearRegistry, ClearOpening
  <1> QED
    BY <1>1, <1>2
       DEF TypeInv, TypeOK, UsbTypeOK, OpenerTypeOK, RefreshTypeOK,
           StreamTypeOK, UpsertsFound, usbVars, openerVars, refreshVars,
           streamVars

-----------------------------------------------------------------------------
(* Steps of the discovery refreshes.                                       *)

\* A refresh or a watch_dev_list call that moves on to another step keeps the
\* shape of rpc; it must have a path at hand for the steps that need one.
LEMMA MoveTyped ==
  ASSUME RefreshTypeOK, NEW r \in Refreshers,
         NEW pc \in {"idle"} \cup RefreshPcs \cup WatchPcs,
         r = Background => pc \in {"idle"} \cup RefreshPcs,
         rpc' = [rpc EXCEPT ![r] = pc],
         \A q \in Refreshers \ {r} : cur'[q] = cur[q],
         pc \in {"probing", "drop", "notify", "notifyOffline"}
           => cur'[r] \in Paths
  PROVE  /\ rpc' \in [Refreshers -> {"idle"} \cup RefreshPcs \cup WatchPcs]
         /\ rpc'[Background] \in {"idle"} \cup RefreshPcs
         /\ \A q \in Refreshers :
              rpc'[q] \in {"probing", "drop", "notify", "notifyOffline"}
                => cur'[q] \in Paths
  BY DEF RefreshTypeOK, Refreshers

LEMMA TickTyped == TypeInv /\ (Tick \/ QueueFromTick) => TypeInv'
  <1> SUFFICES ASSUME TypeInv, Tick \/ QueueFromTick PROVE TypeInv'
    OBVIOUS
  <1>1. RefreshInv'
    BY DEF TypeInv, TypeOK, RefreshInv, RefreshTypeOK, UpsertsFound, Tick,
           QueueFromTick, QueueRefresh, Meet, Refreshers, RefreshPcs,
           refreshVars
  <1>2. TableTypeOK'
    BY DEF TypeInv, TypeOK, TableTypeOK, Tick, QueueFromTick, QueueRefresh
  <1>3. UNCHANGED <<usbVars, openerVars, streamVars>>
    BY DEF Tick, QueueFromTick
  <1> QED
    BY <1>1, <1>2, <1>3
       DEF TypeInv, TypeOK, RefreshInv, UsbTypeOK, OpenerTypeOK, StreamTypeOK,
           usbVars, openerVars, streamVars

LEMMA ScanTyped ==
  ASSUME TypeInv, NEW r \in Refreshers, Scan(r) \/ ScanFails(r) \/ ScanDone(r)
  PROVE  TypeInv'
  <1>1. RefreshTypeOK /\ UpsertsFound /\ UsbTypeOK
    BY DEF TypeInv, TypeOK
  <1>3. PICK pc \in {"probe", "upsert"} : rpc' = [rpc EXCEPT ![r] = pc]
    BY DEF Scan, ScanFails, ScanDone, RefreshGoes
  <1>4. UNCHANGED <<cur, overlapped>>
    BY DEF Scan, ScanFails, ScanDone
  <1>5. /\ scan' \in [Refreshers -> [Paths -> AddrOrNone]]
        /\ found' \in [Refreshers -> [Paths -> AddrOrNone]]
        /\ todo' \in [Refreshers -> SUBSET Paths]
    <2>1. CASE Scan(r)
      BY <1>1, <2>1, NoAddrTyped DEF RefreshTypeOK, UsbTypeOK, Scan
    <2>2. CASE ScanFails(r)
      BY <1>1, <2>2, NoAddrTyped DEF RefreshTypeOK, ScanFails
    <2>3. CASE ScanDone(r)
      BY <1>1, <2>3 DEF RefreshTypeOK, ScanDone
    <2> QED
      BY <2>1, <2>2, <2>3
  <1>6. RefreshTypeOK'
    BY <1>1, <1>3, <1>4, <1>5, MoveTyped DEF RefreshTypeOK, RefreshPcs
  <1>7. UpsertsFound'
    BY <1>1, <1>3
       DEF UpsertsFound, RefreshTypeOK, Scan, ScanFails, ScanDone, RefreshGoes
  <1>2. UNCHANGED <<usbVars, registry, devices, opening, guardVars, openerVars,
                    streamVars>>
    BY DEF Scan, ScanFails, ScanDone
  <1> QED
    BY <1>1, <1>2, <1>6, <1>7
       DEF TypeInv, TypeOK, RefreshInv, UsbTypeOK, TableTypeOK, OpenerTypeOK,
           StreamTypeOK, usbVars, guardVars, openerVars, streamVars

LEMMA ProbeTyped ==
  ASSUME TypeInv, NEW r \in Refreshers,
         \/ \E p \in Paths : Identify(r, p) \/ OpenProbe(r, p)
         \/ CloseProbe(r)
  PROVE  TypeInv'
  <1>1. RefreshTypeOK /\ UpsertsFound /\ UsbTypeOK
    BY DEF TypeInv, TypeOK
  <1>2. RefreshInv' /\ UsbTypeOK'
    <2>1. ASSUME NEW p \in Paths, Identify(r, p) PROVE RefreshInv' /\ UsbTypeOK'
      BY <1>1, <2>1
         DEF RefreshInv, RefreshTypeOK, UpsertsFound, UsbTypeOK, Identify,
             usbVars
    <2>2. ASSUME NEW p \in Paths, OpenProbe(r, p)
          PROVE  RefreshInv' /\ UsbTypeOK'
      <3>1. UsbTypeOK'
        BY <1>1, <2>2 DEF UsbTypeOK, OpenProbe, Claims
      <3>2. /\ rpc[r] = "probe"
            /\ todo' = [todo EXCEPT ![r] = @ \ {p}]
            /\ UNCHANGED <<scan, found, overlapped>>
        BY <2>2 DEF OpenProbe
      <3>3. todo' \in [Refreshers -> SUBSET Paths]
        BY <1>1, <3>2 DEF RefreshTypeOK
      <3>4. CASE UNCHANGED <<cur, rpc>>
        BY <1>1, <3>1, <3>2, <3>3, <3>4
           DEF RefreshInv, RefreshTypeOK, UpsertsFound
      <3>5. CASE /\ cur' = [cur EXCEPT ![r] = p]
                 /\ rpc' = [rpc EXCEPT ![r] = "probing"]
        <4>1. cur' \in [Refreshers -> PathOrNone]
          BY <1>1, <3>5 DEF RefreshTypeOK, PathOrNone
        <4>2. cur'[r] \in Paths /\ \A q \in Refreshers \ {r} : cur'[q] = cur[q]
          BY <1>1, <3>5 DEF RefreshTypeOK
        <4>3. RefreshTypeOK'
          BY <1>1, <3>2, <3>3, <3>5, <4>1, <4>2, MoveTyped
             DEF RefreshTypeOK, RefreshPcs
        <4>4. UpsertsFound'
          BY <1>1, <3>2, <3>5 DEF UpsertsFound, RefreshTypeOK
        <4> QED
          BY <3>1, <4>3, <4>4 DEF RefreshInv
      <3> QED
        BY <2>2, <3>1, <3>4, <3>5 DEF OpenProbe, RefreshGoes
    <2>3. CASE CloseProbe(r)
      <3>1. cur[r] \in Paths /\ scan[r] \in [Paths -> AddrOrNone]
        BY <1>1, <2>3 DEF CloseProbe, RefreshTypeOK
      <3>2. UsbTypeOK'
        BY <1>1, <2>3 DEF UsbTypeOK, CloseProbe, Claims
      <3>3. \/ UNCHANGED found
            \/ found' = [found EXCEPT ![r][cur[r]] = scan[r][cur[r]]]
        BY <2>3 DEF CloseProbe
      <3>4. found' \in [Refreshers -> [Paths -> AddrOrNone]]
        <4>1. found \in [Refreshers -> [Paths -> AddrOrNone]]
          BY <1>1 DEF RefreshTypeOK
        <4> QED
          BY <3>1, <3>3, <4>1
      <3>5. RefreshTypeOK'
        <4>1. /\ rpc' = [rpc EXCEPT ![r] = "probe"]
              /\ UNCHANGED <<scan, todo, cur, overlapped>>
          BY <2>3 DEF CloseProbe, RefreshGoes
        <4> QED
          BY <1>1, <3>4, <4>1, MoveTyped DEF RefreshTypeOK, RefreshPcs
      <3>6. ASSUME NEW q \in Refreshers,
                   rpc'[q] \in {"upsert", "drop", "notify"}
            PROVE  q # r /\ rpc[q] = rpc'[q] /\ found'[q] = found[q]
                   /\ todo'[q] = todo[q]
        BY <1>1, <2>3, <3>3, <3>6 DEF RefreshTypeOK, CloseProbe, RefreshGoes
      <3> QED
        BY <1>1, <3>2, <3>5, <3>6 DEF RefreshInv, UpsertsFound
    <2> QED
      BY <2>1, <2>2, <2>3
  <1>3. UNCHANGED <<registry, devices, opening, guardVars, openerVars,
                    streamVars>>
    BY DEF Identify, OpenProbe, CloseProbe
  <1> QED
    BY <1>2, <1>3
       DEF TypeInv, TypeOK, RefreshInv, TableTypeOK, OpenerTypeOK, StreamTypeOK,
           guardVars, openerVars, streamVars

LEMMA RegistryTyped ==
  ASSUME TypeInv, NEW r \in Refreshers,
         \/ \E p \in Paths : UpsertFound(r, p) \/ DropOffline(r, p)
         \/ DropMoved(r) \/ Sweep(r)
  PROVE  TypeInv'
  <1>1. RefreshTypeOK /\ UpsertsFound /\ TableTypeOK
    BY DEF TypeInv, TypeOK
  <1>2. RefreshInv' /\ TableTypeOK'
    <2>1. ASSUME NEW p \in Paths, UpsertFound(r, p)
          PROVE  RefreshInv' /\ TableTypeOK'
      <3>1. found[r][p] \in Addrs
        BY <1>1, <2>1, MaxAddrAssumption
           DEF UpsertFound, UpsertsFound, RefreshTypeOK, Addrs, AddrOrNone,
               NoAddr
      <3>2. registry' \in RegistryValue
        BY <1>1, <2>1, <3>1, UpsertType DEF UpsertFound, TableTypeOK
      <3>3. TableTypeOK'
        BY <1>1, <2>1, <3>2 DEF UpsertFound, TableTypeOK, guardVars
      <3>4. rpc' \in {rpc, [rpc EXCEPT ![r] = "drop"],
                      [rpc EXCEPT ![r] = "notify"]}
        BY <2>1 DEF UpsertFound, RefreshGoes
      <3>5. /\ rpc[r] = "upsert"
            /\ todo' = [todo EXCEPT ![r] = @ \ {p}]
            /\ cur' = [cur EXCEPT ![r] = p]
            /\ UNCHANGED <<scan, found, overlapped>>
        BY <2>1 DEF UpsertFound
      <3>6. UpsertsFound'
        BY <1>1, <3>4, <3>5 DEF UpsertsFound, RefreshTypeOK
      <3>7. RefreshTypeOK'
        <4>1. cur' \in [Refreshers -> PathOrNone]
          BY <1>1, <3>5 DEF RefreshTypeOK, PathOrNone
        <4>2. todo' \in [Refreshers -> SUBSET Paths]
          BY <1>1, <3>5 DEF RefreshTypeOK
        <4>3. cur'[r] \in Paths /\ \A q \in Refreshers \ {r} : cur'[q] = cur[q]
          BY <1>1, <3>5 DEF RefreshTypeOK
        <4>4. PICK pc \in {"upsert", "drop", "notify"} :
                rpc' = [rpc EXCEPT ![r] = pc]
          BY <1>1, <3>4, <3>5 DEF RefreshTypeOK
        <4>5. pc \in RefreshPcs
          BY DEF RefreshPcs
        <4> QED
          BY <1>1, <3>5, <4>1, <4>2, <4>3, <4>4, <4>5, MoveTyped
             DEF RefreshTypeOK
      <3> QED
        BY <3>3, <3>6, <3>7 DEF RefreshInv
    <2>2. CASE DropMoved(r)
      BY <1>1, <2>2, NoAddrTyped
         DEF DropMoved, RefreshGoes, RefreshInv, RefreshTypeOK, UpsertsFound,
             TableTypeOK, RefreshPcs, guardVars
    <2>3. CASE Sweep(r)
      <3>1. registry' \in RegistryValue
        BY <1>1, <2>3, SweepType DEF Sweep, TableTypeOK
      <3> QED
        BY <1>1, <2>3, <3>1
           DEF Sweep, RefreshGoes, NewlyOffline, RefreshInv, RefreshTypeOK,
               UpsertsFound, TableTypeOK, RefreshPcs, guardVars
    <2>4. ASSUME NEW p \in Paths, DropOffline(r, p)
          PROVE  RefreshInv' /\ TableTypeOK'
      BY <1>1, <2>4, NoAddrTyped
         DEF DropOffline, RefreshGoes, RefreshInv, RefreshTypeOK, UpsertsFound,
             TableTypeOK, RefreshPcs, PathOrNone, guardVars
    <2> QED
      BY <2>1, <2>2, <2>3, <2>4
  <1>3. UNCHANGED <<usbVars, openerVars, streamVars>>
    BY DEF UpsertFound, DropMoved, Sweep, DropOffline
  <1> QED
    BY <1>2, <1>3
       DEF TypeInv, TypeOK, RefreshInv, UsbTypeOK, OpenerTypeOK, StreamTypeOK,
           usbVars, openerVars, streamVars

LEMMA EventTyped ==
  ASSUME TypeInv, NEW r \in Refreshers, Notify(r) \/ NotifyOffline(r)
  PROVE  TypeInv'
  <1>1. RefreshTypeOK /\ UpsertsFound /\ StreamTypeOK
    BY DEF TypeInv, TypeOK
  <1>2. PICK online \in BOOLEAN : Broadcast(cur[r], online)
    BY DEF Notify, NotifyOffline
  <1>3. cur[r] \in Paths
    BY <1>1 DEF Notify, NotifyOffline, RefreshTypeOK
  <1>4. rx' \in [Watchers -> Seq(Event)]
    BY <1>1, <1>2, <1>3, BroadcastType
  <1>5. PICK pc \in {"upsert", "offline"} : rpc' = [rpc EXCEPT ![r] = pc]
    BY DEF Notify, NotifyOffline, RefreshGoes
  <1>6. UNCHANGED <<usbVars, registry, devices, opening, guardVars, openerVars,
                    scan, found, todo, cur, overlapped, initial, view>>
    BY DEF Notify, NotifyOffline
  <1>7. RefreshTypeOK'
    BY <1>1, <1>5, <1>6, MoveTyped DEF RefreshTypeOK, RefreshPcs
  <1>8. UpsertsFound'
    <2>1. CASE Notify(r)
      BY <1>1, <1>6, <2>1 DEF UpsertsFound, RefreshTypeOK, Notify, RefreshGoes
    <2>2. CASE NotifyOffline(r)
      BY <1>1, <1>6, <2>2
         DEF UpsertsFound, RefreshTypeOK, NotifyOffline, RefreshGoes
    <2> QED
      BY <2>1, <2>2
  <1> QED
    BY <1>1, <1>4, <1>6, <1>7, <1>8
       DEF TypeInv, TypeOK, UsbTypeOK, TableTypeOK, OpenerTypeOK, StreamTypeOK,
           usbVars, guardVars, openerVars

LEMMA DoneTyped ==
  ASSUME TypeInv, NEW r \in Refreshers, RefreshDone(r)
  PROVE  TypeInv'
  <1>1. RefreshTypeOK /\ UpsertsFound /\ TableTypeOK
    BY DEF TypeInv, TypeOK
  <1>2. /\ scan' \in [Refreshers -> [Paths -> AddrOrNone]]
        /\ found' \in [Refreshers -> [Paths -> AddrOrNone]]
        /\ cur' \in [Refreshers -> PathOrNone]
        /\ todo' = todo
        /\ overlapped' \subseteq Refreshers
    BY <1>1, NoAddrTyped DEF RefreshDone, RefreshTypeOK, PathOrNone
  <1>3. \/ r = Background /\ rpc' = [rpc EXCEPT ![r] = "idle"]
        \/ r \in Watchers /\ rpc' = [rpc EXCEPT ![r] = "resnapshot"]
    BY DEF RefreshDone, RefreshGoes
  <1>4. /\ rpc' \in [Refreshers -> {"idle"} \cup RefreshPcs \cup WatchPcs]
        /\ rpc'[Background] \in {"idle"} \cup RefreshPcs
    BY <1>1, <1>3, RefresherAssumption DEF RefreshTypeOK, WatchPcs, Refreshers
  <1>5. /\ rpc'[r] \in {"idle", "resnapshot"}
        /\ \A q \in Refreshers \ {r} :
             rpc'[q] = rpc[q] /\ cur'[q] = cur[q] /\ found'[q] = found[q]
    BY <1>1, <1>3 DEF RefreshTypeOK, RefreshDone
  <1>6. RefreshTypeOK' /\ UpsertsFound'
    BY <1>1, <1>2, <1>4, <1>5 DEF RefreshTypeOK, UpsertsFound
  <1>7. TableTypeOK'
    BY <1>1 DEF TableTypeOK, RefreshDone
  <1>8. UNCHANGED <<usbVars, openerVars, streamVars>>
    BY DEF RefreshDone
  <1> QED
    BY <1>6, <1>7, <1>8
       DEF TypeInv, TypeOK, UsbTypeOK, OpenerTypeOK, StreamTypeOK, usbVars,
           openerVars, streamVars

LEMMA RefreshTyped ==
  ASSUME TypeInv, NEW r \in Refreshers, RefreshStep(r)
  PROVE  TypeInv'
  <1>1. CASE Scan(r) \/ ScanFails(r) \/ ScanDone(r)
    BY <1>1, ScanTyped
  <1>2. CASE \/ \E p \in Paths : Identify(r, p) \/ OpenProbe(r, p)
             \/ CloseProbe(r)
    BY <1>2, ProbeTyped
  <1>3. CASE \/ \E p \in Paths : UpsertFound(r, p) \/ DropOffline(r, p)
             \/ DropMoved(r) \/ Sweep(r)
    BY <1>3, RegistryTyped
  <1>4. CASE Notify(r) \/ NotifyOffline(r)
    BY <1>4, EventTyped
  <1>5. CASE RefreshDone(r)
    BY <1>5, DoneTyped
  <1> QED
    BY <1>1, <1>2, <1>3, <1>4, <1>5 DEF RefreshStep

-----------------------------------------------------------------------------
(* Steps of the watch_dev_list streams, and the theorem.                   *)

LEMMA WatchTyped ==
  ASSUME TypeInv, NEW w \in Watchers, Watch(w) \/ WatchStep(w) \/ Unwatch(w)
  PROVE  TypeInv'
  <1>1. RefreshTypeOK /\ UpsertsFound /\ TableTypeOK /\ StreamTypeOK
    BY DEF TypeInv, TypeOK
  <1>2. w \in Refreshers /\ w # Background
    BY RefresherAssumption DEF Refreshers
  <1>3. RefreshTypeOK'
    <2>1. overlapped' \subseteq Refreshers
      BY <1>1, <1>2
         DEF RefreshTypeOK, WatchStep, Watch, QueueFromWatch, QueueRefresh, Meet,
             Resnapshot, Subscribe, Deliver, Unwatch, refreshVars, Refreshers
    <2>2. UNCHANGED <<scan, found, todo, cur>>
      BY DEF WatchStep, Watch, QueueFromWatch, Resnapshot, Subscribe, Deliver,
             Unwatch, refreshVars
    <2>3. CASE QueueFromWatch(w)
      <3>1. \A r \in Refreshers :
              \/ rpc'[r] = rpc[r]
              \/ r = w /\ rpc'[r] = "subscribe"
              \/ r = Background /\ rpc'[r] = "scan"
        BY <1>1, <1>2, <2>3 DEF QueueFromWatch, RefreshTypeOK
      <3>2. rpc' \in [Refreshers -> {"idle"} \cup RefreshPcs \cup WatchPcs]
        BY <1>1, <2>3, <3>1
           DEF QueueFromWatch, RefreshTypeOK, RefreshPcs, WatchPcs
      <3>3. rpc'[Background] \in {"idle"} \cup RefreshPcs
        BY <1>1, <1>2, <3>1 DEF RefreshTypeOK, RefreshPcs, Refreshers
      <3> QED
        BY <1>1, <2>1, <2>2, <3>1, <3>2, <3>3 DEF RefreshTypeOK
    <2>4. CASE ~QueueFromWatch(w)
      <3>1. \/ UNCHANGED rpc
            \/ \E pc \in {"scan", "queue", "subscribe", "streaming", "idle"} :
                 rpc' = [rpc EXCEPT ![w] = pc]
        BY <2>4
           DEF WatchStep, Watch, Resnapshot, Subscribe, Deliver, Unwatch,
               RefreshGoes, refreshVars
      <3>2. CASE UNCHANGED rpc
        BY <1>1, <2>1, <2>2, <3>2 DEF RefreshTypeOK
      <3>3. ASSUME NEW pc \in {"scan", "queue", "subscribe", "streaming", "idle"},
                   rpc' = [rpc EXCEPT ![w] = pc]
            PROVE  RefreshTypeOK'
        <4>1. pc \in {"idle"} \cup RefreshPcs \cup WatchPcs
          BY DEF RefreshPcs, WatchPcs
        <4> QED
          BY <1>1, <1>2, <2>1, <2>2, <3>3, <4>1, MoveTyped DEF RefreshTypeOK
      <3> QED
        BY <3>1, <3>2, <3>3
    <2> QED
      BY <2>3, <2>4
  <1>4. UpsertsFound'
    BY <1>1, <1>2
       DEF UpsertsFound, RefreshTypeOK, RefreshGoes, WatchStep, Watch,
           QueueFromWatch, Resnapshot, Subscribe, Deliver, Unwatch, refreshVars
  <1>5. TableTypeOK'
    BY <1>1
       DEF TableTypeOK, WatchStep, Watch, QueueFromWatch, QueueRefresh,
           Resnapshot, Subscribe, Deliver, Unwatch, guardVars
  <1>6. StreamTypeOK'
    <2> USE <1>1, SnapshotType DEF StreamTypeOK, streamVars
    <2>1. CASE Watch(w) \/ Resnapshot(w)
      <3>1. /\ initial' = [initial EXCEPT ![w] = Snapshot(registry)]
            /\ UNCHANGED <<rx, view>>
        BY <2>1 DEF Watch, Resnapshot
      <3> QED
        BY <3>1
    <2>2. CASE QueueFromWatch(w)
      BY <2>2 DEF QueueFromWatch
    <2>3. CASE Subscribe(w)
      BY <2>3 DEF Subscribe
    <2>4. CASE Deliver(w)
      <3>1. Head(rx[w]) \in Event /\ Tail(rx[w]) \in Seq(Event)
        BY <2>4 DEF Deliver
      <3>2. view' \in [Watchers -> [Paths -> Status]]
        BY <2>4, <3>1 DEF Deliver, Status, Event
      <3>3. rx' \in [Watchers -> Seq(Event)]
        BY <2>4, <3>1 DEF Deliver
      <3> QED
        BY <2>4, <3>2, <3>3 DEF Deliver
    <2>5. CASE Unwatch(w)
      BY <2>5 DEF Unwatch
    <2> QED
      BY <2>1, <2>2, <2>3, <2>4, <2>5 DEF WatchStep
  <1>7. UNCHANGED <<usbVars, openerVars>>
    BY DEF WatchStep, Watch, QueueFromWatch, Resnapshot, Subscribe, Deliver,
           Unwatch
  <1> QED
    BY <1>3, <1>4, <1>5, <1>6, <1>7
       DEF TypeInv, TypeOK, UsbTypeOK, OpenerTypeOK, usbVars, openerVars

\* Every table and local of the service keeps its type, and what a refresh
\* records are keyboards it found.
THEOREM TypeInvariant == Spec => []TypeInv
  <1>1. TypeInv /\ [Next]_vars => TypeInv'
    <2> SUFFICES ASSUME TypeInv, [Next]_vars PROVE TypeInv'
      OBVIOUS
    <2>1. CASE UsbStep
      BY <2>1, UsbTyped
    <2>2. CASE \E o \in Openers : OpenerStep(o) \/ \E p \in Paths : Call(o, p)
      BY <2>2, OpenerTyped
    <2>3. CASE Tick \/ QueueFromTick
      BY <2>3, TickTyped
    <2>4. CASE \E r \in Refreshers : RefreshStep(r)
      BY <2>4, RefreshTyped
    <2>5. CASE \E w \in Watchers : Watch(w) \/ WatchStep(w) \/ Unwatch(w)
      BY <2>5, WatchTyped
    <2>6. CASE ShutdownStep
      BY <2>6, ShutdownTyped
    <2>7. CASE UNCHANGED vars
      BY <2>7
         DEF TypeInv, TypeOK, UsbTypeOK, TableTypeOK, OpenerTypeOK,
             RefreshTypeOK, StreamTypeOK, UpsertsFound, vars, usbVars,
             guardVars, openerVars, refreshVars, streamVars
    <2> QED
      BY <2>1, <2>2, <2>3, <2>4, <2>5, <2>6, <2>7 DEF Next
  <1> QED
    BY InitTyped, <1>1, PTL DEF Spec

\* Every table and local of the service keeps its type.
THEOREM TypeCorrect == Spec => []TypeOK
  <1>1. TypeInv => TypeOK
    BY DEF TypeInv
  <1> QED
    BY <1>1, TypeInvariant, PTL

-----------------------------------------------------------------------------
(* The index is exact.  The argument: an address is handed out once, to    *)
(* one port, and whatever the bus, the scans, the keyboards found and the  *)
(* registrations say of that address they say of the same port (OnePort).  *)
(* So when upsert puts an address into the index no other registration can *)
(* be using it, and the key it removes belongs to the registration it      *)
(* replaces.                                                               *)

\* Address a has been seen at port p, and something still says so.
SeenAt(a, p) ==
  \/ attached[p] = a
  \/ registry.byPath[p].addr = a
  \/ \E r \in Refreshers : scan[r][p] = a \/ found[r][p] = a

OnePort ==
  \A a \in Addrs, p \in Paths : SeenAt(a, p) =>
    /\ a <= lastAddr
    /\ \A q \in Paths : SeenAt(a, q) => q = p

IndexInv == OnePort /\ IndexExact

\* The step says nothing new about any address.
NothingNew == \A a \in Addrs, p \in Paths : SeenAt(a, p)' => SeenAt(a, p)

\* Then it keeps OnePort, if it gives no address back.
LEMMA OldAddresses ==
  ASSUME OnePort, NothingNew, lastAddr' = lastAddr
  PROVE  OnePort'
  BY DEF OnePort, NothingNew

-----------------------------------------------------------------------------
(* The bus.                                                                *)

LEMMA BusStep ==
  ASSUME TypeInv, IndexInv, UsbStep
  PROVE  IndexInv'
  <1>0. /\ UNCHANGED <<registry, scan, found>>
        /\ attached \in [Paths -> AddrOrNone]
        /\ lastAddr \in AddrOrNone
    BY DEF UsbStep, Plug, Unplug, TransportExit, refreshVars, TypeInv, TypeOK,
           UsbTypeOK
  <1>1. IndexExact'
    BY <1>0 DEF IndexInv, IndexExact
  <1>2. ASSUME NEW p \in Paths, Unplug(p) \/ TransportExit(p)
        PROVE  OnePort'
    <2>1. lastAddr' = lastAddr
      BY <1>2 DEF Unplug, TransportExit
    <2>2. \A q \in Paths : attached'[q] \in {attached[q], NoAddr}
      BY <1>0, <1>2 DEF Unplug, TransportExit
    <2>3. NothingNew
      BY <1>0, <2>2, MaxAddrAssumption DEF NothingNew, SeenAt, Addrs, NoAddr
    <2> QED
      BY <2>1, <2>3, OldAddresses DEF IndexInv
  <1>3. ASSUME NEW p \in Paths, Plug(p)
        PROVE  OnePort'
    <2>1. /\ lastAddr' = lastAddr + 1
          /\ \A q \in Paths :
               attached'[q] = IF q = p THEN lastAddr' ELSE attached[q]
      BY <1>0, <1>3 DEF Plug
    <2>2. ASSUME NEW a \in Addrs, NEW q \in Paths, SeenAt(a, q)'
          PROVE  \/ SeenAt(a, q) /\ a <= lastAddr
                 \/ a = lastAddr' /\ q = p
      BY <1>0, <2>1, <2>2 DEF SeenAt, IndexInv, OnePort
    <2>3. \A a \in Addrs : a <= lastAddr => a <= lastAddr' /\ a # lastAddr'
      BY <1>0, <2>1, MaxAddrAssumption DEF Addrs, AddrOrNone
    <2>4. lastAddr' <= lastAddr'
      BY <1>0, <2>1, MaxAddrAssumption DEF AddrOrNone
    <2>5. ASSUME NEW a \in Addrs, NEW q \in Paths, SeenAt(a, q)'
          PROVE  a <= lastAddr' /\ \A s \in Paths : SeenAt(a, s)' => s = q
      <3>1. CASE a = lastAddr'
        BY <2>2, <2>3, <2>4, <2>5, <3>1
      <3>2. CASE a # lastAddr'
        BY <2>2, <2>3, <2>5, <3>2 DEF IndexInv, OnePort
      <3> QED  BY <3>1, <3>2
    <2> QED
      BY <2>5 DEF OnePort
  <1> QED
    BY <1>1, <1>2, <1>3 DEF UsbStep, IndexInv

-----------------------------------------------------------------------------
(* The refreshes.                                                          *)

\* Enumerating the bus and identifying keyboards.
LEMMA ScanStep ==
  ASSUME TypeInv, IndexInv, NEW r \in Refreshers,
         \/ Scan(r) \/ ScanFails(r) \/ CloseProbe(r) \/ ScanDone(r)
         \/ \E p \in Paths : Identify(r, p) \/ OpenProbe(r, p)
  PROVE  IndexInv'
  <1>0. UNCHANGED <<attached, lastAddr, registry>>
    BY DEF Scan, ScanFails, Identify, OpenProbe, CloseProbe, ScanDone, usbVars
  <1>1. IndexExact'
    BY <1>0 DEF IndexInv, IndexExact
  <1>2. \A s \in Refreshers, q \in Paths :
          /\ scan'[s][q] \in {scan[s][q], attached[q], NoAddr}
          /\ found'[s][q] \in {found[s][q], scan[s][q], NoAddr}
    <2>0. /\ scan \in [Refreshers -> [Paths -> AddrOrNone]]
          /\ found \in [Refreshers -> [Paths -> AddrOrNone]]
          /\ rpc[r] = "probing" => cur[r] \in Paths
      BY DEF TypeInv, TypeOK, RefreshTypeOK
    <2>1. CASE Scan(r)  BY <2>0, <2>1 DEF Scan
    <2>2. CASE ScanFails(r)  BY <2>0, <2>2 DEF ScanFails
    <2>3. CASE CloseProbe(r)  BY <2>0, <2>3 DEF CloseProbe
    <2>4. CASE ScanDone(r)  BY <2>4 DEF ScanDone
    <2>5. ASSUME NEW p \in Paths, Identify(r, p) \/ OpenProbe(r, p)
          PROVE  \A s \in Refreshers, q \in Paths :
                   /\ scan'[s][q] \in {scan[s][q], attached[q], NoAddr}
                   /\ found'[s][q] \in {found[s][q], scan[s][q], NoAddr}
      BY <2>0, <2>5 DEF Identify, OpenProbe
    <2> QED
      BY <2>1, <2>2, <2>3, <2>4, <2>5
  <1>3. NothingNew
    BY <1>0, <1>2, MaxAddrAssumption DEF NothingNew, SeenAt, Addrs, NoAddr
  <1> QED
    BY <1>0, <1>1, <1>3, OldAddresses DEF IndexInv

\* upsert.  The address found has been seen at this port, so at no other.
LEMMA UpsertStep ==
  ASSUME TypeInv, IndexInv, NEW r \in Refreshers, NEW p \in Paths,
         UpsertFound(r, p)
  PROVE  IndexInv'
  <1>0. /\ registry \in RegistryValue
        /\ rpc[r] = "upsert" /\ p \in todo[r]
        /\ found[r][p] \in AddrOrNone
    BY DEF TypeInv, TypeOK, TableTypeOK, RefreshTypeOK, UpsertFound
  <1>1. found[r][p] \in Addrs
    BY <1>0, MaxAddrAssumption
       DEF TypeInv, UpsertsFound, AddrOrNone, Addrs, NoAddr
  <1>2. PICK a \in Addrs : a = found[r][p]
    BY <1>1
  <1>3. /\ registry' = Upsert(registry, p, a)
        /\ UNCHANGED <<attached, lastAddr, scan, found>>
    BY <1>2 DEF UpsertFound, usbVars
  <1>4. \A q \in Paths :
          registry'.byPath[q] = IF q = p THEN [addr |-> a, online |-> TRUE]
                                ELSE registry.byPath[q]
    BY <1>0, <1>3, UpsertPath
  <1>5. \A x \in Addrs :
          registry'.byBus[x] = IF x = a THEN p
                               ELSE IF x = registry.byPath[p].addr THEN NoPath
                               ELSE registry.byBus[x]
    BY <1>3 DEF Upsert
  <1>6. SeenAt(a, p)
    BY <1>2 DEF SeenAt
  <1>7. NothingNew
    BY <1>3, <1>4, <1>6 DEF NothingNew, SeenAt
  <1>8. \A x \in Addrs, q \in Paths \ {p} :
          registry.byPath[q].addr = x => ~SeenAt(x, p)
    BY DEF IndexInv, OnePort, SeenAt
  <1>9. ASSUME NEW x \in Addrs, NEW q \in Paths
        PROVE  registry'.byBus[x] = q
                 <=> registry'.byPath[q] = [addr |-> x, online |-> TRUE]
    <2>0. registry.byBus[x] = q
            <=> registry.byPath[q] = [addr |-> x, online |-> TRUE]
      BY DEF IndexInv, IndexExact
    <2>1. CASE q = p
      <3>1. registry'.byPath[q] = [addr |-> a, online |-> TRUE]
        BY <1>4, <2>1
      <3>2. CASE x = a
        BY <1>5, <2>1, <3>1, <3>2
      <3>3. CASE x # a
        <4>1. registry'.byPath[q] # [addr |-> x, online |-> TRUE]
          BY <3>1, <3>3
        <4>2. CASE x = registry.byPath[p].addr
          BY <1>5, <3>3, <4>1, <4>2, PathsAssumption
        <4>3. CASE x # registry.byPath[p].addr
          BY <1>5, <2>0, <2>1, <3>3, <4>1, <4>3
        <4> QED  BY <4>2, <4>3
      <3> QED  BY <3>2, <3>3
    <2>2. CASE q # p
      <3>1. registry'.byPath[q] = registry.byPath[q]
        BY <1>4, <2>2
      <3>2. CASE registry.byPath[q].addr = x
        <4>1. x # a /\ x # registry.byPath[p].addr
          BY <1>6, <1>8, <2>2, <3>2 DEF SeenAt
        <4> QED  BY <1>5, <2>0, <3>1, <4>1
      <3>3. CASE registry.byPath[q].addr # x
        <4>1. registry.byPath[q] # [addr |-> x, online |-> TRUE]
          BY <3>3
        <4> QED
          BY <1>5, <2>0, <2>2, <3>1, <4>1, PathsAssumption
      <3> QED  BY <3>2, <3>3
    <2> QED  BY <2>1, <2>2
  <1>10. IndexExact'
    BY <1>9 DEF IndexExact
  <1> QED
    BY <1>3, <1>7, <1>10, OldAddresses DEF IndexInv

\* mark_offline_missing_paths.
LEMMA SweepStep ==
  ASSUME TypeInv, IndexInv, NEW r \in Refreshers, Sweep(r)
  PROVE  IndexInv'
  <1>0. registry \in RegistryValue
    BY DEF TypeInv, TypeOK, TableTypeOK
  <1>1. PICK live : registry' = MarkOfflineMissing(registry, live)
    BY DEF Sweep
  <1>2. UNCHANGED <<attached, lastAddr, scan, found>>
    BY DEF Sweep, usbVars
  <1>3. \A q \in Paths :
          /\ registry'.byPath[q].addr = registry.byPath[q].addr
          /\ registry'.byPath[q].online
               <=> (registry.byPath[q].online /\ q \in live)
    BY <1>0, <1>1, SweepFields
  <1>4. \A x \in Addrs : registry'.byBus[x] =
          IF \E q \in NewlyOffline(registry, live) : registry.byPath[q].addr = x
          THEN NoPath ELSE registry.byBus[x]
    BY <1>1 DEF MarkOfflineMissing
  <1>5. NothingNew
    BY <1>2, <1>3 DEF NothingNew, SeenAt
  <1>6. ASSUME NEW x \in Addrs, NEW q \in Paths
        PROVE  registry'.byBus[x] = q
                 <=> registry'.byPath[q] = [addr |-> x, online |-> TRUE]
    <2>0. /\ registry.byBus[x] = q
               <=> registry.byPath[q] = [addr |-> x, online |-> TRUE]
          /\ registry.byPath[q] \in Registration
      BY <1>0 DEF IndexInv, IndexExact, RegistryValue
    <2>1. registry'.byPath[q] = [addr |-> x, online |-> TRUE]
            <=> /\ registry.byPath[q] = [addr |-> x, online |-> TRUE]
                /\ q \in live
      <3>1. registry'.byPath[q] \in Registration
        BY <1>0, <1>1, SweepType DEF RegistryValue
      <3>2. \A v \in Registration : v = [addr |-> x, online |-> TRUE]
                                      <=> v.addr = x /\ v.online = TRUE
        BY DEF Registration
      <3> QED
        BY <1>3, <2>0, <3>1, <3>2 DEF Registration
    <2>2. CASE \E s \in NewlyOffline(registry, live) :
                 registry.byPath[s].addr = x
      <3>1. PICK s \in Paths : /\ registry.byPath[s].addr = x
                               /\ s \notin live
        BY <2>2 DEF NewlyOffline
      <3>2. registry'.byBus[x] # q
        BY <1>4, <2>2, PathsAssumption
      <3>3. registry.byPath[q] = [addr |-> x, online |-> TRUE] => q = s
        BY <3>1 DEF IndexInv, OnePort, SeenAt
      <3> QED  BY <2>1, <3>1, <3>2, <3>3
    <2>3. CASE ~ \E s \in NewlyOffline(registry, live) :
                   registry.byPath[s].addr = x
      <3>1. registry'.byBus[x] = registry.byBus[x]
        BY <1>4, <2>3
      <3>2. registry.byPath[q] = [addr |-> x, online |-> TRUE] => q \in live
        BY <2>3 DEF NewlyOffline, Online
      <3> QED  BY <2>0, <2>1, <3>1, <3>2
    <2> QED  BY <2>2, <2>3
  <1>7. IndexExact'
    BY <1>6 DEF IndexExact
  <1> QED
    BY <1>2, <1>5, <1>7, OldAddresses DEF IndexInv

\* Steps that touch neither the bus nor the registry.
LEMMA OtherStep ==
  ASSUME IndexInv, UNCHANGED <<attached, lastAddr, registry>>,
         UNCHANGED <<scan, found>>
  PROVE  IndexInv'
  BY DEF IndexInv, OnePort, SeenAt, IndexExact

LEMMA RefreshIndex ==
  ASSUME TypeInv, IndexInv, NEW r \in Refreshers, RefreshStep(r)
  PROVE  IndexInv'
  <1>1. CASE \/ Scan(r) \/ ScanFails(r) \/ CloseProbe(r) \/ ScanDone(r)
             \/ \E p \in Paths : Identify(r, p) \/ OpenProbe(r, p)
    BY <1>1, ScanStep
  <1>2. CASE \E p \in Paths : UpsertFound(r, p)
    BY <1>2, UpsertStep
  <1>3. CASE Sweep(r)
    BY <1>3, SweepStep
  <1>4. CASE \/ DropMoved(r) \/ Notify(r) \/ NotifyOffline(r)
             \/ \E p \in Paths : DropOffline(r, p)
    BY <1>4, OtherStep DEF DropMoved, Notify, NotifyOffline, DropOffline, usbVars
  <1>5. CASE RefreshDone(r)
    <2>1. UNCHANGED <<attached, lastAddr, registry>>
      BY <1>5 DEF RefreshDone, usbVars
    <2>2. \A s \in Refreshers, q \in Paths :
            /\ scan'[s][q] \in {scan[s][q], NoAddr}
            /\ found'[s][q] \in {found[s][q], NoAddr}
      BY <1>5 DEF RefreshDone, TypeInv, TypeOK, RefreshTypeOK
    <2>3. NothingNew
      BY <2>1, <2>2, MaxAddrAssumption DEF NothingNew, SeenAt, Addrs, NoAddr
    <2>4. IndexExact'
      BY <2>1 DEF IndexInv, IndexExact
    <2> QED
      BY <2>1, <2>3, <2>4, OldAddresses DEF IndexInv
  <1> QED
    BY <1>1, <1>2, <1>3, <1>4, <1>5 DEF RefreshStep

\* shutdown empties the registry in one step of its three.
LEMMA ShutdownIndex ==
  ASSUME TypeInv, IndexInv, ShutdownStep
  PROVE  IndexInv'
  <1>1. CASE ClearRegistry
    <2>1. /\ registry' = EmptyRegistry
          /\ UNCHANGED <<attached, lastAddr, scan, found>>
      BY <1>1 DEF ClearRegistry, usbVars, refreshVars
    <2>2. /\ \A q \in Paths : registry'.byPath[q] = Unregistered
          /\ \A x \in Addrs : registry'.byBus[x] = NoPath
      BY <2>1 DEF EmptyRegistry
    <2>3. IndexExact'
      BY <2>2, PathsAssumption DEF IndexExact, Unregistered
    <2>4. NothingNew
      BY <2>1, <2>2, MaxAddrAssumption
         DEF NothingNew, SeenAt, Unregistered, Addrs, NoAddr
    <2> QED
      BY <2>1, <2>3, <2>4, OldAddresses DEF IndexInv
  <1>2. CASE Drain \/ ClearOpening
    BY <1>2, OtherStep DEF Drain, ClearOpening, usbVars, refreshVars
  <1> QED
    BY <1>1, <1>2 DEF ShutdownStep

-----------------------------------------------------------------------------
LEMMA IndexInit == Init => IndexInv
  <1> SUFFICES ASSUME Init PROVE IndexInv  OBVIOUS
  <1>1. \A a \in Addrs, p \in Paths : ~SeenAt(a, p)
    <2>1. \A p \in Paths :
            /\ attached[p] = NoAddr /\ registry.byPath[p].addr = NoAddr
            /\ \A r \in Refreshers : scan[r][p] = NoAddr /\ found[r][p] = NoAddr
      <3>1. /\ attached = [p \in Paths |-> NoAddr]
            /\ registry = EmptyRegistry
            /\ scan = [r \in Refreshers |-> [p \in Paths |-> NoAddr]]
            /\ found = [r \in Refreshers |-> [p \in Paths |-> NoAddr]]
        BY DEF Init
      <3>2. \A p \in Paths : registry.byPath[p].addr = NoAddr
        BY <3>1 DEF EmptyRegistry, Unregistered
      <3>3. \A p \in Paths : attached[p] = NoAddr
        BY <3>1
      <3>4. ASSUME NEW r \in Refreshers, NEW p \in Paths
            PROVE  scan[r][p] = NoAddr /\ found[r][p] = NoAddr
        <4>1. /\ scan[r] = [q \in Paths |-> NoAddr]
              /\ found[r] = [q \in Paths |-> NoAddr]
          BY <3>1
        <4> QED
          BY <4>1
      <3> QED
        BY <3>2, <3>3, <3>4
    <2>2. \A a \in Addrs : a # NoAddr
      BY MaxAddrAssumption DEF Addrs, NoAddr
    <2> QED
      BY <2>1, <2>2, Zenon DEF SeenAt
  <1>2. IndexExact
    BY PathsAssumption DEF Init, IndexExact, EmptyRegistry, Unregistered
  <1> QED
    BY <1>1, <1>2 DEF IndexInv, OnePort

LEMMA IndexInvariant == Spec => []IndexInv
  <1>1. TypeInv /\ IndexInv /\ [Next]_vars => IndexInv'
    <2> SUFFICES ASSUME TypeInv, IndexInv, [Next]_vars PROVE IndexInv'
      OBVIOUS
    <2>1. CASE UsbStep
      BY <2>1, BusStep
    <2>2. ASSUME NEW o \in Openers,
                 OpenerStep(o) \/ \E p \in Paths : Call(o, p)
          PROVE  IndexInv'
      <3>1. UNCHANGED <<attached, lastAddr, registry, scan, found>>
        BY <2>2 DEF OpenerStep, Call, FirstFind, Recheck, LastFind, FindSession,
                    Lookup, TakeSlot, Connect, Insert, ReleaseSlot, Return,
                    usbVars, refreshVars
      <3> QED  BY <3>1, OtherStep
    <2>3. CASE Tick \/ QueueFromTick
      BY <2>3, OtherStep DEF Tick, QueueFromTick, usbVars, refreshVars
    <2>4. CASE \E r \in Refreshers : RefreshStep(r)
      BY <2>4, RefreshIndex
    <2>5. ASSUME NEW w \in Watchers, Watch(w) \/ WatchStep(w) \/ Unwatch(w)
          PROVE  IndexInv'
      <3>1. UNCHANGED <<attached, lastAddr, registry, scan, found>>
        BY <2>5 DEF WatchStep, Watch, QueueFromWatch, Resnapshot, Subscribe,
                    Deliver, Unwatch, usbVars, refreshVars
      <3> QED  BY <3>1, OtherStep
    <2>6. CASE ShutdownStep
      BY <2>6, ShutdownIndex
    <2>7. CASE UNCHANGED vars
      BY <2>7, OtherStep DEF vars, usbVars, refreshVars
    <2> QED
      BY <2>1, <2>2, <2>3, <2>4, <2>5, <2>6, <2>7 DEF Next
  <1> QED
    BY <1>1, IndexInit, TypeInvariant, PTL DEF Spec

\* With addresses that are handed out once, an address leads to a path in the
\* by_bus_address index precisely when the registry has that path online
\* there, for any number of ports, refreshes and subscribers.
THEOREM IndexIsExact == Spec => []IndexExact
  <1>1. IndexInv => IndexExact
    BY DEF IndexInv
  <1> QED
    BY <1>1, IndexInvariant, PTL

-----------------------------------------------------------------------------
(* The opening guard.  A task between entering and leaving opening_paths   *)
(* keeps its path in the set.                                              *)

SlotHeld ==
  phase # "down" => \A o \in Openers : InSlot(o) => target[o] \in opening

SlotInv == SlotHeld /\ OneOpenerPerPath

\* Only openers and the shutdown handler touch the guard.
LEMMA GuardFrame ==
  ASSUME \/ UsbStep \/ Tick \/ QueueFromTick
         \/ \E r \in Refreshers : RefreshStep(r)
         \/ \E w \in Watchers : Watch(w) \/ WatchStep(w) \/ Unwatch(w)
  PROVE  UNCHANGED <<openerVars, opening, phase>>
  <1>1. CASE UsbStep
    BY <1>1 DEF UsbStep, Plug, Unplug, TransportExit, guardVars
  <1>2. CASE Tick \/ QueueFromTick
    BY <1>2 DEF Tick, QueueFromTick
  <1>3. ASSUME NEW r \in Refreshers, RefreshStep(r)
        PROVE  UNCHANGED <<openerVars, opening, phase>>
    <2>1. CASE \/ Scan(r) \/ ScanFails(r) \/ CloseProbe(r) \/ ScanDone(r)
               \/ \E p \in Paths : Identify(r, p) \/ OpenProbe(r, p)
      BY <2>1 DEF Scan, ScanFails, Identify, OpenProbe, CloseProbe, ScanDone,
                  guardVars
    <2>2. CASE \/ DropMoved(r) \/ Sweep(r)
               \/ \E p \in Paths : UpsertFound(r, p) \/ DropOffline(r, p)
      BY <2>2 DEF UpsertFound, DropMoved, Sweep, DropOffline, guardVars
    <2>3. CASE Notify(r) \/ NotifyOffline(r) \/ RefreshDone(r)
      BY <2>3 DEF Notify, NotifyOffline, RefreshDone, guardVars
    <2> QED
      BY <1>3, <2>1, <2>2, <2>3 DEF RefreshStep
  <1>4. CASE \E w \in Watchers : Watch(w) \/ WatchStep(w) \/ Unwatch(w)
    BY <1>4
       DEF WatchStep, Watch, QueueFromWatch, Resnapshot, Subscribe, Deliver,
           Unwatch, guardVars
  <1> QED
    BY <1>1, <1>2, <1>3, <1>4

LEMMA SlotStep == TypeInv /\ SlotInv /\ [Next]_vars => SlotInv'
  <1> SUFFICES ASSUME TypeInv, SlotInv, [Next]_vars PROVE SlotInv'
    OBVIOUS
  <1> USE DEF SlotInv, SlotHeld, OneOpenerPerPath, InSlot
  <1>1. OpenerTypeOK
    BY DEF TypeInv, TypeOK
  <1>2. ASSUME NEW o \in Openers, OpenerStep(o) \/ \E p \in Paths : Call(o, p)
        PROVE  SlotInv'
    <2> USE <1>1 DEF OpenerTypeOK, OpenerGoes, guardVars
    <2>1. ASSUME NEW p \in Paths, Call(o, p) PROVE SlotInv'
      BY <2>1 DEF Call
    <2>2. ASSUME NEW from \in {"find", "recheck", "result"},
                 NEW otherwise \in {"lookup", "slot", "idle"},
                 FindSession(o, from, otherwise)
          PROVE  SlotInv'
      BY <2>2 DEF FindSession
    <2>3. CASE Lookup(o) \/ Return(o)
      BY <2>3 DEF Lookup, Return
    <2>4. CASE TakeSlot(o)
      BY <2>4 DEF TakeSlot
    <2>5. CASE Connect(o) \/ Insert(o)
      BY <2>5 DEF Connect, Insert
    <2>6. CASE ReleaseSlot(o)
      BY <2>6 DEF ReleaseSlot
    <2> QED
      BY <1>2, <2>1, <2>2, <2>3, <2>4, <2>5, <2>6
         DEF OpenerStep, FirstFind, Recheck, LastFind
  <1>3. CASE ShutdownStep
    BY <1>3 DEF ShutdownStep, Drain, ClearRegistry, ClearOpening, openerVars
  <1>4. CASE UNCHANGED <<openerVars, opening, phase>>
    BY <1>4 DEF openerVars
  <1>5. CASE UNCHANGED vars
    BY <1>4, <1>5 DEF vars, guardVars
  <1> QED
    BY <1>2, <1>3, <1>4, <1>5, GuardFrame DEF Next

\* While shutdown has not emptied opening_paths, one task at a time is between
\* entering and leaving it for a given path (open_device).
THEOREM OpenerExclusion == Spec => []OneOpenerPerPath
  <1>1. Init => SlotInv
    BY DEF Init, SlotInv, SlotHeld, OneOpenerPerPath, InSlot
  <1>2. SlotInv => OneOpenerPerPath
    BY DEF SlotInv
  <1> QED
    BY <1>1, <1>2, SlotStep, TypeInvariant, PTL DEF Spec

-----------------------------------------------------------------------------
(* Sessions and the claim on IF2.                                          *)

\* Every address the service holds on to was handed out at some time, so the
\* next keyboard to be plugged in has none of them.
Issued ==
  /\ \A p \in Paths : attached[p] <= lastAddr /\ devices[p] <= lastAddr
  /\ \A o \in Openers : held[o] <= lastAddr
  /\ \A r \in Refreshers, p \in Paths : scan[r][p] <= lastAddr

HeldInUse ==
  \A o \in Openers : held[o] # NoAddr => opc[o] \in {"insert", "using"}

\* The refresh is querying a keyboard that is still there.
Probes(r, p) == /\ rpc[r] = "probing" /\ cur[r] = p
                /\ attached[p] = scan[r][p]

ProbeInv ==
  /\ \A r \in Refreshers : rpc[r] \in {"probe", "probing"} =>
       \A p \in todo[r] : scan[r][p] # NoAddr
  /\ \A r \in Refreshers : rpc[r] = "probing" => scan[r][cur[r]] # NoAddr
  /\ \A r \in Refreshers, p \in Paths : Probes(r, p) => claim[p] = "probe"
  /\ \A r, q \in Refreshers, p \in Paths : Probes(r, p) /\ Probes(q, p) => r = q

ClaimInv == Issued /\ HeldInUse /\ SessionHoldsClaim /\ ProbeInv

\* The session a task has connected and not yet inserted is the only one that
\* works for its path.
NothingToReplace ==
  phase # "down" =>
    \A o \in Openers :
      opc[o] = "insert" => ~Works(target[o], devices[target[o]])

LEMMA ClaimInit == Init => ClaimInv
  BY DEF Init, ClaimInv, Issued, HeldInUse, SessionHoldsClaim, ProbeInv, Probes,
         Works, NoAddr

LEMMA ClaimUsb == TypeInv /\ ClaimInv /\ UsbStep => ClaimInv'
  <1> SUFFICES ASSUME TypeInv, ClaimInv, NEW p \in Paths,
                      Plug(p) \/ Unplug(p) \/ TransportExit(p)
               PROVE  ClaimInv'
    BY DEF UsbStep
  <1> USE DEF ClaimInv, NoAddr, openerVars, refreshVars
  <1>1. /\ UsbTypeOK /\ OpenerTypeOK /\ RefreshTypeOK
        /\ devices \in [Paths -> AddrOrNone]
    BY DEF TypeInv, TypeOK, TableTypeOK
  <1>2. CASE Plug(p)
    <2>1. /\ lastAddr \in Nat /\ lastAddr' = lastAddr + 1
          /\ attached[p] = NoAddr
          /\ attached' = [attached EXCEPT ![p] = lastAddr + 1]
          /\ UNCHANGED <<claim, devices, openerVars, refreshVars>>
      BY <1>1, <1>2 DEF Plug, UsbTypeOK, AddrOrNone
    <2>2. /\ attached \in [Paths -> Nat] /\ devices \in [Paths -> Nat]
          /\ held \in [Openers -> Nat]
          /\ scan \in [Refreshers -> [Paths -> Nat]]
      BY <1>1, MaxAddrAssumption
         DEF UsbTypeOK, OpenerTypeOK, RefreshTypeOK, AddrOrNone
    <2>3. Issued'
      BY <2>1, <2>2 DEF Issued
    <2>4. HeldInUse'
      BY <2>1 DEF HeldInUse
    <2>5. SessionHoldsClaim'
      <3>1. \A q \in Paths : Works(q, devices[q])' => Works(q, devices[q])
        BY <2>1, <2>2 DEF Works, Issued
      <3>2. \A o \in Openers :
              (held[o] = attached[target[o]])' /\ held[o] # NoAddr
                /\ target[o] \in Paths
                => held[o] = attached[target[o]]
        BY <2>1, <2>2 DEF Issued
      <3>3. \A o \in Openers : held[o] # NoAddr => target[o] \in Paths
        BY <1>1 DEF HeldInUse, OpenerTypeOK
      <3> QED
        BY <2>1, <3>1, <3>2, <3>3 DEF SessionHoldsClaim
    <2>6. ProbeInv'
      <3>1. \A r \in Refreshers, q \in Paths : Probes(r, q)' => Probes(r, q)
        BY <2>1, <2>2 DEF Probes, Issued
      <3> QED
        BY <2>1, <3>1 DEF ProbeInv
    <2> QED
      BY <2>3, <2>4, <2>5, <2>6
  <1>3. CASE Unplug(p)
    <2>1. /\ attached' = [attached EXCEPT ![p] = NoAddr]
          /\ claim' = [claim EXCEPT ![p] = "free"]
          /\ UNCHANGED <<lastAddr, devices, openerVars, refreshVars>>
      BY <1>3 DEF Unplug
    <2>2. Issued' /\ HeldInUse'
      BY <1>1, <2>1, MaxAddrAssumption DEF Issued, HeldInUse, UsbTypeOK, AddrOrNone
    <2>3. SessionHoldsClaim'
      BY <1>1, <2>1
         DEF SessionHoldsClaim, Works, UsbTypeOK, OpenerTypeOK, HeldInUse
    <2>4. ProbeInv'
      <3>1. \A r \in Refreshers, q \in Paths :
              Probes(r, q)' => Probes(r, q) /\ q # p
        BY <1>1, <2>1 DEF Probes, ProbeInv, UsbTypeOK
      <3> QED
        BY <1>1, <2>1, <3>1 DEF ProbeInv, UsbTypeOK
    <2> QED
      BY <2>2, <2>3, <2>4
  <1>4. CASE TransportExit(p)
    <2>1. /\ claim[p] = "session" /\ devices[p] # attached[p]
          /\ \A o \in Openers : held[o] # attached[p]
          /\ claim' = [claim EXCEPT ![p] = "free"]
          /\ UNCHANGED <<attached, lastAddr, devices, openerVars, refreshVars>>
      BY <1>4 DEF TransportExit
    <2>2. Issued' /\ HeldInUse'
      BY <2>1 DEF Issued, HeldInUse
    <2>3. SessionHoldsClaim'
      BY <1>1, <2>1 DEF SessionHoldsClaim, Works, UsbTypeOK
    <2>4. ProbeInv'
      BY <1>1, <2>1 DEF ProbeInv, Probes, UsbTypeOK
    <2> QED
      BY <2>2, <2>3, <2>4
  <1> QED
    BY <1>2, <1>3, <1>4

LEMMA ClaimOpener ==
  ASSUME TypeInv, ClaimInv, NEW o \in Openers,
         OpenerStep(o) \/ \E p \in Paths : Call(o, p)
  PROVE  ClaimInv'
  <1> USE DEF ClaimInv, OpenerGoes, NoAddr
  <1>1. /\ UsbTypeOK /\ OpenerTypeOK
        /\ devices \in [Paths -> AddrOrNone]
    BY DEF TypeInv, TypeOK, TableTypeOK
  <1>2. UNCHANGED <<attached, lastAddr, refreshVars>>
    BY DEF OpenerStep, Call, FirstFind, Recheck, LastFind, FindSession, Lookup,
           TakeSlot, Connect, Insert, ReleaseSlot, Return, usbVars
  <1>3. CASE Connect(o) /\ opc'[o] = "insert"
    <2>1. /\ attached[target[o]] = snap[o] /\ claim[target[o]] = "free"
          /\ claim' = [claim EXCEPT ![target[o]] = "session"]
          /\ held' = [held EXCEPT ![o] = snap[o]]
          /\ opc' = [opc EXCEPT ![o] = "insert"]
          /\ opc[o] = "connect"
          /\ UNCHANGED <<devices, target>>
      BY <1>1, <1>3 DEF Connect, OpenerTypeOK
    <2>2. target[o] \in Paths
      BY <1>1, <2>1 DEF OpenerTypeOK
    <2>3. Issued'
      BY <1>1, <1>2, <2>1, <2>2 DEF Issued, OpenerTypeOK, refreshVars
    <2>4. HeldInUse'
      BY <1>1, <2>1 DEF HeldInUse, OpenerTypeOK
    <2>5. SessionHoldsClaim'
      BY <1>1, <1>2, <2>1, <2>2
         DEF SessionHoldsClaim, Works, OpenerTypeOK, UsbTypeOK
    <2>6. ProbeInv'
      BY <1>1, <1>2, <2>1, <2>2 DEF ProbeInv, Probes, UsbTypeOK, refreshVars
    <2> QED
      BY <2>3, <2>4, <2>5, <2>6
  <1>4. CASE UNCHANGED claim
    <2>1. ProbeInv'
      BY <1>2, <1>4 DEF ProbeInv, Probes, refreshVars
    <2>2. CASE UNCHANGED <<devices, held, target>>
      <3>1. held[o] # NoAddr => opc'[o] \in {"insert", "using"}
        BY <1>1, <2>2
           DEF HeldInUse, OpenerTypeOK, OpenerStep, Call, FirstFind, Recheck,
               LastFind, FindSession, Lookup, TakeSlot, Connect, Insert,
               ReleaseSlot, Return
      <3>2. \A q \in Openers \ {o} : opc'[q] = opc[q]
        BY <1>1
           DEF OpenerTypeOK, OpenerStep, Call, FirstFind, Recheck, LastFind,
               FindSession, Lookup, TakeSlot, Connect, Insert, ReleaseSlot,
               Return
      <3>3. HeldInUse'
        BY <2>2, <3>1, <3>2 DEF HeldInUse
      <3>4. Issued' /\ SessionHoldsClaim'
        BY <1>2, <1>4, <2>2 DEF Issued, SessionHoldsClaim, Works, refreshVars
      <3> QED
        BY <2>1, <3>3, <3>4
    <2>3. ASSUME NEW p \in Paths, Call(o, p) PROVE ClaimInv'
      <3>1. /\ opc[o] = "idle" /\ opc' = [opc EXCEPT ![o] = "find"]
            /\ target' = [target EXCEPT ![o] = p]
            /\ UNCHANGED <<devices, held>>
        BY <2>3 DEF Call
      <3>2. held[o] = NoAddr
        BY <3>1 DEF HeldInUse
      <3>3. Issued' /\ HeldInUse'
        BY <1>1, <1>2, <3>1, <3>2
           DEF Issued, HeldInUse, OpenerTypeOK, refreshVars
      <3>4. SessionHoldsClaim'
        BY <1>1, <1>2, <1>4, <3>1, <3>2
           DEF SessionHoldsClaim, Works, OpenerTypeOK
      <3> QED
        BY <2>1, <3>3, <3>4
    <2>4. ASSUME NEW from, FindSession(o, from, "lookup")
                   \/ FindSession(o, from, "slot") \/ FindSession(o, from, "idle"),
                 held' # held, from # "idle"
          PROVE  ClaimInv'
      <3>1. /\ opc' = [opc EXCEPT ![o] = "using"]
            /\ held' = [held EXCEPT ![o] = devices[target[o]]]
            /\ UNCHANGED <<devices, target>>
            /\ opc[o] # "idle"
        BY <2>4 DEF FindSession
      <3>2. target[o] \in Paths
        BY <1>1, <3>1 DEF OpenerTypeOK
      <3>3. Issued' /\ HeldInUse'
        BY <1>1, <1>2, <3>1, <3>2
           DEF Issued, HeldInUse, OpenerTypeOK, refreshVars
      <3>4. SessionHoldsClaim'
        BY <1>1, <1>2, <1>4, <3>1, <3>2
           DEF SessionHoldsClaim, Works, OpenerTypeOK
      <3> QED
        BY <2>1, <3>3, <3>4
    <2>5. CASE Insert(o)
      <3>1. /\ devices' = [devices EXCEPT ![target[o]] = held[o]]
            /\ held' = [held EXCEPT ![o] = NoAddr]
            /\ opc[o] = "insert" /\ opc' = [opc EXCEPT ![o] = "release"]
            /\ UNCHANGED target
        BY <2>5 DEF Insert
      <3>2. target[o] \in Paths
        BY <1>1, <3>1 DEF OpenerTypeOK
      <3>3. Issued' /\ HeldInUse'
        BY <1>1, <1>2, <3>1, <3>2, MaxAddrAssumption
           DEF Issued, HeldInUse, OpenerTypeOK, UsbTypeOK, AddrOrNone,
               refreshVars
      <3>4. SessionHoldsClaim'
        BY <1>1, <1>2, <1>4, <3>1, <3>2
           DEF SessionHoldsClaim, Works, OpenerTypeOK
      <3> QED
        BY <2>1, <3>3, <3>4
    <2>6. CASE Return(o)
      <3>1. /\ held' = [held EXCEPT ![o] = NoAddr]
            /\ opc' = [opc EXCEPT ![o] = "idle"]
            /\ UNCHANGED <<devices, target>>
        BY <2>6 DEF Return
      <3>2. Issued' /\ HeldInUse'
        BY <1>1, <1>2, <3>1, MaxAddrAssumption
           DEF Issued, HeldInUse, OpenerTypeOK, UsbTypeOK, AddrOrNone,
               refreshVars
      <3>3. SessionHoldsClaim'
        BY <1>1, <1>2, <1>4, <3>1 DEF SessionHoldsClaim, Works, OpenerTypeOK
      <3> QED
        BY <2>1, <3>2, <3>3
    <2>7. CASE Lookup(o) \/ TakeSlot(o) \/ Connect(o) \/ ReleaseSlot(o)
      <3>1. UNCHANGED <<devices, held, target>>
        BY <1>1, <1>4, <2>7
           DEF Lookup, TakeSlot, Connect, ReleaseSlot, OpenerTypeOK, UsbTypeOK
      <3> QED
        BY <2>2, <3>1
    <2>8. CASE FirstFind(o) \/ Recheck(o) \/ LastFind(o)
      <3>1. UNCHANGED <<devices, target>>
        BY <2>8 DEF FirstFind, Recheck, LastFind, FindSession
      <3> QED
        BY <2>2, <2>4, <2>8, <3>1 DEF FirstFind, Recheck, LastFind
    <2> QED
      BY <2>3, <2>5, <2>6, <2>7, <2>8 DEF OpenerStep
  <1>5. claim' = claim \/ (Connect(o) /\ opc'[o] = "insert")
    BY <1>1
       DEF OpenerTypeOK, OpenerStep, Call, FirstFind, Recheck, LastFind,
           FindSession, Lookup, TakeSlot, Connect, Insert, ReleaseSlot, Return,
           usbVars
  <1> QED
    BY <1>3, <1>4, <1>5

LEMMA ClaimProbe ==
  ASSUME TypeInv, ClaimInv, NEW r \in Refreshers,
         \/ Scan(r) \/ ScanFails(r) \/ CloseProbe(r)
         \/ \E p \in Paths : Identify(r, p) \/ OpenProbe(r, p)
  PROVE  ClaimInv'
  <1> USE DEF ClaimInv, RefreshGoes, NoAddr
  <1>1. UsbTypeOK /\ RefreshTypeOK
    BY DEF TypeInv, TypeOK
  <1>2. UNCHANGED <<attached, lastAddr, devices, openerVars>>
    BY DEF Scan, ScanFails, CloseProbe, Identify, OpenProbe, usbVars
  <1>3. HeldInUse'
    BY <1>2 DEF HeldInUse, openerVars
  <1>4. CASE Scan(r) \/ ScanFails(r)
    <2>1. /\ scan' = [scan EXCEPT ![r] = scan'[r]] /\ scan'[r] \in
               {attached, [p \in Paths |-> NoAddr]}
          /\ todo' = [todo EXCEPT ![r] = todo'[r]]
          /\ todo'[r] \subseteq Paths
          /\ \A p \in todo'[r] : scan'[r][p] # NoAddr
          /\ \A q \in Refreshers \ {r} : rpc'[q] = rpc[q]
          /\ rpc'[r] # "probing"
          /\ UNCHANGED <<cur, claim>>
      BY <1>1, <1>4 DEF Scan, ScanFails, RefreshTypeOK, usbVars, UsbTypeOK
    <2>2. Issued'
      <3>1. \A p \in Paths : scan'[r][p] <= lastAddr
        BY <1>1, <2>1 DEF Issued, UsbTypeOK, AddrOrNone
      <3>2. \A q \in Refreshers \ {r} : scan'[q] = scan[q]
        BY <1>1, <2>1 DEF RefreshTypeOK
      <3> QED
        BY <1>2, <3>1, <3>2 DEF Issued, openerVars
    <2>3. SessionHoldsClaim'
      BY <1>2, <2>1 DEF SessionHoldsClaim, Works, openerVars
    <2>4. ProbeInv'
      <3>1. \A q \in Refreshers \ {r} :
              scan'[q] = scan[q] /\ todo'[q] = todo[q] /\ rpc'[q] = rpc[q]
        BY <1>1, <2>1 DEF RefreshTypeOK
      <3>2. \A q \in Refreshers, p \in Paths :
              Probes(q, p)' => Probes(q, p) /\ q # r
        BY <1>2, <2>1, <3>1 DEF Probes
      <3> QED
        BY <2>1, <3>1, <3>2 DEF ProbeInv
    <2> QED
      BY <1>3, <2>2, <2>3, <2>4
  <1>5. CASE \E p \in Paths : Identify(r, p)
    <2>1. /\ \A q \in Refreshers : todo'[q] \subseteq todo[q]
          /\ UNCHANGED <<claim, rpc, scan, cur>>
      BY <1>1, <1>5 DEF Identify, RefreshTypeOK, usbVars
    <2>2. Issued' /\ SessionHoldsClaim'
      BY <1>2, <2>1 DEF Issued, SessionHoldsClaim, Works, openerVars
    <2>3. ProbeInv'
      BY <1>2, <2>1 DEF ProbeInv, Probes
    <2> QED
      BY <1>3, <2>2, <2>3
  <1>6. ASSUME NEW p \in Paths, OpenProbe(r, p) PROVE ClaimInv'
    <2>1. /\ todo' = [todo EXCEPT ![r] = @ \ {p}] /\ p \in todo[r]
          /\ rpc[r] = "probe" /\ UNCHANGED scan
      BY <1>6 DEF OpenProbe
    <2>2. Issued'
      BY <1>2, <2>1 DEF Issued, openerVars
    <2>3. scan[r][p] # NoAddr
      BY <2>1 DEF ProbeInv
    <2>4. CASE UNCHANGED <<claim, cur, rpc>>
      <3>1. SessionHoldsClaim' /\ ProbeInv'
        BY <1>1, <1>2, <2>1, <2>4
           DEF SessionHoldsClaim, Works, ProbeInv, Probes, RefreshTypeOK,
               openerVars
      <3> QED
        BY <1>3, <2>2, <3>1
    <2>5. CASE /\ attached[p] = scan[r][p] /\ claim[p] = "free"
               /\ claim' = [claim EXCEPT ![p] = "probe"]
               /\ cur' = [cur EXCEPT ![r] = p]
               /\ rpc' = [rpc EXCEPT ![r] = "probing"]
      <3>1. SessionHoldsClaim'
        BY <1>1, <1>2, <2>5 DEF SessionHoldsClaim, Works, UsbTypeOK, openerVars
      <3>2. \A q \in Refreshers, x \in Paths :
              Probes(q, x)' => Probes(q, x) \/ (q = r /\ x = p)
        BY <1>1, <1>2, <2>1, <2>5 DEF Probes, RefreshTypeOK
      <3>3. \A q \in Refreshers : ~Probes(q, p)
        BY <2>5 DEF ProbeInv
      <3>4. \A q \in Refreshers : q # r => rpc'[q] = rpc[q] /\ cur'[q] = cur[q]
                                         /\ todo'[q] = todo[q]
        BY <1>1, <2>1, <2>5 DEF RefreshTypeOK
      <3>5. cur'[r] = p /\ todo'[r] \subseteq todo[r]
        BY <1>1, <2>1, <2>5 DEF RefreshTypeOK
      <3>6. ProbeInv'
        <4>1. \A q \in Refreshers : rpc'[q] \in {"probe", "probing"} =>
                 \A x \in todo'[q] : scan'[q][x] # NoAddr
          BY <2>1, <3>4, <3>5 DEF ProbeInv
        <4>2. \A q \in Refreshers :
                rpc'[q] = "probing" => scan'[q][cur'[q]] # NoAddr
          BY <2>1, <2>3, <3>4, <3>5 DEF ProbeInv
        <4>3. \A q \in Refreshers, x \in Paths :
                Probes(q, x)' => claim'[x] = "probe"
          BY <1>1, <2>5, <3>2, <3>3 DEF ProbeInv, UsbTypeOK
        <4>4. \A q1, q2 \in Refreshers, x \in Paths :
                Probes(q1, x)' /\ Probes(q2, x)' => q1 = q2
          BY <3>2, <3>3 DEF ProbeInv
        <4> QED
          BY <4>1, <4>2, <4>3, <4>4 DEF ProbeInv
      <3> QED
        BY <1>3, <2>2, <3>1, <3>6
    <2> QED
      BY <1>6, <2>4, <2>5 DEF OpenProbe
  <1>7. CASE CloseProbe(r)
    <2>1. /\ rpc[r] = "probing" /\ rpc' = [rpc EXCEPT ![r] = "probe"]
          /\ UNCHANGED <<scan, todo, cur>>
          /\ \/ Probes(r, cur[r]) /\ claim' = [claim EXCEPT ![cur[r]] = "free"]
             \/ UNCHANGED claim
      BY <1>7 DEF CloseProbe, Probes
    <2>2. cur[r] \in Paths
      BY <1>1, <2>1 DEF RefreshTypeOK
    <2>3. Issued'
      BY <1>2, <2>1 DEF Issued, openerVars
    <2>4. SessionHoldsClaim'
      <3>1. \A p \in Paths : claim[p] = "session" => claim'[p] = "session"
        BY <1>1, <2>1, <2>2 DEF ProbeInv, UsbTypeOK
      <3>2. \A o \in Openers : held[o] # NoAddr => target[o] \in Paths
        BY DEF HeldInUse, OpenerTypeOK, TypeInv, TypeOK
      <3> QED
        BY <1>2, <3>1, <3>2 DEF SessionHoldsClaim, Works, openerVars
    <2>5. ProbeInv'
      <3>1. \A q \in Refreshers, x \in Paths : Probes(q, x)' => Probes(q, x) /\ q # r
        BY <1>1, <1>2, <2>1 DEF Probes, RefreshTypeOK
      <3>2. \A q \in Refreshers : rpc'[q] \in {"probe", "probing"}
                                   => rpc[q] \in {"probe", "probing"}
        BY <1>1, <2>1 DEF RefreshTypeOK
      <3>3. \A q \in Refreshers : rpc'[q] = "probing" => rpc[q] = "probing"
        BY <1>1, <2>1 DEF RefreshTypeOK
      <3>4. \A q \in Refreshers, x \in Paths :
              Probes(q, x)' => claim'[x] = "probe"
        BY <1>1, <2>1, <2>2, <3>1 DEF ProbeInv, UsbTypeOK
      <3> QED
        BY <2>1, <3>1, <3>2, <3>3, <3>4 DEF ProbeInv
    <2> QED
      BY <1>3, <2>3, <2>4, <2>5
  <1> QED
    BY <1>4, <1>5, <1>6, <1>7

\* The other steps neither probe nor open: they may forget sessions.
LEMMA ClaimFrame ==
  ASSUME TypeInv, ClaimInv, UNCHANGED <<usbVars, openerVars>>,
         \A p \in Paths : devices'[p] \in {devices[p], NoAddr},
         \A r \in Refreshers :
           \/ rpc'[r] \notin {"probe", "probing"}
           \/ UNCHANGED <<rpc[r], scan[r], cur[r], todo[r]>>,
         \A r \in Refreshers : scan'[r] \in {scan[r], [p \in Paths |-> NoAddr]}
  PROVE  ClaimInv'
  <1> USE DEF ClaimInv, NoAddr, usbVars, openerVars
  <1>1. UsbTypeOK /\ RefreshTypeOK
    BY DEF TypeInv, TypeOK
  <1>2. HeldInUse'
    BY DEF HeldInUse
  <1>3. Issued'
    BY <1>1 DEF Issued, UsbTypeOK, AddrOrNone
  <1>4. SessionHoldsClaim'
    BY DEF SessionHoldsClaim, Works
  <1>5. ProbeInv'
    BY DEF ProbeInv, Probes
  <1> QED
    BY <1>2, <1>3, <1>4, <1>5

LEMMA ClaimRefresh ==
  ASSUME TypeInv, ClaimInv, NEW r \in Refreshers, RefreshStep(r)
  PROVE  ClaimInv'
  <1>1. RefreshTypeOK /\ TableTypeOK
    BY DEF TypeInv, TypeOK
  <1>2. CASE \/ Scan(r) \/ ScanFails(r) \/ CloseProbe(r)
             \/ \E p \in Paths : Identify(r, p) \/ OpenProbe(r, p)
    BY <1>2, ClaimProbe
  <1>3. CASE \/ ScanDone(r) \/ DropMoved(r) \/ Notify(r) \/ Sweep(r)
             \/ NotifyOffline(r) \/ RefreshDone(r)
             \/ \E p \in Paths : UpsertFound(r, p) \/ DropOffline(r, p)
    <2>1. UNCHANGED <<usbVars, openerVars>>
      BY <1>3 DEF ScanDone, DropMoved, Notify, Sweep, NotifyOffline,
                  RefreshDone, UpsertFound, DropOffline
    <2>2. \A p \in Paths : devices'[p] \in {devices[p], NoAddr}
      BY <1>1, <1>3
         DEF TableTypeOK, ScanDone, DropMoved, Notify, Sweep, NotifyOffline,
             RefreshDone, UpsertFound, DropOffline
    <2>3. \A q \in Refreshers :
            scan'[q] \in {scan[q], [p \in Paths |-> NoAddr]}
      BY <1>1, <1>3
         DEF RefreshTypeOK, ScanDone, DropMoved, Notify, Sweep, NotifyOffline,
             RefreshDone, UpsertFound, DropOffline
    <2>4. rpc'[r] \notin {"probe", "probing"}
      BY <1>1, <1>3
         DEF RefreshTypeOK, ScanDone, DropMoved, Notify, Sweep, NotifyOffline,
             RefreshDone, UpsertFound, DropOffline, RefreshGoes
    <2>5. \A q \in Refreshers \ {r} :
            UNCHANGED <<rpc[q], scan[q], cur[q], todo[q]>>
      BY <1>1, <1>3
         DEF RefreshTypeOK, ScanDone, DropMoved, Notify, Sweep, NotifyOffline,
             RefreshDone, UpsertFound, DropOffline, RefreshGoes
    <2> QED
      BY <2>1, <2>2, <2>3, <2>4, <2>5, ClaimFrame
  <1> QED
    BY <1>2, <1>3 DEF RefreshStep

LEMMA ClaimOther ==
  ASSUME TypeInv, ClaimInv,
         \/ Tick \/ QueueFromTick \/ ShutdownStep
         \/ \E w \in Watchers : Watch(w) \/ WatchStep(w) \/ Unwatch(w)
  PROVE  ClaimInv'
  <1>1. RefreshTypeOK /\ TableTypeOK
    BY DEF TypeInv, TypeOK
  <1>2. CASE Tick \/ QueueFromTick \/ ShutdownStep
    <2>1. UNCHANGED <<usbVars, openerVars, scan, todo, cur>>
      BY <1>2 DEF Tick, QueueFromTick, ShutdownStep, Drain, ClearRegistry,
                  ClearOpening, refreshVars
    <2>2. \A p \in Paths : devices'[p] \in {devices[p], NoAddr}
      BY <1>2 DEF Tick, QueueFromTick, ShutdownStep, Drain, ClearRegistry,
                  ClearOpening
    <2>3. \A r \in Refreshers : rpc'[r] = rpc[r] \/ rpc'[r] = "scan"
      BY <1>1, <1>2 DEF RefreshTypeOK, Tick, QueueFromTick, ShutdownStep, Drain,
                        ClearRegistry, ClearOpening, refreshVars
    <2> QED
      BY <2>1, <2>2, <2>3, ClaimFrame
  <1>3. ASSUME NEW w \in Watchers, Watch(w) \/ WatchStep(w) \/ Unwatch(w)
        PROVE  ClaimInv'
    <2>1. UNCHANGED <<usbVars, openerVars, devices, scan, todo, cur>>
      BY <1>3 DEF WatchStep, Watch, QueueFromWatch, Resnapshot, Subscribe,
                  Deliver, Unwatch, refreshVars
    <2>2. \A r \in Refreshers :
            rpc'[r] = rpc[r] \/ rpc'[r] \notin {"probe", "probing"}
      BY <1>1, <1>3 DEF RefreshTypeOK, WatchStep, Watch, QueueFromWatch,
                        Resnapshot, Subscribe, Deliver, Unwatch, refreshVars,
                        RefreshGoes
    <2> QED
      BY <2>1, <2>2, ClaimFrame
  <1> QED
    BY <1>2, <1>3

\* The claims, the sessions, the clones of them that RPCs hold and the
\* firmware probes stay consistent.
LEMMA ClaimInvariant == Spec => []ClaimInv
  <1>1. TypeInv /\ ClaimInv /\ [Next]_vars => ClaimInv'
    <2> SUFFICES ASSUME TypeInv, ClaimInv, [Next]_vars PROVE ClaimInv'
      OBVIOUS
    <2>1. CASE UsbStep
      BY <2>1, ClaimUsb
    <2>2. CASE \E o \in Openers : OpenerStep(o) \/ \E p \in Paths : Call(o, p)
      BY <2>2, ClaimOpener
    <2>3. CASE \E r \in Refreshers : RefreshStep(r)
      BY <2>3, ClaimRefresh
    <2>4. CASE \/ Tick \/ QueueFromTick \/ ShutdownStep
               \/ \E w \in Watchers : Watch(w) \/ WatchStep(w) \/ Unwatch(w)
      BY <2>4, ClaimOther
    <2>5. CASE UNCHANGED vars
      BY <2>5 DEF vars, usbVars, openerVars, refreshVars, ClaimInv, Issued,
                  HeldInUse, SessionHoldsClaim, ProbeInv, Probes, Works
    <2> QED
      BY <2>1, <2>2, <2>3, <2>4, <2>5 DEF Next
  <1> QED
    BY <1>1, ClaimInit, TypeInvariant, PTL DEF Spec

\* A working session, in the devices table or in the hands of an RPC, always
\* holds IF2 of its keyboard, whatever refreshes and openers do meanwhile.
THEOREM SessionsHoldTheirClaim == Spec => []SessionHoldsClaim
  <1>1. ClaimInv => SessionHoldsClaim
    BY DEF ClaimInv
  <1> QED
    BY <1>1, ClaimInvariant, PTL

-----------------------------------------------------------------------------
(* No working session is replaced.                                         *)

\* Only connect_registration installs a session; anything else that touches
\* the devices table empties an entry.
LEMMA OthersOnlyDrop ==
  ASSUME TypeInv, [Next]_vars, ~ \E o \in Openers : Insert(o)
  PROVE  \A p \in Paths : devices'[p] \in {devices[p], NoAddr}
  <1>1. TableTypeOK
    BY DEF TypeInv, TypeOK
  <1>2. CASE UsbStep
    BY <1>2 DEF UsbStep, Plug, Unplug, TransportExit
  <1>3. CASE \E o \in Openers : OpenerStep(o) \/ \E p \in Paths : Call(o, p)
    BY <1>3 DEF OpenerStep, Call, FirstFind, Recheck, LastFind, FindSession,
                Lookup, TakeSlot, Connect, ReleaseSlot, Return
  <1>4. CASE Tick \/ QueueFromTick \/ ShutdownStep
    BY <1>4 DEF Tick, QueueFromTick, ShutdownStep, Drain, ClearRegistry,
                ClearOpening
  <1>5. ASSUME NEW r \in Refreshers, RefreshStep(r)
        PROVE  \A p \in Paths : devices'[p] \in {devices[p], NoAddr}
    <2>1. CASE \/ Scan(r) \/ ScanFails(r) \/ CloseProbe(r) \/ ScanDone(r)
               \/ \E p \in Paths : Identify(r, p) \/ OpenProbe(r, p)
      BY <2>1 DEF Scan, ScanFails, Identify, OpenProbe, CloseProbe, ScanDone
    <2>2. CASE \/ DropMoved(r) \/ Sweep(r)
               \/ \E p \in Paths : UpsertFound(r, p) \/ DropOffline(r, p)
      BY <1>1, <2>2
         DEF TableTypeOK, UpsertFound, DropMoved, Sweep, DropOffline
    <2>3. CASE Notify(r) \/ NotifyOffline(r) \/ RefreshDone(r)
      BY <2>3 DEF Notify, NotifyOffline, RefreshDone
    <2> QED
      BY <1>5, <2>1, <2>2, <2>3 DEF RefreshStep
  <1>6. CASE \E w \in Watchers : Watch(w) \/ WatchStep(w) \/ Unwatch(w)
    BY <1>6 DEF WatchStep, Watch, QueueFromWatch, Resnapshot, Subscribe,
                Deliver, Unwatch
  <1>7. CASE UNCHANGED vars
    BY <1>7 DEF vars
  <1> QED
    BY <1>2, <1>3, <1>4, <1>5, <1>6, <1>7 DEF Next

LEMMA RefreshKeepsBus ==
  ASSUME NEW r \in Refreshers, RefreshStep(r)
  PROVE  UNCHANGED <<attached, lastAddr>>
  <1>1. CASE \/ Scan(r) \/ ScanFails(r) \/ CloseProbe(r) \/ ScanDone(r)
             \/ \E p \in Paths : Identify(r, p) \/ OpenProbe(r, p)
    BY <1>1 DEF Scan, ScanFails, Identify, OpenProbe, CloseProbe, ScanDone,
                usbVars
  <1>2. CASE \/ DropMoved(r) \/ Sweep(r)
             \/ \E p \in Paths : UpsertFound(r, p) \/ DropOffline(r, p)
    BY <1>2 DEF UpsertFound, DropMoved, Sweep, DropOffline, usbVars
  <1>3. CASE Notify(r) \/ NotifyOffline(r) \/ RefreshDone(r)
    BY <1>3 DEF Notify, NotifyOffline, RefreshDone, usbVars
  <1> QED
    BY <1>1, <1>2, <1>3 DEF RefreshStep

ReplaceInv == TypeInv /\ SlotInv /\ ClaimInv /\ NothingToReplace

LEMMA NothingStep == ReplaceInv /\ [Next]_vars => NothingToReplace'
  <1> SUFFICES ASSUME ReplaceInv, [Next]_vars, phase' # "down",
                      NEW o \in Openers, opc'[o] = "insert",
                      Works(target[o], devices[target[o]])'
               PROVE  FALSE
    BY DEF NothingToReplace
  <1> USE DEF ReplaceInv
  <1>1. OpenerTypeOK /\ UsbTypeOK /\ TableTypeOK
    BY DEF TypeInv, TypeOK
  <1>2. CASE \E q \in Openers : OpenerStep(q) \/ \E p \in Paths : Call(q, p)
    <2>1. UNCHANGED <<attached, phase>>
      BY <1>2 DEF OpenerStep, Call, FirstFind, Recheck, LastFind, FindSession,
                  Lookup, TakeSlot, Connect, Insert, ReleaseSlot, Return,
                  usbVars, guardVars
    <2>2. CASE opc[o] = "insert"
      <3>1. target'[o] = target[o] /\ target[o] \in Paths
        BY <1>1, <1>2, <2>2
           DEF OpenerTypeOK, OpenerStep, Call, FirstFind, Recheck, LastFind,
               FindSession, Lookup, TakeSlot, Connect, Insert, ReleaseSlot,
               Return
      <3>2. devices'[target[o]] \notin {devices[target[o]], NoAddr}
        BY <2>1, <2>2, <3>1 DEF Works, NothingToReplace
      <3>3. PICK q \in Openers : Insert(q)
        BY <3>1, <3>2, OthersOnlyDrop
      <3>4. opc[q] = "insert" /\ target[q] = target[o]
        BY <1>1, <3>1, <3>2, <3>3 DEF Insert, TableTypeOK
      <3>5. q = o
        BY <2>1, <2>2, <3>4 DEF SlotInv, OneOpenerPerPath, InSlot
      <3> QED
        BY <1>1, <3>3, <3>5 DEF Insert, OpenerGoes, OpenerTypeOK
    <2>3. CASE opc[o] # "insert"
      <3>1. Connect(o)
        BY <1>1, <1>2, <2>3
           DEF OpenerTypeOK, OpenerGoes, OpenerStep, Call, FirstFind, Recheck,
               LastFind, FindSession, Lookup, TakeSlot, Connect, Insert,
               ReleaseSlot, Return
      <3>2. /\ claim[target[o]] = "free" /\ target[o] \in Paths
            /\ UNCHANGED <<devices, target>>
        BY <1>1, <3>1 DEF Connect, OpenerGoes, OpenerTypeOK
      <3> QED
        BY <2>1, <3>2 DEF Works, ClaimInv, SessionHoldsClaim
    <2> QED
      BY <2>2, <2>3
  <1>3. CASE \/ UsbStep \/ Tick \/ QueueFromTick \/ ShutdownStep
             \/ \E r \in Refreshers : RefreshStep(r)
             \/ \E w \in Watchers : Watch(w) \/ WatchStep(w) \/ Unwatch(w)
             \/ UNCHANGED vars
    <2>1. UNCHANGED openerVars /\ phase # "down"
      BY <1>1, <1>3, GuardFrame
         DEF ShutdownStep, Drain, ClearRegistry, ClearOpening, vars, guardVars
    <2>2. target[o] \in Paths /\ opc[o] = "insert" /\ target'[o] = target[o]
      BY <1>1, <2>1 DEF OpenerTypeOK, openerVars
    <2>3. ~ \E q \in Openers : Insert(q)
      BY <1>1, <2>1 DEF Insert, OpenerGoes, OpenerTypeOK, openerVars
    <2>4. devices'[target[o]] = devices[target[o]]
      BY <2>2, <2>3, OthersOnlyDrop DEF Works
    <2>5. attached'[target[o]] # attached[target[o]]
      BY <2>1, <2>2, <2>4 DEF Works, NothingToReplace
    <2>6. PICK p \in Paths : Plug(p) \/ Unplug(p)
      <3>1. CASE UsbStep
        BY <2>5, <3>1 DEF UsbStep, TransportExit
      <3>2. CASE Tick \/ QueueFromTick \/ ShutdownStep \/ UNCHANGED vars
        BY <2>5, <3>2 DEF Tick, QueueFromTick, ShutdownStep, Drain,
                          ClearRegistry, ClearOpening, usbVars, vars
      <3>3. ASSUME NEW r \in Refreshers, RefreshStep(r) PROVE FALSE
        BY <2>5, <3>3, RefreshKeepsBus DEF usbVars
      <3>4. CASE \E w \in Watchers : Watch(w) \/ WatchStep(w) \/ Unwatch(w)
        BY <2>5, <3>4 DEF WatchStep, Watch, QueueFromWatch, Resnapshot,
                          Subscribe, Deliver, Unwatch, usbVars
      <3> QED
        BY <1>3, <3>1, <3>2, <3>3, <3>4
    <2>7. attached'[target[o]] \in {NoAddr, lastAddr + 1}
      BY <1>1, <2>2, <2>5, <2>6 DEF Plug, Unplug, UsbTypeOK
    <2>8. devices[target[o]] <= lastAddr
      BY <2>2 DEF ClaimInv, Issued
    <2> QED
      BY <1>1, <2>2, <2>4, <2>7, <2>8, MaxAddrAssumption
         DEF Works, UsbTypeOK, TableTypeOK, AddrOrNone
  <1> QED
    BY <1>2, <1>3 DEF Next

\* connect_registration never replaces a session that works, in any number of
\* concurrent opens, refreshes and replugs.
THEOREM WorkingSessionsStay == Spec => WorkingSessionNotReplaced
  <1> DEFINE Kept ==
        \A p \in Paths :
          Works(p, devices[p]) /\ devices'[p] # devices[p] /\ phase # "down"
            => devices'[p] = NoAddr
  <1>1. ReplaceInv /\ [Next]_vars => [Kept]_devices
    <2> SUFFICES ASSUME ReplaceInv, [Next]_vars, phase # "down",
                        NEW p \in Paths, Works(p, devices[p]),
                        devices'[p] \notin {devices[p], NoAddr}
                 PROVE  FALSE
      OBVIOUS
    <2>1. PICK o \in Openers : Insert(o)
      BY OthersOnlyDrop DEF ReplaceInv
    <2>2. opc[o] = "insert" /\ target[o] = p
      BY <2>1 DEF Insert, ReplaceInv, TypeInv, TypeOK, TableTypeOK
    <2> QED
      BY <2>2 DEF ReplaceInv, NothingToReplace
  <1>2. Init => NothingToReplace
    BY DEF Init, NothingToReplace
  <1>3. Init => SlotInv
    BY DEF Init, SlotInv, SlotHeld, OneOpenerPerPath, InSlot
  <1> QED
    BY <1>1, <1>2, <1>3, SlotStep, NothingStep, TypeInvariant, ClaimInvariant, PTL
       DEF Spec, ReplaceInv, WorkingSessionNotReplaced

-----------------------------------------------------------------------------
(* Refreshes that run alone.  Two refreshes in flight at the same time have *)
(* met, and are marked until they end; so one that is not marked has the    *)
(* registry to itself.                                                      *)

Alone(r) == InFlight(r) /\ r \notin overlapped
LoneInv == \A r, q \in Refreshers : Alone(r) /\ InFlight(q) => q = r

\* What a step does to the refreshes: nothing,
Bystander ==
  /\ UNCHANGED <<scan, found, todo, cur, overlapped>>
  /\ \A q \in Refreshers : rpc'[q] # rpc[q] => {rpc[q], rpc'[q]} \cap RefreshPcs = {}
  /\ UNCHANGED registry \/ (registry' = EmptyRegistry /\ Clearing)

\* start one of them,
Starts(x) ==
  /\ UNCHANGED <<attached, lastAddr, registry, scan, found, todo, cur, phase>>
  /\ rpc'[x] = "scan"
  /\ Meet(x)
  /\ \A q \in Refreshers \ {x} :
       rpc'[q] # rpc[q] => {rpc[q], rpc'[q]} \cap RefreshPcs = {}

\* or carry one of them on.
CarriesOn(r) ==
  /\ UNCHANGED <<attached, lastAddr, phase>>
  /\ InFlight(r)
  /\ \A q \in Refreshers \ {r} : /\ rpc'[q] = rpc[q] /\ scan'[q] = scan[q]
                                 /\ found'[q] = found[q] /\ todo'[q] = todo[q]
                                 /\ cur'[q] = cur[q]
  /\ \/ UNCHANGED overlapped
     \/ overlapped' = overlapped \ {r} /\ rpc'[r] \notin RefreshPcs

LEMMA CarryOn ==
  ASSUME TypeInv, NEW r \in Refreshers, RefreshStep(r)
  PROVE  CarriesOn(r)
  <1>1. RefreshTypeOK
    BY DEF TypeInv, TypeOK
  <1>2. CASE \/ Scan(r) \/ ScanFails(r) \/ CloseProbe(r) \/ ScanDone(r)
             \/ \E p \in Paths : Identify(r, p) \/ OpenProbe(r, p)
    BY <1>1, <1>2
       DEF CarriesOn, RefreshTypeOK, Scan, ScanFails, CloseProbe, ScanDone, Identify,
           OpenProbe, RefreshGoes, InFlight, RefreshPcs, usbVars, guardVars
  <1>3. CASE \/ DropMoved(r) \/ Sweep(r)
             \/ \E p \in Paths : UpsertFound(r, p) \/ DropOffline(r, p)
    BY <1>1, <1>3
       DEF CarriesOn, RefreshTypeOK, UpsertFound, DropMoved, Sweep, DropOffline,
           RefreshGoes, InFlight, RefreshPcs, usbVars, guardVars
  <1>4. CASE Notify(r) \/ NotifyOffline(r)
    BY <1>1, <1>4
       DEF CarriesOn, RefreshTypeOK, Notify, NotifyOffline,
           RefreshGoes, InFlight, RefreshPcs, usbVars, guardVars
  <1>5. CASE RefreshDone(r)
    BY <1>1, <1>5
       DEF CarriesOn, RefreshTypeOK, RefreshDone, RefreshGoes, InFlight, RefreshPcs, usbVars
  <1> QED
    BY <1>2, <1>3, <1>4, <1>5 DEF RefreshStep

LEMMA RefreshesStep ==
  ASSUME TypeInv, [Next]_vars
  PROVE  \/ Bystander
         \/ \E x \in Refreshers : Starts(x)
         \/ \E r \in Refreshers : RefreshStep(r) /\ CarriesOn(r)
  <1>1. RefreshTypeOK
    BY DEF TypeInv, TypeOK
  <1>2. CASE UsbStep
    BY <1>2 DEF UsbStep, Plug, Unplug, TransportExit, refreshVars, Bystander
  <1>3. CASE \E o \in Openers : OpenerStep(o) \/ \E p \in Paths : Call(o, p)
    BY <1>3 DEF OpenerStep, Call, FirstFind, Recheck, LastFind, FindSession, Lookup,
                TakeSlot, Connect, Insert, ReleaseSlot, Return, refreshVars, Bystander
  <1>4. CASE Tick
    BY <1>4 DEF Tick, refreshVars, Bystander
  <1>5. CASE QueueFromTick
    BY <1>1, <1>5
       DEF QueueFromTick, QueueRefresh, Bystander, Starts, RefreshTypeOK, Refreshers, usbVars
  <1>6. ASSUME NEW r \in Refreshers, RefreshStep(r) PROVE CarriesOn(r)
    BY <1>6, CarryOn
  <1>7. ASSUME NEW w \in Watchers, Watch(w)
        PROVE  Bystander \/ \E x \in Refreshers : Starts(x)
    BY <1>1, <1>7
       DEF Watch, RefreshGoes, RefreshTypeOK, Refreshers, Bystander, Starts, RefreshPcs,
           usbVars, guardVars
  <1>8. ASSUME NEW w \in Watchers, QueueFromWatch(w)
        PROVE  Bystander \/ \E x \in Refreshers : Starts(x)
    <2>1. /\ rpc[w] = "queue" /\ w \in Refreshers \ {Background} /\ Background \in Refreshers
          /\ rpc' = [rpc EXCEPT ![w] = "subscribe",
                                ![Background] = IF refreshing THEN @ ELSE "scan"]
      BY <1>8, RefresherAssumption DEF QueueFromWatch, Refreshers
    <2>2. /\ rpc'[w] = "subscribe"
          /\ rpc'[Background] = IF refreshing THEN rpc[Background] ELSE "scan"
          /\ \A q \in Refreshers \ {w, Background} : rpc'[q] = rpc[q]
      BY <1>1, <2>1 DEF RefreshTypeOK
    <2> QED
      BY <1>8, <2>1, <2>2
         DEF QueueFromWatch, QueueRefresh, Bystander, Starts, RefreshPcs, usbVars
  <1>9. ASSUME NEW w \in Watchers, Resnapshot(w) \/ Subscribe(w) \/ Deliver(w) \/ Unwatch(w)
        PROVE  Bystander
    BY <1>1, <1>9
       DEF Resnapshot, Subscribe, Deliver, Unwatch, Streaming, RefreshGoes, RefreshTypeOK,
           Refreshers, Bystander, RefreshPcs, refreshVars
  <1>10. CASE ShutdownStep
    BY <1>10 DEF ShutdownStep, Drain, ClearRegistry, ClearOpening, refreshVars, Bystander,
                 Clearing
  <1>11. CASE UNCHANGED vars
    BY <1>11 DEF vars, refreshVars, Bystander
  <1> QED
    BY <1>2, <1>3, <1>4, <1>5, <1>6, <1>7, <1>8, <1>9, <1>10, <1>11 DEF Next, WatchStep

\* A refresh that runs alone after a step has done so before it, or has just
\* started.
LEMMA LoneStep ==
  ASSUME TypeInv, LoneInv, [Next]_vars
  PROVE  /\ LoneInv'
         /\ \A r \in Refreshers : Alone(r)' => Alone(r) \/ rpc'[r] = "scan"
  <1>1. CASE Bystander
    BY <1>1 DEF Bystander, LoneInv, Alone, InFlight
  <1>2. CASE \E x \in Refreshers : Starts(x)
    BY <1>2 DEF Starts, Meet, LoneInv, Alone, InFlight, RefreshPcs
  <1>3. CASE \E r \in Refreshers : CarriesOn(r)
    BY <1>3 DEF CarriesOn, LoneInv, Alone, InFlight
  <1> QED
    BY <1>1, <1>2, <1>3, RefreshesStep

-----------------------------------------------------------------------------
(* The registry does not go back.  A refresh that runs alone records what   *)
(* it has scanned, and that is not older than what the registry said at the *)
(* time (Newest: a keyboard in a port is the last one the port has had);    *)
(* nobody else has written to the registry since.                           *)

Newest ==
  \A p \in Paths : attached[p] # NoAddr =>
    /\ registry.byPath[p].addr <= attached[p]
    /\ \A r \in Refreshers : scan[r][p] <= attached[p] /\ found[r][p] <= attached[p]

Fresh(r, p) ==
  /\ found[r][p] \in {NoAddr, scan[r][p]}
  /\ scan[r][p] # NoAddr => registry.byPath[p].addr <= scan[r][p]

FreshInv ==
  \A r \in Refreshers : Alone(r) /\ rpc[r] # "scan" => \A p \in Paths : Fresh(r, p)

HistoryInv == TypeInv /\ IndexInv /\ LoneInv /\ Newest /\ FreshInv

\* Every address that is spoken of is one of those handed out.
LEMMA SeenAddrs ==
  ASSUME TypeInv, IndexInv, NEW p \in Paths
  PROVE  /\ attached[p] \in Nat /\ registry.byPath[p].addr \in Nat /\ lastAddr \in Nat
         /\ registry.byPath[p].addr <= lastAddr
         /\ \A r \in Refreshers :
              /\ scan[r][p] \in Nat /\ found[r][p] \in Nat
              /\ scan[r][p] <= lastAddr /\ found[r][p] <= lastAddr
  <1>1. /\ attached[p] \in AddrOrNone /\ registry.byPath[p].addr \in AddrOrNone
        /\ lastAddr \in AddrOrNone
        /\ \A r \in Refreshers : scan[r][p] \in AddrOrNone /\ found[r][p] \in AddrOrNone
    BY DEF TypeInv, TypeOK, UsbTypeOK, TableTypeOK, RefreshTypeOK, RegistryValue,
           Registration, AddrOrNone
  <1>2. \A a \in AddrOrNone : a \in Nat /\ (SeenAt(a, p) => a <= lastAddr)
    <2> SUFFICES ASSUME NEW a \in AddrOrNone
                 PROVE  a \in Nat /\ (SeenAt(a, p) => a <= lastAddr)
      OBVIOUS
    <2>1. a \in Nat /\ (a = 0 \/ a \in Addrs)
      BY MaxAddrAssumption DEF AddrOrNone, Addrs
    <2>2. 0 <= lastAddr
      BY <1>1, MaxAddrAssumption DEF AddrOrNone
    <2> QED
      BY <2>1, <2>2 DEF IndexInv, OnePort
  <1> QED
    BY <1>1, <1>2 DEF SeenAt

\* A refresh that carries on changes what the registry says of a path's address
\* by an upsert of it only.
LEMMA AddrStep ==
  ASSUME TypeInv, NEW r \in Refreshers, RefreshStep(r), NEW p \in Paths
  PROVE  \/ registry'.byPath[p].addr = registry.byPath[p].addr
         \/ /\ UpsertFound(r, p)
            /\ registry'.byPath[p].addr = found[r][p] /\ found[r][p] # NoAddr
            /\ UNCHANGED <<scan, found>>
  <1>1. registry \in RegistryValue /\ RefreshTypeOK
    BY DEF TypeInv, TypeOK, TableTypeOK
  <1>2. CASE Sweep(r)
    BY <1>1, <1>2, SweepFields DEF Sweep
  <1>3. ASSUME NEW q \in Paths, UpsertFound(r, q)
        PROVE  registry'.byPath[p].addr = IF p = q THEN found[r][q] ELSE registry.byPath[p].addr
    <2>1. found[r][q] \in Addrs
      BY <1>1, <1>3, MaxAddrAssumption
         DEF UpsertFound, TypeInv, UpsertsFound, RefreshTypeOK, AddrOrNone, Addrs, NoAddr
    <2>2. PICK a \in Addrs : a = found[r][q]
      BY <2>1
    <2>3. registry' = Upsert(registry, q, a)
      BY <1>3, <2>2 DEF UpsertFound
    <2>4. Upsert(registry, q, a).byPath[p]
            = IF p = q THEN [addr |-> a, online |-> TRUE] ELSE registry.byPath[p]
      BY <1>1, UpsertPath
    <2> QED
      BY <2>2, <2>3, <2>4
  <1>4. ASSUME UpsertFound(r, p)
        PROVE  found[r][p] # NoAddr /\ UNCHANGED <<scan, found>>
    BY <1>4 DEF UpsertFound, TypeInv, UpsertsFound
  <1>5. CASE \/ Scan(r) \/ ScanFails(r) \/ CloseProbe(r) \/ ScanDone(r)
             \/ \E q \in Paths : Identify(r, q) \/ OpenProbe(r, q)
             \/ DropMoved(r) \/ Notify(r) \/ NotifyOffline(r) \/ RefreshDone(r)
             \/ \E q \in Paths : DropOffline(r, q)
    BY <1>5 DEF Scan, ScanFails, CloseProbe, ScanDone, Identify, OpenProbe, DropMoved,
                Notify, NotifyOffline, RefreshDone, DropOffline
  <1> QED
    BY <1>2, <1>3, <1>4, <1>5 DEF RefreshStep

\* What a refresh has scanned comes from the bus, what it has found from what
\* it has scanned.
LEMMA LocalsStep ==
  ASSUME TypeInv, NEW r \in Refreshers, RefreshStep(r), NEW p \in Paths
  PROVE  \/ Scan(r) /\ scan'[r][p] = attached[p] /\ found'[r][p] = NoAddr
         \/ (ScanFails(r) \/ RefreshDone(r)) /\ scan'[r][p] = NoAddr /\ found'[r][p] = NoAddr
         \/ /\ rpc[r] # "scan" /\ scan'[r][p] = scan[r][p]
            /\ found'[r][p] \in {found[r][p], scan[r][p]}
  <1>1. RefreshTypeOK
    BY DEF TypeInv, TypeOK
  <1>2. CASE Scan(r) \/ ScanFails(r) \/ RefreshDone(r)
    BY <1>1, <1>2 DEF Scan, ScanFails, RefreshDone, RefreshTypeOK
  <1>3. CASE CloseProbe(r) \/ \E q \in Paths : Identify(r, q) \/ OpenProbe(r, q)
    <2>1. UNCHANGED scan /\ rpc[r] # "scan"
      BY <1>3 DEF CloseProbe, Identify, OpenProbe
    <2>2. found'[r][p] \in {found[r][p], scan[r][p]}
      BY <1>1, <1>3 DEF CloseProbe, Identify, OpenProbe, RefreshTypeOK
    <2> QED
      BY <2>1, <2>2
  <1>4. CASE \/ ScanDone(r) \/ DropMoved(r) \/ Notify(r) \/ NotifyOffline(r) \/ Sweep(r)
             \/ \E q \in Paths : DropOffline(r, q) \/ UpsertFound(r, q)
    BY <1>4 DEF ScanDone, DropMoved, Notify, NotifyOffline, Sweep, DropOffline, UpsertFound
  <1> QED
    BY <1>2, <1>3, <1>4 DEF RefreshStep

\* The bus hands out higher and higher addresses, and no refresh step touches it.
LEMMA BusMoves ==
  ASSUME TypeInv, [Next]_vars, NEW p \in Paths
  PROVE  \/ UNCHANGED <<attached, registry>>
         \/ Bystander /\ attached'[p] \in {attached[p], NoAddr, lastAddr + 1} /\ UNCHANGED registry
         \/ Bystander /\ UNCHANGED attached /\ registry' = EmptyRegistry /\ Clearing
         \/ \E r \in Refreshers : RefreshStep(r) /\ CarriesOn(r)
  <1>1. CASE UsbStep
    <2>1. attached'[p] \in {attached[p], NoAddr, lastAddr + 1} /\ UNCHANGED registry
      BY <1>1 DEF TypeInv, TypeOK, UsbTypeOK, UsbStep, Plug, Unplug, TransportExit
    <2>2. Bystander
      BY <1>1 DEF UsbStep, Plug, Unplug, TransportExit, refreshVars, Bystander
    <2> QED
      BY <2>1, <2>2
  <1>2. CASE ShutdownStep
    BY <1>2 DEF ShutdownStep, Drain, ClearRegistry, ClearOpening, refreshVars, Bystander,
                Clearing, usbVars
  <1>3. CASE \E o \in Openers : OpenerStep(o) \/ \E q \in Paths : Call(o, q)
    BY <1>3 DEF OpenerStep, Call, FirstFind, Recheck, LastFind, FindSession, Lookup,
                TakeSlot, Connect, Insert, ReleaseSlot, Return, usbVars
  <1>4. CASE Tick \/ QueueFromTick
    BY <1>4 DEF Tick, QueueFromTick, usbVars
  <1>5. CASE \E r \in Refreshers : RefreshStep(r)
    BY <1>5, CarryOn
  <1>6. CASE \E w \in Watchers : Watch(w) \/ WatchStep(w) \/ Unwatch(w)
    BY <1>6 DEF Watch, WatchStep, QueueFromWatch, Resnapshot, Subscribe, Deliver, Unwatch,
                usbVars
  <1>7. CASE UNCHANGED vars
    BY <1>7 DEF vars, usbVars
  <1> QED
    BY <1>1, <1>2, <1>3, <1>4, <1>5, <1>6, <1>7 DEF Next

LEMMA NewestStep == TypeInv /\ IndexInv /\ Newest /\ [Next]_vars => Newest'
  <1> SUFFICES ASSUME TypeInv, IndexInv, Newest, [Next]_vars, NEW p \in Paths,
                      attached'[p] # NoAddr
               PROVE  /\ registry'.byPath[p].addr <= attached'[p]
                      /\ \A r \in Refreshers : /\ scan'[r][p] <= attached'[p]
                                               /\ found'[r][p] <= attached'[p]
    BY DEF Newest
  <1>1. /\ attached[p] \in Nat /\ registry.byPath[p].addr \in Nat /\ lastAddr \in Nat
        /\ registry.byPath[p].addr <= lastAddr
        /\ \A r \in Refreshers :
             /\ scan[r][p] \in Nat /\ found[r][p] \in Nat
             /\ scan[r][p] <= lastAddr /\ found[r][p] <= lastAddr
    BY SeenAddrs
  <1>2. attached[p] # NoAddr =>
          /\ registry.byPath[p].addr <= attached[p]
          /\ \A r \in Refreshers : scan[r][p] <= attached[p] /\ found[r][p] <= attached[p]
    BY DEF Newest
  <1>3. EmptyRegistry.byPath[p].addr = 0 /\ NoAddr = 0
    BY DEF EmptyRegistry, Unregistered, NoAddr
  <1>4. CASE Bystander /\ attached'[p] \in {attached[p], NoAddr, lastAddr + 1}
                       /\ UNCHANGED registry
    BY <1>1, <1>2, <1>4 DEF Bystander
  <1>5. CASE Bystander /\ UNCHANGED attached /\ registry' = EmptyRegistry
    BY <1>1, <1>2, <1>3, <1>5 DEF Bystander
  <1>6. ASSUME NEW r \in Refreshers, RefreshStep(r), CarriesOn(r)
        PROVE  /\ registry'.byPath[p].addr <= attached'[p]
               /\ \A q \in Refreshers : /\ scan'[q][p] <= attached'[p]
                                        /\ found'[q][p] <= attached'[p]
    <2>1. attached' = attached /\ attached[p] # NoAddr
      BY <1>6 DEF CarriesOn
    <2>2. registry'.byPath[p].addr \in {registry.byPath[p].addr, found[r][p]}
      BY <1>6, AddrStep
    <2>3. scan'[r][p] \in {attached[p], NoAddr, scan[r][p]}
          /\ found'[r][p] \in {NoAddr, found[r][p], scan[r][p]}
      BY <1>6, LocalsStep
    <2>4. \A q \in Refreshers \ {r} : scan'[q] = scan[q] /\ found'[q] = found[q]
      BY <1>6 DEF CarriesOn
    <2>5. scan'[r][p] <= attached[p] /\ found'[r][p] <= attached[p]
      BY <1>1, <1>2, <1>3, <2>1, <2>3
    <2>6. registry'.byPath[p].addr <= attached[p]
      BY <1>1, <1>2, <2>1, <2>2
    <2> QED
      BY <1>2, <2>1, <2>4, <2>5, <2>6
  <1>7. CASE UNCHANGED <<attached, registry>> /\ ~(\E r \in Refreshers : RefreshStep(r))
    <2>1. UNCHANGED <<scan, found>>
      BY <1>7, RefreshesStep DEF Bystander, Starts
    <2> QED
      BY <1>2, <1>7, <2>1
  <1> QED
    BY <1>4, <1>5, <1>6, <1>7, BusMoves, CarryOn

LEMMA FreshStep == HistoryInv /\ [Next]_vars => FreshInv'
  <1> SUFFICES ASSUME HistoryInv, [Next]_vars, NEW r \in Refreshers, Alone(r)',
                      rpc'[r] # "scan", NEW p \in Paths
               PROVE  /\ found'[r][p] \in {NoAddr, scan'[r][p]}
                      /\ scan'[r][p] # NoAddr => registry'.byPath[p].addr <= scan'[r][p]
    BY DEF FreshInv, Fresh
  <1>1. TypeInv /\ IndexInv /\ LoneInv /\ Newest /\ FreshInv
    BY DEF HistoryInv
  <1>2. Alone(r)
    BY <1>1, LoneStep
  <1>3. /\ attached[p] \in Nat /\ registry.byPath[p].addr \in Nat
        /\ scan[r][p] \in Nat /\ found[r][p] \in Nat
    BY <1>1, SeenAddrs
  <1>4. rpc[r] # "scan" => /\ found[r][p] \in {NoAddr, scan[r][p]}
                           /\ scan[r][p] # NoAddr => registry.byPath[p].addr <= scan[r][p]
    BY <1>1, <1>2 DEF FreshInv, Fresh
  <1>5. EmptyRegistry.byPath[p].addr = 0
    BY DEF EmptyRegistry, Unregistered, NoAddr
  <1>6. CASE Bystander
    <2>1. rpc[r] # "scan"
      BY <1>2, <1>6 DEF Bystander, Alone, InFlight
    <2>2. scan' = scan /\ found' = found
          /\ (registry' = registry \/ registry' = EmptyRegistry)
      BY <1>6 DEF Bystander
    <2> QED
      BY <1>3, <1>4, <1>5, <2>1, <2>2
  <1>7. CASE \E x \in Refreshers : Starts(x)
    <2>1. PICK x \in Refreshers : Starts(x)
      BY <1>7
    <2>2. x # r
      BY <2>1 DEF Starts
    <2>3. r \in overlapped'
      BY <1>2, <2>1, <2>2 DEF Starts, Meet, Alone
    <2> QED
      BY <2>3 DEF Alone
  <1>8. ASSUME NEW q \in Refreshers, RefreshStep(q), CarriesOn(q)
        PROVE  /\ found'[r][p] \in {NoAddr, scan'[r][p]}
               /\ scan'[r][p] # NoAddr => registry'.byPath[p].addr <= scan'[r][p]
    <2>1. q = r
      BY <1>1, <1>2, <1>8 DEF LoneInv, CarriesOn
    <2>2. CASE Scan(r) /\ scan'[r][p] = attached[p] /\ found'[r][p] = NoAddr
      <3>1. registry' = registry
        BY <2>2 DEF Scan
      <3> QED
        BY <1>1, <2>2, <3>1 DEF Newest
    <2>3. CASE scan'[r][p] = NoAddr /\ found'[r][p] = NoAddr
      BY <2>3
    <2>4. CASE /\ rpc[r] # "scan" /\ scan'[r][p] = scan[r][p]
               /\ found'[r][p] \in {found[r][p], scan[r][p]}
      <3>1. \/ registry'.byPath[p].addr = registry.byPath[p].addr
            \/ registry'.byPath[p].addr = found[r][p] /\ found[r][p] # NoAddr
        BY <1>1, <1>8, <2>1, AddrStep
      <3> QED
        BY <1>3, <1>4, <2>4, <3>1
    <2> QED
      BY <1>1, <1>8, <2>1, <2>2, <2>3, <2>4, LocalsStep
  <1> QED
    BY <1>1, <1>6, <1>7, <1>8, RefreshesStep

LEMMA HistoryInvariant == Spec => []HistoryInv
  <1>1. Init => LoneInv /\ Newest /\ FreshInv
    BY DEF Init, LoneInv, Newest, FreshInv, Alone, InFlight, RefreshPcs
  <1>2. /\ LoneInv /\ Newest /\ FreshInv /\ [Next]_vars
        /\ TypeInv /\ IndexInv /\ TypeInv' /\ IndexInv'
        => (LoneInv /\ Newest /\ FreshInv)'
    BY LoneStep, NewestStep, FreshStep DEF HistoryInv
  <1>3. (TypeInv /\ IndexInv) /\ (LoneInv /\ Newest /\ FreshInv) => HistoryInv
    BY DEF HistoryInv
  <1> QED
    BY <1>1, <1>2, <1>3, TypeInvariant, IndexInvariant, PTL DEF Spec

LEMMA NoWayBack ==
  ASSUME HistoryInv, [Next]_vars, NEW p \in Paths,
         registry'.byPath[p].addr < registry.byPath[p].addr, ~Clearing
  PROVE  \E r \in overlapped : UpsertBy(r)
  <1>1. TypeInv /\ IndexInv /\ FreshInv
    BY DEF HistoryInv
  <1>2. registry.byPath[p].addr \in Nat
    BY <1>1, SeenAddrs
  <1>3. registry' # registry
    BY <1>2
  <1>4. PICK r \in Refreshers : RefreshStep(r) /\ CarriesOn(r)
    BY <1>1, <1>3, RefreshesStep DEF Bystander, Starts
  <1>5. /\ UpsertFound(r, p)
        /\ registry'.byPath[p].addr = found[r][p] /\ found[r][p] # NoAddr
    BY <1>1, <1>2, <1>4, AddrStep
  <1>6. rpc[r] = "upsert"
    BY <1>5 DEF UpsertFound
  <1>7. r \in overlapped
    <2> SUFFICES ASSUME r \notin overlapped PROVE FALSE
      OBVIOUS
    <2>1. Fresh(r, p)
      BY <1>1, <1>6 DEF FreshInv, Alone, InFlight, RefreshPcs
    <2>2. found[r][p] \in Nat /\ registry.byPath[p].addr <= found[r][p]
      BY <1>1, <1>5, <2>1, SeenAddrs DEF Fresh
    <2> QED
      BY <1>2, <1>5, <2>2
  <1>8. RefreshTypeOK
    BY <1>1 DEF TypeInv, TypeOK
  <1>9. UpsertBy(r)
    BY <1>5, <1>8 DEF UpsertFound, UpsertBy, SweepBy, RefreshGoes, RefreshTypeOK
  <1> QED
    BY <1>7, <1>9

\* However refreshes, streams, sessions and the cable interleave, the registry
\* replaces the address of a device by an older one only through a refresh that
\* ran while another one did (refresh_discovery_snapshot).
THEOREM RegistryKeepsUp == Spec => RegistryDoesNotGoBack
  <1>1. HistoryInv /\ [Next]_vars
          => [\A p \in Paths :
                registry'.byPath[p].addr < registry.byPath[p].addr /\ ~Clearing
                => \E r \in overlapped : UpsertBy(r)]_registry
    BY NoWayBack
  <1> QED
    BY <1>1, HistoryInvariant, PTL DEF Spec, RegistryDoesNotGoBack

-----------------------------------------------------------------------------
(* Only gone devices go off line.  This is promised to the keyboards that   *)
(* are identified by their descriptors, when the bus can always be          *)
(* enumerated: then a refresh has found all of them that it has scanned     *)
(* when it comes to the sweep, and one that runs alone has scanned every    *)
(* device that is where the registry says.                                  *)

\* What refresh r has found is what it has scanned; of the keyboards that need
\* not be asked, all that it has come to.
ProbesPath(r, p) ==
  /\ rpc[r] \in {"probe", "probing", "upsert", "drop", "notify"}
       => found[r][p] \in {NoAddr, scan[r][p]}
  /\ \/ rpc[r] \in {"probe", "probing"} /\ p \notin todo[r]
     \/ rpc[r] \in {"upsert", "drop", "notify"}
     => scan[r][p] \in Ambiguous \/ found[r][p] = scan[r][p]

ProbesAll == \A r \in Refreshers, p \in Paths : ProbesPath(r, p)

ScansAll ==
  \A r \in Refreshers, p \in Paths :
    /\ Alone(r) /\ rpc[r] # "scan"
    /\ attached[p] # NoAddr /\ attached[p] = registry.byPath[p].addr
    => scan[r][p] = attached[p]

OnlineSomewhere == \A p \in Paths : Online(registry, p) => Known(registry, p)

CompleteInv == ProbesAll /\ ScansAll /\ OnlineSomewhere

LEMMA ProbesStep ==
  ASSUME ~FlakyProbes, TypeInv, ProbesAll, [Next]_vars
  PROVE  ProbesAll'
  <1>1. RefreshTypeOK
    BY DEF TypeInv, TypeOK
  <1>2. CASE Bystander
    BY <1>2 DEF Bystander, ProbesAll, ProbesPath, RefreshPcs
  <1>3. CASE \E x \in Refreshers : Starts(x)
    <2>1. PICK x \in Refreshers : Starts(x)
      BY <1>3
    <2>2. /\ rpc'[x] = "scan" /\ UNCHANGED <<scan, found, todo>>
          /\ \A q \in Refreshers \ {x} :
               rpc'[q] # rpc[q] => rpc'[q] \notin RefreshPcs
      BY <2>1 DEF Starts
    <2>3. ASSUME NEW q \in Refreshers, rpc'[q] \in RefreshPcs
          PROVE  rpc'[q] = "scan" \/ rpc'[q] = rpc[q]
      BY <2>2, <2>3
    <2> QED
      BY <2>2, <2>3 DEF ProbesAll, ProbesPath, RefreshPcs
  <1>4. ASSUME NEW r \in Refreshers, RefreshStep(r), CarriesOn(r)
        PROVE  ProbesAll'
    <2> SUFFICES ASSUME NEW p \in Paths PROVE ProbesPath(r, p)'
      BY <1>4 DEF ProbesAll, ProbesPath, CarriesOn
    <2>1. ProbesPath(r, p)
      BY DEF ProbesAll
    <2>2. CASE Scan(r)
      BY <1>1, <2>2 DEF Scan, RefreshGoes, RefreshTypeOK, ProbesPath
    <2>3. CASE ScanFails(r)
      BY <2>3 DEF ScanFails
    <2>4. ASSUME NEW q \in Paths, Identify(r, q) PROVE ProbesPath(r, p)'
      BY <1>1, <2>1, <2>4 DEF Identify, ProbesPath, RefreshTypeOK
    <2>5. ASSUME NEW q \in Paths, OpenProbe(r, q) PROVE ProbesPath(r, p)'
      <3>1. /\ rpc[r] = "probe" /\ scan[r][q] \in Ambiguous /\ UNCHANGED <<scan, found>>
            /\ rpc'[r] \in {"probe", "probing"} /\ todo'[r] = todo[r] \ {q}
        BY <1>1, <2>5 DEF OpenProbe, RefreshGoes, RefreshTypeOK
      <3> QED
        BY <2>1, <3>1 DEF ProbesPath
    <2>6. CASE CloseProbe(r)
      <3>1. /\ rpc[r] = "probing" /\ rpc'[r] = "probe" /\ UNCHANGED <<scan, todo>>
            /\ found'[r][p] \in {found[r][p], scan[r][p]}
        BY <1>1, <2>6 DEF CloseProbe, RefreshGoes, RefreshTypeOK
      <3> QED
        BY <2>1, <3>1 DEF ProbesPath
    <2>7. CASE ScanDone(r)
      BY <1>1, <2>1, <2>7 DEF ScanDone, RefreshGoes, ProbesPath, RefreshTypeOK
    <2>8. CASE \/ \E q \in Paths : UpsertFound(r, q) \/ DropOffline(r, q)
               \/ DropMoved(r) \/ Notify(r) \/ NotifyOffline(r) \/ Sweep(r)
      <3>1. /\ UNCHANGED <<scan, found>>
            /\ \/ rpc[r] \in {"upsert", "drop", "notify"}
               \/ rpc'[r] \notin {"probe", "probing", "upsert", "drop", "notify"}
        <4>1. CASE (\E q \in Paths : UpsertFound(r, q)) \/ DropMoved(r) \/ Notify(r) \/ Sweep(r)
          BY <4>1 DEF UpsertFound, DropMoved, Notify, Sweep
        <4>2. CASE (\E q \in Paths : DropOffline(r, q)) \/ NotifyOffline(r)
          BY <1>1, <4>2 DEF DropOffline, NotifyOffline, RefreshGoes, RefreshTypeOK
        <4> QED
          BY <2>8, <4>1, <4>2
      <3>2. rpc'[r] \notin {"probe", "probing"}
        BY <1>1, <2>8 DEF UpsertFound, DropOffline, DropMoved, Notify, NotifyOffline, Sweep,
                          RefreshGoes, RefreshTypeOK
      <3> QED
        BY <2>1, <3>1, <3>2 DEF ProbesPath
    <2>9. CASE RefreshDone(r)
      <3>1. rpc'[r] \notin RefreshPcs
        BY <1>1, <2>9 DEF RefreshDone, RefreshGoes, RefreshTypeOK, RefreshPcs
      <3> QED
        BY <3>1 DEF ProbesPath, RefreshPcs
    <2> QED
      BY <1>4, <2>2, <2>3, <2>4, <2>5, <2>6, <2>7, <2>8, <2>9 DEF RefreshStep
  <1> QED
    BY <1>2, <1>3, <1>4, RefreshesStep

LEMMA ScansStep ==
  ASSUME ~FlakyProbes, HistoryInv, ProbesAll, ScansAll, [Next]_vars
  PROVE  ScansAll'
  <1> SUFFICES ASSUME NEW r \in Refreshers, NEW p \in Paths, Alone(r)', rpc'[r] # "scan",
                      attached'[p] # NoAddr, attached'[p] = registry'.byPath[p].addr
               PROVE  scan'[r][p] = attached'[p]
    BY DEF ScansAll
  <1>1. TypeInv /\ IndexInv /\ LoneInv
    BY DEF HistoryInv
  <1>2. Alone(r)
    BY <1>1, LoneStep
  <1>3. /\ registry.byPath[p].addr \in Nat /\ lastAddr \in Nat
        /\ registry.byPath[p].addr <= lastAddr
    BY <1>1, SeenAddrs
  <1>4. EmptyRegistry.byPath[p].addr = NoAddr
    BY DEF EmptyRegistry, Unregistered
  <1>5. rpc[r] # "scan" /\ attached[p] # NoAddr /\ attached[p] = registry.byPath[p].addr
          => scan[r][p] = attached[p]
    BY <1>2 DEF ScansAll
  <1>6. CASE Bystander
    <2>1. rpc[r] # "scan" /\ scan' = scan
      BY <1>2, <1>6 DEF Bystander, Alone, InFlight
    <2>2. \/ UNCHANGED <<attached, registry>>
          \/ attached'[p] \in {attached[p], NoAddr, lastAddr + 1} /\ UNCHANGED registry
          \/ registry' = EmptyRegistry
          \/ \E q \in Refreshers : RefreshStep(q) /\ CarriesOn(q)
      BY <1>1, BusMoves
    <2>3. CASE \E q \in Refreshers : RefreshStep(q) /\ CarriesOn(q)
      <3>1. UNCHANGED attached /\ (registry' = registry \/ registry' = EmptyRegistry)
        BY <1>6, <2>3 DEF CarriesOn, Bystander
      <3> QED
        BY <1>4, <1>5, <2>1, <3>1
    <2>4. CASE attached'[p] \in {attached[p], NoAddr, lastAddr + 1} /\ UNCHANGED registry
      BY <1>3, <1>5, <2>1, <2>4
    <2> QED
      BY <1>4, <1>5, <2>1, <2>2, <2>3, <2>4
  <1>7. CASE \E x \in Refreshers : Starts(x)
    <2>1. PICK x \in Refreshers : Starts(x)
      BY <1>7
    <2>2. x # r
      BY <2>1 DEF Starts
    <2>3. r \in overlapped'
      BY <1>2, <2>1, <2>2 DEF Starts, Meet, Alone
    <2> QED
      BY <2>3 DEF Alone
  <1>8. ASSUME NEW q \in Refreshers, RefreshStep(q), CarriesOn(q)
        PROVE  scan'[r][p] = attached'[p]
    <2>1. q = r /\ attached' = attached
      BY <1>1, <1>2, <1>8 DEF LoneInv, CarriesOn
    <2>2. CASE Scan(r) /\ scan'[r][p] = attached[p]
      BY <2>1, <2>2
    <2>3. CASE ScanFails(r) \/ RefreshDone(r)
      <3>1. RefreshTypeOK
        BY <1>1 DEF TypeInv, TypeOK
      <3>2. rpc'[r] \notin RefreshPcs
        BY <2>3, <3>1 DEF ScanFails, RefreshDone, RefreshGoes, RefreshTypeOK, RefreshPcs
      <3> QED
        BY <3>2 DEF Alone, InFlight
    <2>4. CASE rpc[r] # "scan" /\ scan'[r][p] = scan[r][p]
      <3>1. CASE registry'.byPath[p].addr = registry.byPath[p].addr
        BY <1>5, <2>1, <2>4, <3>1
      <3>2. CASE UpsertFound(r, p) /\ registry'.byPath[p].addr = found[r][p]
        <4>1. found[r][p] # NoAddr
          BY <1>1, <3>2 DEF UpsertFound, TypeInv, UpsertsFound
        <4>2. found[r][p] = scan[r][p]
          BY <3>2, <4>1 DEF UpsertFound, ProbesAll, ProbesPath
        <4> QED
          BY <2>4, <3>2, <4>2
      <3> QED
        BY <1>1, <1>8, <2>1, <3>1, <3>2, AddrStep
    <2> QED
      BY <1>1, <1>8, <2>1, <2>2, <2>3, <2>4, LocalsStep
  <1> QED
    BY <1>1, <1>6, <1>7, <1>8, RefreshesStep

\* A refresh step that takes a device off line is a sweep that has not found it.
LEMMA OnlineStep ==
  ASSUME TypeInv, NEW r \in Refreshers, RefreshStep(r), NEW p \in Paths
  PROVE  /\ Online(registry, p) /\ ~Online(registry', p) => Sweep(r) /\ found[r][p] = NoAddr
         /\ ~Online(registry, p) /\ Online(registry', p)
              => UpsertFound(r, p) /\ Known(registry', p)
         /\ Known(registry, p) => Known(registry', p)
  <1>1. registry \in RegistryValue /\ RefreshTypeOK
    BY DEF TypeInv, TypeOK, TableTypeOK
  <1>2. CASE Sweep(r)
    <2>1. registry' = MarkOfflineMissing(registry, {q \in Paths : found[r][q] # NoAddr})
      BY <1>2 DEF Sweep
    <2>2. /\ registry'.byPath[p].addr = registry.byPath[p].addr
          /\ registry'.byPath[p].online
               <=> registry.byPath[p].online /\ p \in {q \in Paths : found[r][q] # NoAddr}
      BY <1>1, <2>1, SweepFields
    <2> QED
      BY <1>2, <2>2 DEF Online, Known
  <1>3. ASSUME NEW q \in Paths, UpsertFound(r, q)
        PROVE  /\ Online(registry, p) => Online(registry', p)
               /\ ~Online(registry, p) /\ Online(registry', p) => q = p /\ Known(registry', p)
               /\ Known(registry, p) => Known(registry', p)
    <2>1. found[r][q] \in Addrs
      BY <1>1, <1>3, MaxAddrAssumption
         DEF UpsertFound, TypeInv, UpsertsFound, RefreshTypeOK, AddrOrNone, Addrs, NoAddr
    <2>2. PICK a \in Addrs : a = found[r][q]
      BY <2>1
    <2>3. registry' = Upsert(registry, q, a)
      BY <1>3, <2>2 DEF UpsertFound
    <2>4. Upsert(registry, q, a).byPath[p]
            = IF p = q THEN [addr |-> a, online |-> TRUE] ELSE registry.byPath[p]
      BY <1>1, UpsertPath
    <2>5. a # NoAddr
      BY MaxAddrAssumption DEF Addrs, NoAddr
    <2> QED
      BY <2>3, <2>4, <2>5 DEF Online, Known
  <1>4. CASE \/ Scan(r) \/ ScanFails(r) \/ CloseProbe(r) \/ ScanDone(r)
             \/ \E q \in Paths : Identify(r, q) \/ OpenProbe(r, q)
             \/ DropMoved(r) \/ Notify(r) \/ NotifyOffline(r) \/ RefreshDone(r)
             \/ \E q \in Paths : DropOffline(r, q)
    BY <1>4 DEF Scan, ScanFails, CloseProbe, ScanDone, Identify, OpenProbe, DropMoved,
                Notify, NotifyOffline, RefreshDone, DropOffline
  <1> QED
    BY <1>2, <1>3, <1>4 DEF RefreshStep

LEMMA OnlineKnown ==
  ASSUME TypeInv, OnlineSomewhere, [Next]_vars
  PROVE  OnlineSomewhere'
  <1> SUFFICES ASSUME NEW p \in Paths, Online(registry', p)
               PROVE  Known(registry', p)
    BY DEF OnlineSomewhere, Online, Known
  <1>1. CASE registry' = registry
    BY <1>1 DEF OnlineSomewhere
  <1>2. CASE registry' = EmptyRegistry
    BY <1>2 DEF EmptyRegistry, Unregistered, Online
  <1>3. CASE \E r \in Refreshers : RefreshStep(r)
    BY <1>3, OnlineStep DEF OnlineSomewhere
  <1> QED
    BY <1>1, <1>2, <1>3, RefreshesStep DEF Bystander, Starts

LEMMA GoneOnly ==
  ASSUME HistoryInv, CompleteInv, [Next]_vars, NEW p \in Paths,
         Online(registry, p), ~Online(registry', p), ~Clearing,
         registry.byPath[p].addr = attached[p], attached[p] \notin Ambiguous
  PROVE  \E r \in overlapped : SweepBy(r)
  <1>1. TypeInv /\ RefreshTypeOK
    BY DEF HistoryInv, TypeInv, TypeOK
  <1>2. PICK r \in Refreshers : RefreshStep(r)
    BY <1>1, RefreshesStep DEF Bystander, Starts
  <1>3. Sweep(r) /\ found[r][p] = NoAddr
    BY <1>1, <1>2, OnlineStep
  <1>4. SweepBy(r)
    BY <1>1, <1>3 DEF Sweep, SweepBy, RefreshGoes, RefreshTypeOK
  <1>5. attached[p] # NoAddr
    BY DEF CompleteInv, OnlineSomewhere, Known
  <1>6. rpc[r] = "upsert"
    BY <1>3 DEF Sweep
  <1>7. ~Alone(r)
    <2> SUFFICES ASSUME Alone(r) PROVE FALSE
      OBVIOUS
    <2>1. scan[r][p] = attached[p]
      BY <1>5, <1>6 DEF CompleteInv, ScansAll
    <2>2. found[r][p] = scan[r][p]
      BY <1>6, <2>1 DEF CompleteInv, ProbesAll, ProbesPath
    <2> QED
      BY <1>3, <1>5, <2>1, <2>2
  <1>8. r \in overlapped
    BY <1>6, <1>7 DEF Alone, InFlight, RefreshPcs
  <1> QED
    BY <1>4, <1>8

\* Where enumeration does not fail, a refresh that runs alone never takes a
\* device off line that is identified by its descriptor and plugged in at its
\* registered address, whatever other keyboards are probed meanwhile
\* (mark_offline_missing_paths).
THEOREM PresentDevicesStayOnline ==
  ASSUME ~FlakyProbes
  PROVE  Spec => OnlyGoneDevicesGoOffline
  <1>1. Init => CompleteInv
    BY DEF Init, CompleteInv, ProbesAll, ProbesPath, ScansAll, OnlineSomewhere, Online,
           EmptyRegistry, Unregistered, Alone, InFlight, RefreshPcs
  <1>2. HistoryInv /\ CompleteInv /\ [Next]_vars => CompleteInv'
    BY ProbesStep, ScansStep, OnlineKnown DEF HistoryInv, CompleteInv
  <1>3. HistoryInv /\ CompleteInv /\ [Next]_vars
          => [\A p \in Paths :
                /\ Online(registry, p) /\ ~Online(registry', p) /\ ~Clearing
                /\ registry.byPath[p].addr = attached[p]
                /\ attached[p] \notin Ambiguous
                => \E r \in overlapped : SweepBy(r)]_registry
    BY GoneOnly
  <1> QED
    BY <1>1, <1>2, <1>3, HistoryInvariant, PTL DEF Spec, OnlyGoneDevicesGoOffline

-----------------------------------------------------------------------------
(* The lists converge.  What a subscriber will show once it has been sent   *)
(* all that is queued for it is what the registry says, or the event that   *)
(* makes it so is still in the hands of a refresh.                          *)

EventStatus(e) == IF e.online THEN "online" ELSE "offline"

\* A view v, and then the events s, leave path p with status st.
ShowsAfter(v, s, p, st) ==
  \/ \E i \in 1 .. Len(s) :
       /\ s[i].path = p /\ EventStatus(s[i]) = st
       /\ \A j \in 1 .. Len(s) : j > i => s[j].path # p
  \/ (\A i \in 1 .. Len(s) : s[i].path # p) /\ v[p] = st

LEMMA ShowsEmpty ==
  ASSUME NEW v, NEW p, NEW st
  PROVE  ShowsAfter(v, <<>>, p, st) <=> v[p] = st
  BY DEF ShowsAfter

\* One more event decides what is shown of its path, and of no other.
LEMMA ShowsAppend ==
  ASSUME NEW v, NEW s \in Seq(Event), NEW e \in Event, NEW p \in Paths, NEW st,
         IF e.path = p THEN EventStatus(e) = st ELSE ShowsAfter(v, s, p, st)
  PROVE  ShowsAfter(v, Append(s, e), p, st)
  <1> DEFINE t == Append(s, e)
  <1>1. /\ Len(s) \in Nat /\ Len(t) = Len(s) + 1 /\ t[Len(s) + 1] = e
        /\ \A i \in 1 .. Len(s) : t[i] = s[i]
    OBVIOUS
  <1> HIDE DEF t
  <1>2. CASE e.path = p
    <2>1. Len(s) + 1 \in 1 .. Len(t) /\ \A j \in 1 .. Len(t) : ~(j > Len(s) + 1)
      BY <1>1
    <2> QED
      BY <1>1, <1>2, <2>1 DEF ShowsAfter, t
  <1>3. CASE e.path # p
    <2>1. \A j \in 1 .. Len(t) : j \in 1 .. Len(s) \/ t[j].path # p
      BY <1>1, <1>3
    <2>2. \A i \in 1 .. Len(s) : i \in 1 .. Len(t)
      BY <1>1
    <2> QED
      BY <1>1, <1>3, <2>1, <2>2 DEF ShowsAfter, t
  <1> QED
    BY <1>2, <1>3

\* An event that is delivered moves from the queue into the view.
LEMMA ShowsTail ==
  ASSUME NEW v \in [Paths -> Status], NEW s \in Seq(Event), s # <<>>, NEW p \in Paths, NEW st,
         ShowsAfter(v, s, p, st)
  PROVE  ShowsAfter([v EXCEPT ![Head(s).path] = EventStatus(Head(s))], Tail(s), p, st)
  <1> DEFINE t == Tail(s)
             u == [v EXCEPT ![Head(s).path] = EventStatus(Head(s))]
  <1>1. /\ Len(s) \in Nat /\ Len(s) >= 1 /\ Len(t) = Len(s) - 1 /\ Head(s) = s[1]
        /\ \A i \in 1 .. Len(t) : t[i] = s[i + 1]
    OBVIOUS
  <1>2. u[p] = IF s[1].path = p THEN EventStatus(s[1]) ELSE v[p]
    BY <1>1
  <1> HIDE DEF t, u
  <1>3. CASE \E i \in 1 .. Len(s) :
               /\ s[i].path = p /\ EventStatus(s[i]) = st
               /\ \A j \in 1 .. Len(s) : j > i => s[j].path # p
    <2>1. PICK i \in 1 .. Len(s) :
               /\ s[i].path = p /\ EventStatus(s[i]) = st
               /\ \A j \in 1 .. Len(s) : j > i => s[j].path # p
      BY <1>3
    <2>2. CASE i = 1
      <3>1. \A j \in 1 .. Len(t) : t[j].path # p
        <4> TAKE j \in 1 .. Len(t)
        <4>1. j + 1 \in 1 .. Len(s) /\ j + 1 > 1
          BY <1>1
        <4> QED
          BY <1>1, <2>1, <2>2, <4>1
      <3> QED
        BY <1>2, <2>1, <2>2, <3>1 DEF ShowsAfter, t, u
    <2>3. CASE i # 1
      <3>1. i - 1 \in 1 .. Len(t) /\ t[i - 1] = s[i]
        BY <1>1, <2>1, <2>3
      <3>2. \A j \in 1 .. Len(t) : j > i - 1 => t[j].path # p
        <4> TAKE j \in 1 .. Len(t)
        <4>1. j + 1 \in 1 .. Len(s) /\ (j > i - 1 => j + 1 > i)
          BY <1>1
        <4> QED
          BY <1>1, <2>1, <4>1
      <3> QED
        BY <2>1, <3>1, <3>2 DEF ShowsAfter, t, u
    <2> QED
      BY <2>2, <2>3
  <1>4. CASE (\A i \in 1 .. Len(s) : s[i].path # p) /\ v[p] = st
    <2>1. \A j \in 1 .. Len(t) : j + 1 \in 1 .. Len(s)
      BY <1>1
    <2>2. \A j \in 1 .. Len(t) : t[j].path # p
      BY <1>1, <1>4, <2>1
    <2>3. s[1].path # p
      BY <1>1, <1>4
    <2> QED
      BY <1>2, <1>4, <2>2, <2>3 DEF ShowsAfter, t, u
  <1> QED
    BY <1>3, <1>4 DEF ShowsAfter

Told(w) == rpc[w] \in {"queue", "subscribe", "streaming"}
Base(w) == IF Streaming(w) THEN view[w] ELSE initial[w]

\* A refresh that is about to tell of p.
PendingOnline(r, p)  == rpc[r] \in {"drop", "notify"} /\ cur[r] = p
PendingOffline(r, p) == \/ rpc[r] \in {"offline", "notifyOffline"} /\ p \in todo[r]
                        \/ rpc[r] = "notifyOffline" /\ cur[r] = p

Serving == phase \in {"up", "drained"}

QueueInv ==
  \A w \in Watchers : Len(rx[w]) <= RxCap /\ (~Streaming(w) => rx[w] = <<>>)

\* What a refresh that runs alone is about to tell is true.
PendingTrue ==
  \A r \in Refreshers, p \in Paths : Alone(r) =>
    /\ PendingOnline(r, p) => Snapshot(registry)[p] = "online"
    /\ PendingOffline(r, p) => Snapshot(registry)[p] = "offline"

UpToDate ==
  \A w \in Watchers \ missed, p \in Paths : Told(w) =>
    \/ ShowsAfter(Base(w), rx[w], p, Snapshot(registry)[p])
    \/ \E r \in Refreshers : PendingOnline(r, p) \/ PendingOffline(r, p)

StreamInv == Serving => QueueInv /\ PendingTrue /\ UpToDate

\* The compare-and-swap: the background refresh runs only while its flag is set.
BackgroundGuarded == InFlight(Background) => refreshing

LEMMA ServingStep ==
  ASSUME [Next]_vars, Serving'
  PROVE  Serving /\ (registry' = registry \/ \E r \in Refreshers : RefreshStep(r))
  <1>1. CASE UsbStep
    BY <1>1 DEF UsbStep, Plug, Unplug, TransportExit, guardVars, Serving
  <1>2. CASE ShutdownStep
    BY <1>2 DEF ShutdownStep, Drain, ClearRegistry, ClearOpening, Serving
  <1>3. CASE \E o \in Openers : OpenerStep(o) \/ \E q \in Paths : Call(o, q)
    BY <1>3 DEF OpenerStep, Call, FirstFind, Recheck, LastFind, FindSession, Lookup,
                TakeSlot, Connect, Insert, ReleaseSlot, Return, guardVars, Serving
  <1>4. CASE Tick \/ QueueFromTick
    BY <1>4 DEF Tick, QueueFromTick, Serving
  <1>5. ASSUME NEW r \in Refreshers, RefreshStep(r) PROVE UNCHANGED phase
    BY <1>5 DEF RefreshStep, Scan, ScanFails, Identify, OpenProbe, CloseProbe, ScanDone,
                UpsertFound, DropMoved, Notify, Sweep, DropOffline, NotifyOffline,
                RefreshDone, guardVars
  <1>6. CASE \E w \in Watchers : Watch(w) \/ WatchStep(w) \/ Unwatch(w)
    BY <1>6 DEF Watch, WatchStep, QueueFromWatch, Resnapshot, Subscribe, Deliver, Unwatch,
                guardVars, Serving
  <1>7. CASE UNCHANGED vars
    BY <1>7 DEF vars, guardVars, Serving
  <1> QED
    BY <1>1, <1>2, <1>3, <1>4, <1>5, <1>6, <1>7 DEF Next, Serving

\* What a step does to the streams: it belongs to a refresh, or to a watcher,
\* or leaves them and the registry alone.
LEMMA StreamCases ==
  ASSUME TypeInv, [Next]_vars, Serving'
  PROVE  \/ \E r \in Refreshers : RefreshStep(r) /\ CarriesOn(r)
         \/ \E w \in Watchers : Watch(w) \/ WatchStep(w) \/ Unwatch(w)
         \/ /\ UNCHANGED <<registry, scan, found, todo, cur, initial, rx, view>>
            /\ \/ UNCHANGED <<rpc, refreshing>>
               \/ QueueFromTick
  <1>1. CASE UsbStep
    BY <1>1 DEF UsbStep, Plug, Unplug, TransportExit, guardVars, refreshVars, streamVars
  <1>2. CASE ShutdownStep
    BY <1>2 DEF ShutdownStep, Drain, ClearRegistry, ClearOpening, refreshVars, streamVars,
                Serving
  <1>3. CASE \E o \in Openers : OpenerStep(o) \/ \E q \in Paths : Call(o, q)
    BY <1>3 DEF OpenerStep, Call, FirstFind, Recheck, LastFind, FindSession, Lookup,
                TakeSlot, Connect, Insert, ReleaseSlot, Return, guardVars, refreshVars,
                streamVars
  <1>4. CASE Tick
    BY <1>4 DEF Tick, refreshVars, streamVars
  <1>5. CASE QueueFromTick
    BY <1>5 DEF QueueFromTick, streamVars
  <1>6. CASE UNCHANGED vars
    BY <1>6 DEF vars, guardVars, refreshVars, streamVars
  <1> QED
    BY <1>1, <1>2, <1>3, <1>4, <1>5, <1>6, CarryOn DEF Next

LEMMA GuardedStep == TypeInv /\ BackgroundGuarded /\ [Next]_vars => BackgroundGuarded'
  <1> SUFFICES ASSUME TypeInv, BackgroundGuarded, [Next]_vars PROVE BackgroundGuarded'
    OBVIOUS
  <1>1. RefreshTypeOK /\ Background \in Refreshers /\ Background \notin Watchers
    BY RefresherAssumption DEF TypeInv, TypeOK, Refreshers
  <1>2. CASE UsbStep
    BY <1>2 DEF UsbStep, Plug, Unplug, TransportExit, guardVars, refreshVars,
                BackgroundGuarded, InFlight
  <1>3. CASE ShutdownStep
    BY <1>3 DEF ShutdownStep, Drain, ClearRegistry, ClearOpening, refreshVars,
                BackgroundGuarded, InFlight
  <1>4. CASE \E o \in Openers : OpenerStep(o) \/ \E q \in Paths : Call(o, q)
    BY <1>4 DEF OpenerStep, Call, FirstFind, Recheck, LastFind, FindSession, Lookup,
                TakeSlot, Connect, Insert, ReleaseSlot, Return, guardVars, refreshVars,
                BackgroundGuarded, InFlight
  <1>5. CASE Tick
    BY <1>5 DEF Tick, refreshVars, BackgroundGuarded, InFlight
  <1>6. CASE QueueFromTick
    BY <1>6 DEF QueueFromTick, QueueRefresh, BackgroundGuarded
  <1>7. ASSUME NEW r \in Refreshers, RefreshStep(r) PROVE BackgroundGuarded'
    <2>1. CASE RefreshDone(r)
      BY <1>1, <1>7, <2>1, CarryOn
         DEF RefreshDone, RefreshGoes, BackgroundGuarded, InFlight, RefreshPcs,
             RefreshTypeOK, CarriesOn
    <2>2. CASE ~RefreshDone(r)
      <3>1. UNCHANGED refreshing
        BY <1>7, <2>2 DEF RefreshStep, Scan, ScanFails, Identify, OpenProbe, CloseProbe,
                          ScanDone, UpsertFound, DropMoved, Notify, Sweep, DropOffline,
                          NotifyOffline, guardVars
      <3>2. InFlight(Background)' => InFlight(Background)
        BY <1>1, <1>7, CarryOn DEF CarriesOn, InFlight
      <3> QED
        BY <3>1, <3>2 DEF BackgroundGuarded
    <2> QED
      BY <2>1, <2>2
  <1>8. ASSUME NEW w \in Watchers, QueueFromWatch(w) PROVE BackgroundGuarded'
    BY <1>8 DEF QueueFromWatch, QueueRefresh, BackgroundGuarded
  <1>9. ASSUME NEW w \in Watchers, Watch(w) \/ Resnapshot(w) \/ Subscribe(w) \/ Deliver(w)
                                     \/ Unwatch(w)
        PROVE  BackgroundGuarded'
    <2>1. UNCHANGED refreshing /\ rpc'[Background] = rpc[Background]
      BY <1>1, <1>9 DEF Watch, Resnapshot, Subscribe, Deliver, Unwatch, RefreshGoes,
                        guardVars, refreshVars, RefreshTypeOK
    <2> QED
      BY <2>1 DEF BackgroundGuarded, InFlight
  <1>10. CASE UNCHANGED vars
    BY <1>10 DEF vars, guardVars, refreshVars, BackgroundGuarded, InFlight
  <1> QED
    BY <1>2, <1>3, <1>4, <1>5, <1>6, <1>7, <1>8, <1>9, <1>10 DEF Next, WatchStep

\* What there is to tell changes by an upsert or a sweep, and stays pending until
\* it is told.
LEMMA PendingChange ==
  ASSUME TypeInv, NEW r \in Refreshers, RefreshStep(r), NEW p \in Paths
  PROVE  /\ \/ Snapshot(registry')[p] = Snapshot(registry)[p]
            \/ PendingOnline(r, p)' \/ PendingOffline(r, p)'
         /\ PendingOnline(r, p) \/ PendingOffline(r, p)
              => \/ PendingOnline(r, p)' \/ PendingOffline(r, p)'
                 \/ (Notify(r) \/ NotifyOffline(r)) /\ p = cur[r]
  <1>1. registry \in RegistryValue /\ RefreshTypeOK
    BY DEF TypeInv, TypeOK, TableTypeOK
  <1>2. CASE \/ Scan(r) \/ ScanFails(r) \/ CloseProbe(r) \/ ScanDone(r)
             \/ \E q \in Paths : Identify(r, q) \/ OpenProbe(r, q)
    BY <1>2 DEF Scan, ScanFails, CloseProbe, ScanDone, Identify, OpenProbe,
                PendingOnline, PendingOffline
  <1>3. CASE DropMoved(r)
    BY <1>1, <1>3 DEF DropMoved, RefreshGoes, PendingOnline, PendingOffline, RefreshTypeOK
  <1>4. CASE RefreshDone(r)
    BY <1>4 DEF RefreshDone, PendingOnline, PendingOffline
  <1>5. CASE Notify(r) \/ NotifyOffline(r)
    BY <1>1, <1>5 DEF Notify, NotifyOffline, RefreshGoes, PendingOnline, PendingOffline,
                      RefreshTypeOK
  <1>6. ASSUME NEW q \in Paths, DropOffline(r, q)
        PROVE  /\ registry' = registry
               /\ PendingOnline(r, p) \/ PendingOffline(r, p) => PendingOffline(r, p)'
    BY <1>1, <1>6 DEF DropOffline, RefreshGoes, PendingOnline, PendingOffline, RefreshTypeOK
  <1>7. CASE Sweep(r)
    <2>1. /\ registry' = MarkOfflineMissing(registry, {q \in Paths : found[r][q] # NoAddr})
          /\ todo'[r] = NewlyOffline(registry, {q \in Paths : found[r][q] # NoAddr})
          /\ rpc'[r] = "offline" /\ rpc[r] = "upsert"
      BY <1>1, <1>7 DEF Sweep, RefreshGoes, RefreshTypeOK
    <2>2. /\ registry'.byPath[p].addr = registry.byPath[p].addr
          /\ registry'.byPath[p].online
               <=> registry.byPath[p].online /\ p \in {q \in Paths : found[r][q] # NoAddr}
      BY <1>1, <2>1, SweepFields
    <2>3. CASE p \in todo'[r]
      BY <2>1, <2>3 DEF PendingOnline, PendingOffline
    <2>4. CASE p \notin todo'[r]
      <3>1. Online(registry', p) <=> Online(registry, p)
        BY <2>1, <2>2, <2>4 DEF NewlyOffline, Online
      <3>2. Snapshot(registry')[p] = Snapshot(registry)[p]
        BY <2>2, <3>1 DEF Snapshot, Known
      <3> QED
        BY <2>1, <3>2 DEF PendingOnline, PendingOffline
    <2> QED
      BY <2>3, <2>4
  <1>8. ASSUME NEW q \in Paths, UpsertFound(r, q)
        PROVE  /\ \/ Snapshot(registry')[p] = Snapshot(registry)[p]
                  \/ PendingOnline(r, p)'
               /\ ~PendingOnline(r, p) /\ ~PendingOffline(r, p)
    <2>1. found[r][q] \in Addrs
      BY <1>1, <1>8, MaxAddrAssumption
         DEF UpsertFound, TypeInv, UpsertsFound, RefreshTypeOK, AddrOrNone, Addrs, NoAddr
    <2>2. PICK a \in Addrs : a = found[r][q]
      BY <2>1
    <2>3. registry' = Upsert(registry, q, a) /\ rpc[r] = "upsert" /\ cur'[r] = q
      BY <1>1, <1>8, <2>2 DEF UpsertFound, RefreshTypeOK
    <2>4. registry'.byPath[p]
            = IF p = q THEN [addr |-> a, online |-> TRUE] ELSE registry.byPath[p]
      BY <1>1, <2>3, UpsertPath
    <2>5. CASE p # q
      BY <2>3, <2>4, <2>5 DEF Snapshot, Known, Online, PendingOnline, PendingOffline
    <2>6. CASE p = q /\ registry.byPath[q].online /\ registry.byPath[q].addr = a
      BY <2>3, <2>4, <2>6 DEF Snapshot, Known, Online, PendingOnline, PendingOffline
    <2>7. CASE p = q /\ ~(registry.byPath[q].online /\ registry.byPath[q].addr = a)
      <3>1. rpc'[r] \in {"drop", "notify"}
        BY <1>1, <1>8, <2>2, <2>7 DEF UpsertFound, RefreshGoes, RefreshTypeOK
      <3> QED
        BY <2>3, <2>7, <3>1 DEF PendingOnline, PendingOffline
    <2> QED
      BY <2>5, <2>6, <2>7
  <1> QED
    BY <1>2, <1>3, <1>4, <1>5, <1>6, <1>7, <1>8 DEF RefreshStep

\* A refresh that runs alone and has just changed the registry has the truth to
\* tell; nobody else changes the registry before it has told it.
LEMMA PendingStep ==
  ASSUME HistoryInv, OnlineSomewhere, PendingTrue, Serving', [Next]_vars
  PROVE  PendingTrue'
  <1> SUFFICES ASSUME NEW r \in Refreshers, NEW p \in Paths, Alone(r)'
               PROVE  /\ PendingOnline(r, p)' => Snapshot(registry')[p] = "online"
                      /\ PendingOffline(r, p)' => Snapshot(registry')[p] = "offline"
    BY DEF PendingTrue
  <1>1. TypeInv /\ RefreshTypeOK /\ LoneInv /\ registry \in RegistryValue
    BY DEF HistoryInv, TypeInv, TypeOK, TableTypeOK
  <1>2. CASE rpc'[r] = "scan"
    BY <1>2 DEF PendingOnline, PendingOffline
  <1>3. CASE Alone(r) /\ ~(\E q \in Refreshers : RefreshStep(q))
    <2>1. registry' = registry
      BY <1>3, ServingStep
    <2>2. CASE Bystander
      <3>1. rpc'[r] = rpc[r] /\ cur'[r] = cur[r] /\ todo'[r] = todo[r]
        BY <1>3, <2>2 DEF Bystander, Alone, InFlight
      <3> QED
        BY <1>3, <2>1, <3>1 DEF PendingTrue, PendingOnline, PendingOffline
    <2>3. CASE \E x \in Refreshers : Starts(x)
      <3>1. PICK x \in Refreshers : Starts(x)
        BY <2>3
      <3>2. CASE x = r
        BY <3>1, <3>2 DEF Starts, PendingOnline, PendingOffline
      <3>3. CASE x # r
        <4>1. r \in overlapped'
          BY <1>3, <3>1, <3>3 DEF Starts, Meet, Alone
        <4> QED
          BY <4>1 DEF Alone
      <3> QED
        BY <3>2, <3>3
    <2> QED
      BY <1>1, <1>3, <2>2, <2>3, RefreshesStep
  <1>4. ASSUME Alone(r), NEW q \in Refreshers, RefreshStep(q)
        PROVE  /\ PendingOnline(r, p)' => Snapshot(registry')[p] = "online"
               /\ PendingOffline(r, p)' => Snapshot(registry')[p] = "offline"
    <2>1. CarriesOn(q) /\ q = r
      BY <1>1, <1>4, CarryOn DEF LoneInv, CarriesOn
    <2>2. /\ PendingOnline(r, p) => Snapshot(registry)[p] = "online"
          /\ PendingOffline(r, p) => Snapshot(registry)[p] = "offline"
      BY <1>4 DEF PendingTrue
    <2>3. CASE \/ Scan(r) \/ ScanFails(r) \/ CloseProbe(r) \/ ScanDone(r) \/ Notify(r)
               \/ RefreshDone(r) \/ \E x \in Paths : Identify(r, x) \/ OpenProbe(r, x)
      <3>1. ~PendingOnline(r, p)' /\ ~PendingOffline(r, p)'
        BY <1>1, <2>3 DEF Scan, ScanFails, CloseProbe, ScanDone, Notify, RefreshDone,
                          Identify, OpenProbe, RefreshGoes, RefreshTypeOK, PendingOnline,
                          PendingOffline
      <3> QED
        BY <3>1
    <2>4. CASE DropMoved(r) \/ NotifyOffline(r) \/ \E x \in Paths : DropOffline(r, x)
      <3>1. registry' = registry
        BY <2>4 DEF DropMoved, NotifyOffline, DropOffline
      <3>2. /\ PendingOnline(r, p)' => PendingOnline(r, p)
            /\ PendingOffline(r, p)' => PendingOffline(r, p)
        <4>1. CASE DropMoved(r) \/ NotifyOffline(r)
          BY <1>1, <4>1 DEF DropMoved, NotifyOffline, RefreshGoes, RefreshTypeOK,
                            PendingOnline, PendingOffline
        <4>2. ASSUME NEW x \in Paths, DropOffline(r, x)
              PROVE  /\ PendingOnline(r, p)' => PendingOnline(r, p)
                     /\ PendingOffline(r, p)' => PendingOffline(r, p)
          <5>1. /\ rpc[r] = "offline" /\ x \in todo[r] /\ rpc'[r] = "notifyOffline"
                /\ todo'[r] = todo[r] \ {x} /\ cur'[r] = x
            BY <1>1, <4>2 DEF DropOffline, RefreshGoes, RefreshTypeOK
          <5> QED
            BY <5>1 DEF PendingOnline, PendingOffline
        <4> QED
          BY <2>4, <4>1, <4>2
      <3> QED
        BY <2>2, <3>1, <3>2
    <2>5. CASE Sweep(r)
      <3>1. /\ registry' = MarkOfflineMissing(registry, {x \in Paths : found[r][x] # NoAddr})
            /\ todo'[r] = NewlyOffline(registry, {x \in Paths : found[r][x] # NoAddr})
            /\ rpc'[r] = "offline"
        BY <1>1, <2>5 DEF Sweep, RefreshGoes, RefreshTypeOK
      <3>2. /\ registry'.byPath[p].addr = registry.byPath[p].addr
            /\ registry'.byPath[p].online
                 <=> registry.byPath[p].online /\ p \in {x \in Paths : found[r][x] # NoAddr}
        BY <1>1, <3>1, SweepFields
      <3>3. ASSUME PendingOffline(r, p)'
            PROVE  Snapshot(registry')[p] = "offline"
        <4>1. Online(registry, p) /\ ~Online(registry', p)
          BY <3>1, <3>2, <3>3 DEF PendingOffline, NewlyOffline, Online
        <4>2. Known(registry', p)
          BY <3>2, <4>1 DEF OnlineSomewhere, Known
        <4> QED
          BY <4>1, <4>2 DEF Snapshot
      <3> QED
        BY <3>1, <3>3 DEF PendingOnline
    <2>6. ASSUME NEW x \in Paths, UpsertFound(r, x)
          PROVE  /\ PendingOnline(r, p)' => Snapshot(registry')[p] = "online"
                 /\ ~PendingOffline(r, p)'
      <3>1. found[r][x] \in Addrs
        BY <1>1, <2>6, MaxAddrAssumption
           DEF UpsertFound, TypeInv, UpsertsFound, RefreshTypeOK, AddrOrNone, Addrs, NoAddr
      <3>2. PICK a \in Addrs : a = found[r][x]
        BY <3>1
      <3>3. registry' = Upsert(registry, x, a) /\ cur'[r] = x
        BY <1>1, <2>6, <3>2 DEF UpsertFound, RefreshTypeOK
      <3>4. registry'.byPath[x] = [addr |-> a, online |-> TRUE]
        BY <1>1, <3>3, UpsertPath
      <3>5. Snapshot(registry')[x] = "online"
        <4>1. a # NoAddr
          BY MaxAddrAssumption DEF Addrs, NoAddr
        <4> QED
          BY <3>4, <4>1 DEF Snapshot, Known, Online
      <3>6. ~PendingOffline(r, p)'
        BY <1>1, <2>6 DEF UpsertFound, RefreshGoes, RefreshTypeOK, PendingOffline
      <3> QED
        BY <3>3, <3>5, <3>6 DEF PendingOnline
    <2> QED
      BY <1>4, <2>1, <2>3, <2>4, <2>5, <2>6 DEF RefreshStep
  <1> QED
    BY <1>1, <1>2, <1>3, <1>4, LoneStep

LEMMA QueueStep ==
  ASSUME TypeInv, QueueInv, [Next]_vars, Serving'
  PROVE  QueueInv'
  <1>1. RefreshTypeOK /\ StreamTypeOK /\ RxCap \in Nat \ {0}
    BY BoundsAssumption DEF TypeInv, TypeOK
  <1>2. ASSUME NEW p \in Paths, NEW online \in BOOLEAN, Broadcast(p, online),
               NEW w \in Watchers
        PROVE  Len(rx'[w]) <= RxCap /\ (~Streaming(w) => rx'[w] = <<>>)
    <2> DEFINE e == [path |-> p, online |-> online]
    <2>1. rx[w] \in Seq(Event) /\ e \in Event /\ Len(rx[w]) <= RxCap
          /\ (~Streaming(w) => rx[w] = <<>>)
      BY <1>1 DEF StreamTypeOK, Event, QueueInv
    <2>2. rx'[w] = IF ~Streaming(w) THEN rx[w]
                   ELSE IF Len(rx[w]) < RxCap THEN Append(rx[w], e)
                   ELSE Append(Tail(rx[w]), e)
      BY <1>2 DEF Broadcast
    <2> HIDE DEF e
    <2>3. Len(rx[w]) \in Nat /\ Len(Append(rx[w], e)) = Len(rx[w]) + 1
      BY <2>1
    <2>4. rx[w] # <<>> => Len(Append(Tail(rx[w]), e)) = Len(rx[w])
      BY <2>1
    <2>5. ~(Len(rx[w]) < RxCap) => rx[w] # <<>>
      BY <1>1, <2>3
    <2> QED
      BY <1>1, <2>1, <2>2, <2>3, <2>4, <2>5
  <1>3. CASE \E r \in Refreshers : RefreshStep(r)
    <2>1. PICK r \in Refreshers : RefreshStep(r)
      BY <1>3
    <2>2. \A w \in Watchers : Streaming(w)' <=> Streaming(w)
      <3>1. /\ InFlight(r) /\ \A q \in Refreshers \ {r} : rpc'[q] = rpc[q]
        BY <2>1, CarryOn DEF CarriesOn
      <3>2. rpc'[r] # "streaming"
        BY <1>1, <2>1
           DEF RefreshStep, Scan, ScanFails, Identify, OpenProbe, CloseProbe, ScanDone,
               UpsertFound, DropMoved, Notify, Sweep, DropOffline, NotifyOffline,
               RefreshDone, RefreshGoes, RefreshTypeOK
      <3> QED
        BY <3>1, <3>2 DEF Streaming, InFlight, RefreshPcs, Refreshers
    <2>3. CASE Notify(r) \/ NotifyOffline(r)
      <3>1. PICK p \in Paths, online \in BOOLEAN : Broadcast(p, online)
        BY <1>1, <2>3 DEF Notify, NotifyOffline, RefreshTypeOK
      <3>2. \A w \in Watchers : Len(rx'[w]) <= RxCap /\ (~Streaming(w) => rx'[w] = <<>>)
        BY <1>2, <3>1
      <3> QED
        BY <2>2, <3>2 DEF QueueInv
    <2>4. CASE UNCHANGED rx
      BY <2>2, <2>4 DEF QueueInv
    <2>5. Notify(r) \/ NotifyOffline(r) \/ UNCHANGED rx
      BY <2>1 DEF RefreshStep, Scan, ScanFails, Identify, OpenProbe, CloseProbe, ScanDone,
                  UpsertFound, DropMoved, Sweep, DropOffline, RefreshDone, streamVars
    <2> QED
      BY <2>3, <2>4, <2>5
  <1>4. ASSUME NEW w \in Watchers, Deliver(w) PROVE QueueInv'
    <2>1. /\ rx[w] \in Seq(Event) /\ rx[w] # <<>> /\ Len(rx[w]) <= RxCap
          /\ rx'[w] = Tail(rx[w]) /\ Streaming(w)
          /\ \A v \in Watchers \ {w} : rx'[v] = rx[v]
          /\ rpc' = rpc
      BY <1>1, <1>4 DEF Deliver, StreamTypeOK, QueueInv, refreshVars
    <2>2. Len(Tail(rx[w])) = Len(rx[w]) - 1 /\ Len(rx[w]) \in Nat
      BY <2>1
    <2>3. Len(rx'[w]) <= RxCap
      BY <1>1, <2>1, <2>2
    <2> QED
      BY <2>1, <2>3 DEF QueueInv, Streaming
  <1>5. ASSUME NEW w \in Watchers, Unwatch(w) PROVE QueueInv'
    <2>1. /\ rx'[w] = <<>> /\ \A v \in Watchers \ {w} : rx'[v] = rx[v] /\ rpc'[v] = rpc[v]
      BY <1>1, <1>5 DEF Unwatch, RefreshGoes, StreamTypeOK, RefreshTypeOK, Refreshers
    <2>2. Len(<<>>) = 0
      OBVIOUS
    <2> QED
      BY <1>1, <2>1, <2>2 DEF QueueInv, Streaming
  <1>6. ASSUME NEW w \in Watchers, Watch(w) \/ QueueFromWatch(w) \/ Resnapshot(w) \/ Subscribe(w)
        PROVE  QueueInv'
    <2>1. UNCHANGED rx /\ ~Streaming(w)
      BY <1>6 DEF Watch, QueueFromWatch, Resnapshot, Subscribe, streamVars, Streaming
    <2>2. \A v \in Watchers \ {w} : rpc'[v] = rpc[v]
      BY <1>1, <1>6, RefresherAssumption
         DEF Watch, QueueFromWatch, Resnapshot, Subscribe, RefreshGoes, RefreshTypeOK,
             Refreshers
    <2> QED
      BY <2>1, <2>2 DEF QueueInv, Streaming
  <1>7. CASE UNCHANGED <<rpc, rx>>
    BY <1>7 DEF QueueInv, Streaming
  <1>8. CASE QueueFromTick
    <2>1. UNCHANGED rx /\ \A v \in Watchers : rpc'[v] = rpc[v]
      BY <1>1, <1>8, RefresherAssumption
         DEF QueueFromTick, streamVars, RefreshTypeOK, Refreshers
    <2> QED
      BY <2>1 DEF QueueInv, Streaming
  <1> QED
    BY <1>3, <1>4, <1>5, <1>6, <1>7, <1>8, StreamCases DEF WatchStep

\* An event that is sent is true, and reaches everybody who does not miss it.
LEMMA SendStep ==
  ASSUME HistoryInv, QueueInv, PendingTrue, UpToDate,
         NEW r \in Refreshers, NEW p \in Paths, NEW online \in BOOLEAN, p = cur[r],
         Broadcast(p, online), UNCHANGED registry,
         rpc[r] \in {"notify", "notifyOffline"}, rpc'[r] # rpc[r],
         IF online THEN rpc[r] = "notify" ELSE rpc[r] = "notifyOffline",
         NEW w \in Watchers \ missed, Told(w), ~Misses(w), NEW q \in Paths
  PROVE  /\ Streaming(w)
         /\ \/ ShowsAfter(view[w], rx'[w], q, Snapshot(registry)[q])
            \/ q # p /\ (PendingOnline(r, q) \/ PendingOffline(r, q))
  <1>1. /\ Streaming(w) /\ Len(rx[w]) # RxCap /\ r \notin overlapped
    BY DEF Misses, Sending
  <1>2. /\ TypeInv /\ LoneInv /\ rx[w] \in Seq(Event) /\ RxCap \in Nat
    BY BoundsAssumption DEF HistoryInv, TypeInv, TypeOK, StreamTypeOK
  <1>3. Alone(r) /\ \A x \in Refreshers : InFlight(x) => x = r
    BY <1>1, <1>2 DEF LoneInv, Alone, InFlight, RefreshPcs
  <1>4. Len(rx[w]) < RxCap
    BY <1>1, <1>2 DEF QueueInv
  <1> DEFINE e == [path |-> p, online |-> online]
  <1>5. rx'[w] = Append(rx[w], e)
    BY <1>1, <1>4 DEF Broadcast
  <1>6. e \in Event /\ e.path = p /\ EventStatus(e) = IF online THEN "online" ELSE "offline"
    BY DEF Event, EventStatus
  <1> HIDE DEF e
  <1>7. EventStatus(e) = Snapshot(registry)[p]
    <2>1. CASE online
      BY <1>3, <1>6, <2>1 DEF PendingTrue, PendingOnline
    <2>2. CASE ~online
      BY <1>3, <1>6, <2>2 DEF PendingTrue, PendingOffline
    <2> QED
      BY <2>1, <2>2
  <1>8. Base(w) = view[w]
    BY <1>1 DEF Base
  <1>9. ASSUME q = p \/ ShowsAfter(view[w], rx[w], q, Snapshot(registry)[q])
        PROVE  ShowsAfter(view[w], rx'[w], q, Snapshot(registry)[q])
    BY <1>2, <1>5, <1>6, <1>7, <1>9, ShowsAppend
  <1>10. ASSUME q # p, NEW x \in Refreshers, PendingOnline(x, q) \/ PendingOffline(x, q)
         PROVE  PendingOnline(r, q) \/ PendingOffline(r, q)
    BY <1>3, <1>10 DEF PendingOnline, PendingOffline, InFlight, RefreshPcs
  <1> QED
    BY <1>1, <1>8, <1>9, <1>10 DEF UpToDate

LEMMA UpToDateByRefresh ==
  ASSUME HistoryInv, QueueInv, PendingTrue, UpToDate, missed \subseteq Watchers,
         NEW r \in Refreshers, RefreshStep(r),
         NEW w \in Watchers, NEW q \in Paths, Told(w)',
         TakesSnapshot(w) \/ (w \notin missed /\ ~Misses(w))
  PROVE  \/ ShowsAfter(Base(w)', rx'[w], q, Snapshot(registry')[q])
         \/ \E x \in Refreshers : PendingOnline(x, q)' \/ PendingOffline(x, q)'
  <1>1. TypeInv /\ RefreshTypeOK /\ CarriesOn(r)
    BY CarryOn DEF HistoryInv, TypeInv, TypeOK
  <1>2. w # r
    <2>1. rpc'[r] \notin {"queue", "subscribe", "streaming"}
      BY <1>1 DEF RefreshStep, Scan, ScanFails, Identify, OpenProbe, CloseProbe, ScanDone,
                  UpsertFound, DropMoved, Notify, Sweep, DropOffline, NotifyOffline,
                  RefreshDone, RefreshGoes, RefreshTypeOK, CarriesOn, InFlight, RefreshPcs
    <2> QED
      BY <2>1 DEF Told
  <1>3. rpc'[w] = rpc[w] /\ w \in Watchers \ missed /\ ~Misses(w) /\ Told(w)
    BY <1>1, <1>2 DEF CarriesOn, TakesSnapshot, Told, Refreshers
  <1>4. CASE Notify(r) \/ NotifyOffline(r)
    <2>1. PICK p \in Paths, online \in BOOLEAN :
            /\ p = cur[r] /\ Broadcast(p, online)
            /\ IF online THEN rpc[r] = "notify" ELSE rpc[r] = "notifyOffline"
      BY <1>1, <1>4 DEF Notify, NotifyOffline, RefreshTypeOK
    <2>2. /\ UNCHANGED <<registry, view, initial>> /\ rpc[r] \in {"notify", "notifyOffline"}
          /\ rpc'[r] # rpc[r]
      BY <1>1, <1>4 DEF Notify, NotifyOffline, RefreshGoes, RefreshTypeOK
    <2>3. /\ Streaming(w)
          /\ \/ ShowsAfter(view[w], rx'[w], q, Snapshot(registry)[q])
             \/ q # p /\ (PendingOnline(r, q) \/ PendingOffline(r, q))
      BY <1>3, <2>1, <2>2, SendStep
    <2>4. Base(w)' = view[w] /\ Snapshot(registry') = Snapshot(registry)
      BY <1>3, <2>2, <2>3 DEF Base, Streaming
    <2>5. q # p /\ (PendingOnline(r, q) \/ PendingOffline(r, q))
            => PendingOnline(r, q)' \/ PendingOffline(r, q)'
      BY <1>1, <2>1, PendingChange
    <2> QED
      BY <2>3, <2>4, <2>5
  <1>5. CASE ~Notify(r) /\ ~NotifyOffline(r)
    <2>1. UNCHANGED <<initial, rx, view>>
      BY <1>5 DEF RefreshStep, Scan, ScanFails, Identify, OpenProbe, CloseProbe, ScanDone,
                  UpsertFound, DropMoved, Sweep, DropOffline, RefreshDone, streamVars
    <2>2. Base(w)' = Base(w) /\ rx'[w] = rx[w]
      BY <1>3, <2>1 DEF Base, Streaming
    <2>3. \/ ShowsAfter(Base(w), rx[w], q, Snapshot(registry)[q])
          \/ \E x \in Refreshers : PendingOnline(x, q) \/ PendingOffline(x, q)
      BY <1>3 DEF UpToDate
    <2>4. ASSUME NEW x \in Refreshers, PendingOnline(x, q) \/ PendingOffline(x, q)
          PROVE  PendingOnline(x, q)' \/ PendingOffline(x, q)'
      <3>1. CASE x = r
        BY <1>1, <1>5, <2>4, <3>1, PendingChange
      <3>2. CASE x # r
        BY <1>1, <2>4, <3>2 DEF CarriesOn, PendingOnline, PendingOffline
      <3> QED
        BY <3>1, <3>2
    <2>5. \/ Snapshot(registry')[q] = Snapshot(registry)[q]
          \/ PendingOnline(r, q)' \/ PendingOffline(r, q)'
      BY <1>1, PendingChange
    <2> QED
      BY <2>2, <2>3, <2>4, <2>5
  <1> QED
    BY <1>4, <1>5

LEMMA UpToDateByOthers ==
  ASSUME HistoryInv, BackgroundGuarded, QueueInv, UpToDate, missed \subseteq Watchers,
         \/ \E v \in Watchers : Watch(v) \/ WatchStep(v) \/ Unwatch(v)
         \/ /\ UNCHANGED <<registry, scan, found, todo, cur, initial, rx, view>>
            /\ UNCHANGED <<rpc, refreshing>> \/ QueueFromTick,
         NEW w \in Watchers, NEW q \in Paths, Told(w)',
         TakesSnapshot(w) \/ (w \notin missed /\ ~Misses(w))
  PROVE  \/ ShowsAfter(Base(w)', rx'[w], q, Snapshot(registry')[q])
         \/ \E x \in Refreshers : PendingOnline(x, q)' \/ PendingOffline(x, q)'
  <1>1. /\ TypeInv /\ RefreshTypeOK /\ StreamTypeOK
        /\ Background \in Refreshers /\ Watchers \subseteq Refreshers
        /\ Background \notin Watchers
    BY RefresherAssumption DEF HistoryInv, TypeInv, TypeOK, Refreshers
  <1>2. UNCHANGED <<registry, todo, cur>>
    BY DEF Watch, WatchStep, QueueFromWatch, Resnapshot, Subscribe, Deliver, Unwatch,
           refreshVars
  <1>3. ASSUME NEW x \in Refreshers, rpc[x] \in RefreshPcs PROVE rpc'[x] = rpc[x]
    <2>1. CASE QueueFromTick
      BY <1>1, <1>3, <2>1 DEF QueueFromTick, BackgroundGuarded, InFlight, RefreshTypeOK
    <2>2. ASSUME NEW v \in Watchers, QueueFromWatch(v) PROVE rpc'[x] = rpc[x]
      <3>1. x # v
        BY <1>3, <2>2 DEF QueueFromWatch, RefreshPcs
      <3>2. CASE x = Background
        BY <1>1, <1>3, <2>2, <3>1, <3>2
           DEF QueueFromWatch, BackgroundGuarded, InFlight, RefreshTypeOK
      <3>3. CASE x # Background
        BY <1>1, <1>3, <2>2, <3>1, <3>3 DEF QueueFromWatch, RefreshTypeOK
      <3> QED
        BY <3>2, <3>3
    <2>3. ASSUME NEW v \in Watchers,
                 Watch(v) \/ Resnapshot(v) \/ Subscribe(v) \/ Deliver(v) \/ Unwatch(v)
          PROVE  rpc'[x] = rpc[x]
      BY <1>1, <1>3, <2>3 DEF Watch, Resnapshot, Subscribe, Deliver, Unwatch, Streaming,
                              RefreshGoes, RefreshTypeOK, RefreshPcs, refreshVars
    <2> QED
      BY <2>1, <2>2, <2>3 DEF WatchStep
  <1>4. ASSUME NEW x \in Refreshers, PendingOnline(x, q) \/ PendingOffline(x, q)
        PROVE  PendingOnline(x, q)' \/ PendingOffline(x, q)'
    <2>1. rpc'[x] = rpc[x]
      BY <1>3, <1>4 DEF PendingOnline, PendingOffline, RefreshPcs
    <2> QED
      BY <1>2, <1>4, <2>1 DEF PendingOnline, PendingOffline
  <1>5. ASSUME w \notin missed, Told(w)
        PROVE  \/ ShowsAfter(Base(w), rx[w], q, Snapshot(registry)[q])
               \/ \E x \in Refreshers : PendingOnline(x, q)' \/ PendingOffline(x, q)'
    BY <1>4, <1>5 DEF UpToDate
  <1>6. ASSUME rpc'[w] = rpc[w], rx'[w] = rx[w], initial'[w] = initial[w], view'[w] = view[w]
        PROVE  \/ ShowsAfter(Base(w)', rx'[w], q, Snapshot(registry')[q])
               \/ \E x \in Refreshers : PendingOnline(x, q)' \/ PendingOffline(x, q)'
    <2>1. w \notin missed /\ Told(w)
      BY <1>6 DEF TakesSnapshot, Told
    <2>2. Base(w)' = Base(w)
      BY <1>6 DEF Base, Streaming
    <2> QED
      BY <1>2, <1>5, <1>6, <2>1, <2>2
  <1>7. CASE /\ UNCHANGED <<registry, scan, found, todo, cur, initial, rx, view>>
             /\ UNCHANGED <<rpc, refreshing>> \/ QueueFromTick
    <2>1. rpc'[w] = rpc[w]
      BY <1>1, <1>7 DEF QueueFromTick, RefreshTypeOK
    <2> QED
      BY <1>6, <1>7, <2>1
  <1>8. ASSUME NEW v \in Watchers, Watch(v) \/ WatchStep(v) \/ Unwatch(v), v # w
        PROVE  /\ rpc'[w] = rpc[w] /\ rx'[w] = rx[w]
               /\ initial'[w] = initial[w] /\ view'[w] = view[w]
    <2>1. CASE QueueFromWatch(v)
      BY <1>1, <1>8, <2>1 DEF QueueFromWatch, RefreshTypeOK, streamVars
    <2>2. CASE Watch(v) \/ Resnapshot(v) \/ Subscribe(v) \/ Deliver(v) \/ Unwatch(v)
      BY <1>1, <1>8, <2>2
         DEF Watch, Resnapshot, Subscribe, Deliver, Unwatch, RefreshGoes, RefreshTypeOK,
             StreamTypeOK, refreshVars
    <2> QED
      BY <1>8, <2>1, <2>2 DEF WatchStep
  <1>9. CASE Watch(w) \/ Resnapshot(w)
    <2>1. /\ ~Streaming(w)' /\ rx'[w] = <<>> /\ initial'[w] = Snapshot(registry)
      BY <1>1, <1>9 DEF Watch, Resnapshot, RefreshGoes, RefreshTypeOK, StreamTypeOK,
                        Streaming, QueueInv
    <2>2. Base(w)' = Snapshot(registry')
      BY <1>2, <2>1 DEF Base
    <2> QED
      BY <2>1, <2>2, ShowsEmpty
  <1>10. CASE QueueFromWatch(w)
    <2>1. /\ rpc[w] = "queue" /\ rpc'[w] = "subscribe"
          /\ UNCHANGED <<initial, rx, view>>
      BY <1>1, <1>10 DEF QueueFromWatch, RefreshTypeOK, streamVars
    <2>2. w \notin missed /\ Told(w) /\ Base(w)' = Base(w)
      BY <2>1 DEF TakesSnapshot, Told, Base, Streaming
    <2> QED
      BY <1>2, <1>5, <2>1, <2>2
  <1>11. CASE Subscribe(w)
    <2>1. /\ rpc[w] = "subscribe" /\ rpc'[w] = "streaming" /\ rx' = rx
          /\ view'[w] = initial[w]
      BY <1>1, <1>11 DEF Subscribe, RefreshGoes, RefreshTypeOK, StreamTypeOK
    <2>2. w \notin missed /\ Told(w) /\ Base(w)' = Base(w)
      BY <2>1 DEF TakesSnapshot, Told, Base, Streaming
    <2> QED
      BY <1>2, <1>5, <2>1, <2>2
  <1>12. CASE Deliver(w)
    <2>1. /\ rpc' = rpc /\ Streaming(w) /\ rx[w] # <<>> /\ rx[w] \in Seq(Event)
          /\ view[w] \in [Paths -> Status]
          /\ rx'[w] = Tail(rx[w])
          /\ view'[w] = [view[w] EXCEPT ![Head(rx[w]).path] = EventStatus(Head(rx[w]))]
      BY <1>1, <1>12 DEF Deliver, refreshVars, StreamTypeOK, EventStatus
    <2>2. w \notin missed /\ Told(w) /\ Base(w) = view[w] /\ Base(w)' = view'[w]
      BY <2>1 DEF TakesSnapshot, Told, Base, Streaming
    <2>3. ASSUME ShowsAfter(Base(w), rx[w], q, Snapshot(registry)[q])
          PROVE  ShowsAfter(view'[w], rx'[w], q, Snapshot(registry)[q])
      BY <2>1, <2>2, <2>3, ShowsTail
    <2> QED
      BY <1>2, <1>5, <2>2, <2>3
  <1>13. CASE Unwatch(w)
    BY <1>1, <1>13 DEF Unwatch, RefreshGoes, RefreshTypeOK, Told
  <1> QED
    BY <1>6, <1>7, <1>8, <1>9, <1>10, <1>11, <1>12, <1>13 DEF WatchStep

HistoryTyped == missed \subseteq Watchers

LEMMA StreamStep ==
  ASSUME HistoryInv, OnlineSomewhere, BackgroundGuarded, HistoryTyped, StreamInv,
         [HistoryNext]_<<vars, missed>>
  PROVE  StreamInv'
  <1> SUFFICES ASSUME Serving' PROVE QueueInv' /\ PendingTrue' /\ UpToDate'
    BY DEF StreamInv
  <1>1. [Next]_vars /\ TypeInv
    BY DEF HistoryNext, HistoryInv
  <1>2. Serving /\ QueueInv /\ PendingTrue /\ UpToDate
    BY <1>1, ServingStep DEF StreamInv
  <1>3. QueueInv' /\ PendingTrue'
    BY <1>1, <1>2, QueueStep, PendingStep
  <1>4. CASE UNCHANGED <<vars, missed>>
    <2>1. UNCHANGED <<registry, rpc, todo, cur, initial, rx, view, missed>>
      BY <1>4 DEF vars, refreshVars, streamVars
    <2>2. UpToDate'
      BY <1>2, <2>1 DEF UpToDate, Told, Base, Streaming, PendingOnline, PendingOffline
    <2> QED
      BY <1>3, <2>2
  <1>5. CASE HistoryNext
    <2> SUFFICES ASSUME NEW w \in Watchers \ missed', NEW q \in Paths, Told(w)'
                 PROVE  \/ ShowsAfter(Base(w)', rx'[w], q, Snapshot(registry')[q])
                        \/ \E x \in Refreshers : PendingOnline(x, q)' \/ PendingOffline(x, q)'
      BY <1>3 DEF UpToDate
    <2>1. TakesSnapshot(w) \/ (w \notin missed /\ ~Misses(w))
      BY <1>5 DEF HistoryNext
    <2>2. CASE \E r \in Refreshers : RefreshStep(r)
      BY <1>2, <2>1, <2>2, UpToDateByRefresh DEF HistoryTyped
    <2>3. CASE \/ \E v \in Watchers : Watch(v) \/ WatchStep(v) \/ Unwatch(v)
               \/ /\ UNCHANGED <<registry, scan, found, todo, cur, initial, rx, view>>
                  /\ UNCHANGED <<rpc, refreshing>> \/ QueueFromTick
      BY <1>2, <2>1, <2>3, UpToDateByOthers DEF HistoryTyped
    <2> QED
      BY <1>1, <2>2, <2>3, StreamCases
  <1> QED
    BY <1>3, <1>4, <1>5

\* Between two refreshes a subscriber that has missed no event and has been sent
\* all that was queued for it shows what the registry says of every path
\* (watch_dev_list, refresh_discovery_snapshot), for any number of subscribers
\* and ports, with failing scans and probes as well.
THEOREM DeviceListsConverge == HistorySpec => []ListsConverge
  <1>1. HistoryInit => Init
    BY DEF HistoryInit
  <1>2. [HistoryNext]_<<vars, missed>> => [Next]_vars
    BY DEF HistoryNext
  <1>3. HistorySpec => Spec
    BY <1>1, <1>2, PTL DEF HistorySpec, Spec
  <1>4. HistoryInit => OnlineSomewhere /\ BackgroundGuarded /\ HistoryTyped /\ StreamInv
    <2> SUFFICES ASSUME HistoryInit
                 PROVE  OnlineSomewhere /\ BackgroundGuarded /\ HistoryTyped /\ StreamInv
      OBVIOUS
    <2>1. OnlineSomewhere /\ BackgroundGuarded /\ HistoryTyped
      BY DEF HistoryInit, Init, OnlineSomewhere, Online, EmptyRegistry, Unregistered,
             BackgroundGuarded, InFlight, RefreshPcs, HistoryTyped, Refreshers
    <2>2. Len(<<>>) = 0 /\ 0 <= RxCap
      BY BoundsAssumption
    <2>3. QueueInv
      BY <2>2 DEF HistoryInit, Init, QueueInv
    <2>4. PendingTrue /\ UpToDate
      BY DEF HistoryInit, Init, PendingTrue, UpToDate, Alone, InFlight, RefreshPcs, Told,
             Refreshers
    <2> QED
      BY <2>1, <2>3, <2>4 DEF StreamInv
  <1>5. HistoryTyped /\ [HistoryNext]_<<vars, missed>> => HistoryTyped'
    BY DEF HistoryTyped, HistoryNext
  <1>6. /\ HistoryInv /\ OnlineSomewhere /\ BackgroundGuarded /\ HistoryTyped /\ StreamInv
        /\ [HistoryNext]_<<vars, missed>>
        => (OnlineSomewhere /\ BackgroundGuarded /\ HistoryTyped /\ StreamInv)'
    BY <1>2, <1>5, OnlineKnown, GuardedStep, StreamStep DEF HistoryInv
  <1>7. HistoryInv /\ StreamInv => ListsConverge
    <2> SUFFICES ASSUME HistoryInv, StreamInv, Serving, \A r \in Refreshers : ~InFlight(r),
                        NEW w \in Watchers \ missed, Streaming(w), rx[w] = <<>>
                 PROVE  view[w] = Snapshot(registry)
      BY DEF ListsConverge, Serving
    <2>1. \A q \in Paths, r \in Refreshers : ~PendingOnline(r, q) /\ ~PendingOffline(r, q)
      BY DEF PendingOnline, PendingOffline, InFlight, RefreshPcs
    <2>2. ASSUME NEW q \in Paths PROVE view[w][q] = Snapshot(registry)[q]
      <3>1. ShowsAfter(Base(w), rx[w], q, Snapshot(registry)[q])
        BY <2>1 DEF StreamInv, UpToDate, Told, Streaming
      <3>2. Base(w) = view[w]
        BY DEF Base
      <3> QED
        BY <3>1, <3>2, ShowsEmpty
    <2>3. view[w] \in [Paths -> Status] /\ Snapshot(registry) \in [Paths -> Status]
      BY SnapshotType DEF HistoryInv, TypeInv, TypeOK, StreamTypeOK
    <2> QED
      BY <2>2, <2>3
  <1> QED
    BY <1>3, <1>4, <1>6, <1>7, HistoryInvariant, PTL DEF HistorySpec
=============================================================================
