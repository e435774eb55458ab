--------------------------- MODULE DriverService ----------------------------
(***************************************************************************)
(* The concurrent core of the gRPC bridge (monsgeek-driver, service/mod.rs):*)
(* the table of open transport sessions, the registry of known keyboards,  *)
(* the per-path opening guard, the discovery refreshes that update them,   *)
(* the watch_dev_list streams and the shutdown handler.                    *)
(*                                                                         *)
(* Every shared table has a mutex of its own and no two are ever held      *)
(* together, so one action is one critical section (or one USB call), and  *)
(* everything may happen between two of them.                              *)
(*                                                                         *)
(* A keyboard gets a new USB address each time it is plugged in, and the   *)
(* kernel counts addresses up, so an address names one enumeration of one  *)
(* keyboard; the transport session opened on it is named by the same       *)
(* number.  MaxAddr bounds the number of plug-ins.                         *)
(***************************************************************************)
EXTENDS DevicePathRegistry, Sequences, FiniteSets

CONSTANTS Openers,       \* RPC tasks that call open_device
          Watchers,      \* clients that call watch_dev_list
          Background,    \* the refresh task queue_discovery_refresh spawns
          Ambiguous,     \* addresses of keyboards whose runtime VID/PID is shared
          MaxCalls,      \* bound: RPCs one opener makes
          RxCap,         \* capacity of a subscriber's broadcast queue
          FlakyProbes,   \* may a scan or a firmware query fail by itself?
          AllowShutdown  \* may SIGTERM arrive?

ASSUME RefresherAssumption == Background \notin Watchers
ASSUME AmbiguousAssumption == Ambiguous \subseteq Addrs
ASSUME BoundsAssumption == MaxCalls \in Nat /\ RxCap \in Nat \ {0}
ASSUME FlagsAssumption == FlakyProbes \in BOOLEAN /\ AllowShutdown \in BOOLEAN

Refreshers == Watchers \cup {Background}

VARIABLES
  attached,    \* USB: address of the keyboard in each port, or NoAddr
  lastAddr,    \* USB: last address handed out
  claim,       \* USB: who has claimed IF2 of the keyboard in each port
  registry,    \* path_registry
  devices,     \* devices: the open session of each path, or NoAddr
  opening,     \* opening_paths
  refreshing,  \* discovery_refreshing
  ticking,     \* the background loop has found no device online
  phase,       \* how far DriverService::shutdown has come
  opc,         \* where each opener is
  target,      \* the path an opener was asked for
  snap,        \* the address in the registration it read
  held,        \* the session (handle clone) it holds
  calls,       \* RPCs it has made
  rpc,         \* where each refresh, or watch_dev_list call, is
  scan,        \* what enumerating the bus returned to a refresh
  found,       \* the keyboards it has identified so far
  todo,        \* paths the present loop of a refresh has yet to visit
  cur,         \* the path that loop is at
  overlapped,  \* history: refreshes another refresh has run concurrently with
  initial,     \* paths in the snapshot of a watch_dev_list call, online or not
  rx,          \* device events queued for each subscriber
  view         \* what the stream has told each subscriber

usbVars     == <<attached, lastAddr, claim>>
openerVars  == <<opc, target, snap, held, calls>>
refreshVars == <<rpc, scan, found, todo, cur, overlapped>>
streamVars  == <<initial, rx, view>>
guardVars   == <<refreshing, ticking, phase>>
vars == <<usbVars, registry, devices, opening, guardVars,
          openerVars, refreshVars, streamVars>>

Claims     == {"free", "session", "probe"}
Phases     == {"up", "drained", "unregistered", "down"}
OpenerPcs  == {"idle", "find", "lookup", "recheck", "slot", "connect",
               "insert", "release", "result", "using"}
RefreshPcs == {"scan", "probe", "probing", "upsert", "drop", "notify",
               "offline", "notifyOffline"}
WatchPcs   == {"queue", "resnapshot", "subscribe", "streaming"}
Status     == {"unknown", "online", "offline"}
Event      == [path : Paths, online : BOOLEAN]

InSlot(o)   == opc[o] \in {"connect", "insert", "release"}
InFlight(r) == rpc[r] \in RefreshPcs
Streaming(w) == rpc[w] = "streaming"
NoneOnline  == \A p \in Paths : ~Online(registry, p)

\* What a subscriber is told about each path by a device list.
Snapshot(reg) == [p \in Paths |-> IF ~Known(reg, p) THEN "unknown"
                                  ELSE IF Online(reg, p) THEN "online"
                                  ELSE "offline"]

\* A session works as long as the keyboard it was opened on stays plugged in.
Works(p, s) == s # NoAddr /\ s = attached[p]

Init ==
  /\ attached = [p \in Paths |-> NoAddr]
  /\ lastAddr = NoAddr
  /\ claim = [p \in Paths |-> "free"]
  /\ registry = EmptyRegistry
  /\ devices = [p \in Paths |-> NoAddr]
  /\ opening = {}
  /\ refreshing = FALSE
  /\ ticking = FALSE
  /\ phase = "up"
  /\ opc = [o \in Openers |-> "idle"]
  /\ target = [o \in Openers |-> NoPath]
  /\ snap = [o \in Openers |-> NoAddr]
  /\ held = [o \in Openers |-> NoAddr]
  /\ calls = [o \in Openers |-> 0]
  /\ rpc = [r \in Refreshers |-> "idle"]
  /\ scan = [r \in Refreshers |-> [p \in Paths |-> NoAddr]]
  /\ found = [r \in Refreshers |-> [p \in Paths |-> NoAddr]]
  /\ todo = [r \in Refreshers |-> {}]
  /\ cur = [r \in Refreshers |-> NoPath]
  /\ overlapped = {}
  /\ initial = [w \in Watchers |-> Snapshot(EmptyRegistry)]
  /\ rx = [w \in Watchers |-> <<>>]
  /\ view = [w \in Watchers |-> Snapshot(EmptyRegistry)]

-----------------------------------------------------------------------------
(* The USB bus.  Unplugging a keyboard takes every claim on it away.       *)

Plug(p) ==
  /\ attached[p] = NoAddr
  /\ lastAddr < MaxAddr
  /\ lastAddr' = lastAddr + 1
  /\ attached' = [attached EXCEPT ![p] = lastAddr + 1]
  /\ UNCHANGED <<claim, registry, devices, opening, guardVars, openerVars,
                 refreshVars, streamVars>>

Unplug(p) ==
  /\ attached[p] # NoAddr
  /\ attached' = [attached EXCEPT ![p] = NoAddr]
  /\ claim' = [claim EXCEPT ![p] = "free"]
  /\ UNCHANGED <<lastAddr, registry, devices, opening, guardVars, openerVars,
                 refreshVars, streamVars>>

\* Mutant of TransportExit: clones of the handle do not keep the thread alive.
TransportExitOnRemoval(p) ==
  /\ claim[p] = "session"
  /\ devices[p] # attached[p]
  /\ claim' = [claim EXCEPT ![p] = "free"]
  /\ UNCHANGED <<attached, lastAddr, registry, devices, opening, guardVars,
                 openerVars, refreshVars, streamVars>>

\* The transport thread ends, and releases IF2, once the last clone of its
\* handle is gone: recv() on the command channel fails then.
TransportExit(p) ==
  /\ claim[p] = "session"
  /\ devices[p] # attached[p]
  /\ \A o \in Openers : held[o] # attached[p]
  /\ claim' = [claim EXCEPT ![p] = "free"]
  /\ UNCHANGED <<attached, lastAddr, registry, devices, opening, guardVars,
                 openerVars, refreshVars, streamVars>>

-----------------------------------------------------------------------------
(* open_device, as called by every RPC that needs the keyboard.            *)

OpenerGoes(o, pc) == opc' = [opc EXCEPT ![o] = pc]

Call(o, p) ==
  /\ opc[o] = "idle"
  /\ calls[o] < MaxCalls
  /\ OpenerGoes(o, "find")
  /\ target' = [target EXCEPT ![o] = p]
  /\ calls' = [calls EXCEPT ![o] = @ + 1]
  /\ UNCHANGED <<usbVars, registry, devices, opening, guardVars, snap, held,
                 refreshVars, streamVars>>

\* find_connected_device: under the devices lock, clone the session if there
\* is one.  It is called before the registry is consulted, again each time
\* round the waiting loop, and a last time after connecting.
FindSession(o, from, otherwise) ==
  /\ opc[o] = from
  /\ \/ /\ devices[target[o]] # NoAddr
        /\ held' = [held EXCEPT ![o] = devices[target[o]]]
        /\ OpenerGoes(o, "using")
     \/ /\ devices[target[o]] = NoAddr
        /\ OpenerGoes(o, otherwise)
        /\ UNCHANGED held
  /\ UNCHANGED <<usbVars, registry, devices, opening, guardVars, target, snap,
                 calls, refreshVars, streamVars>>

FirstFind(o) == FindSession(o, "find", "lookup")
Recheck(o)   == FindSession(o, "recheck", "slot")
LastFind(o)  == FindSession(o, "result", "idle")

\* The registration is copied out of the registry here and used after the
\* wait below without being read again.
Lookup(o) ==
  /\ opc[o] = "lookup"
  /\ \/ /\ Online(registry, target[o])
        /\ snap' = [snap EXCEPT ![o] = registry.byPath[target[o]].addr]
        /\ OpenerGoes(o, "recheck")
     \/ /\ ~Online(registry, target[o])
        /\ OpenerGoes(o, "idle")
        /\ UNCHANGED snap
  /\ UNCHANGED <<usbVars, registry, devices, opening, guardVars, target, held,
                 calls, refreshVars, streamVars>>

\* Mutant of TakeSlot: opening_paths is not consulted.
TakeSlotUnguarded(o) ==
  /\ opc[o] = "slot"
  /\ opening' = opening \cup {target[o]}
  /\ OpenerGoes(o, "connect")
  /\ UNCHANGED <<usbVars, registry, devices, guardVars, target, snap, held,
                 calls, refreshVars, streamVars>>

\* Under the opening lock: enter the set, or sleep 25 ms and look again.
TakeSlot(o) ==
  /\ opc[o] = "slot"
  /\ \/ /\ target[o] \notin opening
        /\ opening' = opening \cup {target[o]}
        /\ OpenerGoes(o, "connect")
     \/ /\ target[o] \in opening
        /\ OpenerGoes(o, "recheck")
        /\ UNCHANGED opening
  /\ UNCHANGED <<usbVars, registry, devices, guardVars, target, snap, held,
                 calls, refreshVars, streamVars>>

\* connect_at_with_options: open the device at the remembered address and
\* claim IF2; fails when that keyboard has gone or IF2 is claimed.
Connect(o) ==
  /\ opc[o] = "connect"
  /\ \/ /\ attached[target[o]] = snap[o]
        /\ claim[target[o]] = "free"
        /\ claim' = [claim EXCEPT ![target[o]] = "session"]
        /\ held' = [held EXCEPT ![o] = snap[o]]
        /\ OpenerGoes(o, "insert")
     \/ /\ attached[target[o]] # snap[o] \/ claim[target[o]] # "free"
        /\ OpenerGoes(o, "release")
        /\ UNCHANGED <<claim, held>>
  /\ UNCHANGED <<attached, lastAddr, registry, devices, opening, guardVars,
                 target, snap, calls, refreshVars, streamVars>>

Insert(o) ==
  /\ opc[o] = "insert"
  /\ devices' = [devices EXCEPT ![target[o]] = held[o]]
  /\ held' = [held EXCEPT ![o] = NoAddr]
  /\ OpenerGoes(o, "release")
  /\ UNCHANGED <<usbVars, registry, opening, guardVars, target, snap, calls,
                 refreshVars, streamVars>>

\* Mutant of ReleaseSlot: the path stays in opening_paths.
ReleaseNothing(o) ==
  /\ opc[o] = "release"
  /\ OpenerGoes(o, "result")
  /\ UNCHANGED <<usbVars, registry, devices, opening, guardVars, target, snap,
                 held, calls, refreshVars, streamVars>>

ReleaseSlot(o) ==
  /\ opc[o] = "release"
  /\ opening' = opening \ {target[o]}
  /\ OpenerGoes(o, "result")
  /\ UNCHANGED <<usbVars, registry, devices, guardVars, target, snap, held,
                 calls, refreshVars, streamVars>>

\* The RPC has used the handle and returns; its clone is dropped.
Return(o) ==
  /\ opc[o] = "using"
  /\ held' = [held EXCEPT ![o] = NoAddr]
  /\ OpenerGoes(o, "idle")
  /\ UNCHANGED <<usbVars, registry, devices, opening, guardVars, target, snap,
                 calls, refreshVars, streamVars>>

OpenerStep(o) ==
  \/ FirstFind(o) \/ Lookup(o) \/ Recheck(o) \/ TakeSlot(o) \/ Connect(o)
  \/ Insert(o) \/ ReleaseSlot(o) \/ LastFind(o) \/ Return(o)

-----------------------------------------------------------------------------
(* refresh_discovery_snapshot.                                             *)

RefreshGoes(r, pc) == rpc' = [rpc EXCEPT ![r] = pc]

\* History only: which refreshes in flight have met another one.
Meet(r) ==
  LET others == {q \in Refreshers \ {r} : InFlight(q)}
  IN  overlapped' = IF others = {} THEN overlapped \ {r}
                    ELSE overlapped \cup others \cup {r}

\* queue_discovery_refresh: one compare-and-swap lets a single refresh in.
QueueRefresh ==
  \/ /\ ~refreshing
     /\ refreshing' = TRUE
     /\ Meet(Background)
  \/ /\ refreshing
     /\ UNCHANGED <<refreshing, overlapped>>

\* Mutant of Tick: registrations are counted whether online or not.
TickWhileUnregistered ==
  /\ ~ticking
  /\ KnownPaths(registry) = {}
  /\ ticking' = TRUE
  /\ UNCHANGED <<usbVars, registry, devices, opening, refreshing, phase,
                 openerVars, refreshVars, streamVars>>

\* The background loop, once a second: read known_online_device_count; if it
\* was zero, queue a refresh.
Tick ==
  /\ ~ticking
  /\ NoneOnline
  /\ ticking' = TRUE
  /\ UNCHANGED <<usbVars, registry, devices, opening, refreshing, phase,
                 openerVars, refreshVars, streamVars>>

QueueFromTick ==
  /\ ticking
  /\ ticking' = FALSE
  /\ QueueRefresh
  /\ rpc' = [rpc EXCEPT ![Background] = IF refreshing THEN @ ELSE "scan"]
  /\ UNCHANGED <<usbVars, registry, devices, opening, phase, openerVars, scan,
                 found, todo, cur, streamVars>>

\* Enumerate the bus.
Scan(r) ==
  /\ rpc[r] = "scan"
  /\ scan' = [scan EXCEPT ![r] = attached]
  /\ found' = [found EXCEPT ![r] = [p \in Paths |-> NoAddr]]
  /\ todo' = [todo EXCEPT ![r] = {p \in Paths : attached[p] # NoAddr}]
  /\ RefreshGoes(r, "probe")
  /\ UNCHANGED <<usbVars, registry, devices, opening, guardVars, openerVars,
                 cur, overlapped, streamVars>>

\* Enumeration fails: the error is logged and an empty list is used instead.
ScanFails(r) ==
  /\ FlakyProbes
  /\ rpc[r] = "scan"
  /\ scan' = [scan EXCEPT ![r] = [p \in Paths |-> NoAddr]]
  /\ found' = [found EXCEPT ![r] = [p \in Paths |-> NoAddr]]
  /\ todo' = [todo EXCEPT ![r] = {}]
  /\ RefreshGoes(r, "upsert")
  /\ UNCHANGED <<usbVars, registry, devices, opening, guardVars, openerVars,
                 cur, overlapped, streamVars>>

\* A keyboard with a VID/PID of its own is identified by descriptor alone.
Identify(r, p) ==
  /\ rpc[r] = "probe"
  /\ p \in todo[r]
  /\ scan[r][p] \notin Ambiguous
  /\ found' = [found EXCEPT ![r][p] = scan[r][p]]
  /\ todo' = [todo EXCEPT ![r] = @ \ {p}]
  /\ UNCHANGED <<usbVars, registry, devices, opening, guardVars, openerVars,
                 rpc, scan, cur, overlapped, streamVars>>

\* Otherwise it must be asked for its firmware id, which takes a claim on
\* IF2: without it the candidate counts as not found.
OpenProbe(r, p) ==
  /\ rpc[r] = "probe"
  /\ p \in todo[r]
  /\ scan[r][p] \in Ambiguous
  /\ todo' = [todo EXCEPT ![r] = @ \ {p}]
  /\ \/ /\ attached[p] = scan[r][p]
        /\ claim[p] = "free"
        /\ claim' = [claim EXCEPT ![p] = "probe"]
        /\ cur' = [cur EXCEPT ![r] = p]
        /\ RefreshGoes(r, "probing")
     \/ /\ attached[p] # scan[r][p] \/ claim[p] # "free"
        /\ UNCHANGED <<claim, cur, rpc>>
  /\ UNCHANGED <<attached, lastAddr, registry, devices, opening, guardVars,
                 openerVars, scan, found, overlapped, streamVars>>

\* The query answers, or fails, and the session opened for it is dropped.
CloseProbe(r) ==
  LET p == cur[r] IN
  /\ rpc[r] = "probing"
  /\ \/ /\ attached[p] = scan[r][p]
        /\ claim' = [claim EXCEPT ![p] = "free"]
        /\ \/ found' = [found EXCEPT ![r][p] = scan[r][p]]
           \/ FlakyProbes /\ UNCHANGED found
     \/ /\ attached[p] # scan[r][p]
        /\ UNCHANGED <<claim, found>>
  /\ RefreshGoes(r, "probe")
  /\ UNCHANGED <<attached, lastAddr, registry, devices, opening, guardVars,
                 openerVars, scan, todo, cur, overlapped, streamVars>>

ScanDone(r) ==
  /\ rpc[r] = "probe"
  /\ todo[r] = {}
  /\ todo' = [todo EXCEPT ![r] = {p \in Paths : found[r][p] # NoAddr}]
  /\ RefreshGoes(r, "upsert")
  /\ UNCHANGED <<usbVars, registry, devices, opening, guardVars, openerVars,
                 scan, found, cur, overlapped, streamVars>>

\* get and upsert_registration, under one lock of the registry.
UpsertFound(r, p) ==
  LET previous == registry.byPath[p]
      addr     == found[r][p]
  IN  /\ rpc[r] = "upsert"
      /\ p \in todo[r]
      /\ registry' = Upsert(registry, p, addr)
      /\ todo' = [todo EXCEPT ![r] = @ \ {p}]
      /\ cur' = [cur EXCEPT ![r] = p]
      /\ \/ /\ previous.online /\ previous.addr = addr
            /\ UNCHANGED rpc
         \/ /\ previous.addr \notin {NoAddr, addr}
            /\ RefreshGoes(r, "drop")
         \/ /\ ~previous.online
            /\ previous.addr \in {NoAddr, addr}
            /\ RefreshGoes(r, "notify")
      /\ UNCHANGED <<usbVars, devices, opening, guardVars, openerVars, scan,
                     found, overlapped, streamVars>>

\* Mutant of DropMoved: the loop's path is forgotten along with the session.
DropMovedAndPath(r) ==
  /\ rpc[r] = "drop"
  /\ devices' = [devices EXCEPT ![cur[r]] = NoAddr]
  /\ cur' = [cur EXCEPT ![r] = NoPath]
  /\ RefreshGoes(r, "notify")
  /\ UNCHANGED <<usbVars, registry, opening, guardVars, openerVars, scan,
                 found, todo, overlapped, streamVars>>

\* Mutant of DropMoved: nobody is told that the device is back.
DropMovedQuietly(r) ==
  /\ rpc[r] = "drop"
  /\ devices' = [devices EXCEPT ![cur[r]] = NoAddr]
  /\ RefreshGoes(r, "upsert")
  /\ UNCHANGED <<usbVars, registry, opening, guardVars, openerVars, scan,
                 found, todo, cur, overlapped, streamVars>>

\* The device has moved to another address: forget its session.
DropMoved(r) ==
  /\ rpc[r] = "drop"
  /\ devices' = [devices EXCEPT ![cur[r]] = NoAddr]
  /\ RefreshGoes(r, "notify")
  /\ UNCHANGED <<usbVars, registry, opening, guardVars, openerVars, scan,
                 found, todo, cur, overlapped, streamVars>>

\* device_tx.send: a full queue loses its oldest event (the stream skips the
\* Lagged error); without subscribers the event is lost.
Broadcast(p, online) ==
  LET event == [path |-> p, online |-> online]
  IN  rx' = [w \in Watchers |->
               IF ~Streaming(w) THEN rx[w]
               ELSE IF Len(rx[w]) < RxCap THEN Append(rx[w], event)
               ELSE Append(Tail(rx[w]), event)]

Notify(r) ==
  /\ rpc[r] = "notify"
  /\ Broadcast(cur[r], TRUE)
  /\ RefreshGoes(r, "upsert")
  /\ UNCHANGED <<usbVars, registry, devices, opening, guardVars, openerVars,
                 scan, found, todo, cur, overlapped, initial, view>>

\* mark_offline_missing_paths.
Sweep(r) ==
  LET live == {p \in Paths : found[r][p] # NoAddr}
  IN  /\ rpc[r] = "upsert"
      /\ todo[r] = {}
      /\ registry' = MarkOfflineMissing(registry, live)
      /\ todo' = [todo EXCEPT ![r] = NewlyOffline(registry, live)]
      /\ RefreshGoes(r, "offline")
      /\ UNCHANGED <<usbVars, devices, opening, guardVars, openerVars, scan,
                     found, cur, overlapped, streamVars>>

DropOffline(r, p) ==
  /\ rpc[r] = "offline"
  /\ p \in todo[r]
  /\ todo' = [todo EXCEPT ![r] = @ \ {p}]
  /\ cur' = [cur EXCEPT ![r] = p]
  /\ devices' = [devices EXCEPT ![p] = NoAddr]
  /\ RefreshGoes(r, "notifyOffline")
  /\ UNCHANGED <<usbVars, registry, opening, guardVars, openerVars, scan,
                 found, overlapped, streamVars>>

NotifyOffline(r) ==
  /\ rpc[r] = "notifyOffline"
  /\ Broadcast(cur[r], FALSE)
  /\ RefreshGoes(r, "offline")
  /\ UNCHANGED <<usbVars, registry, devices, opening, guardVars, openerVars,
                 scan, found, todo, cur, overlapped, initial, view>>

\* The spawned task clears discovery_refreshing; watch_dev_list goes on.
RefreshDone(r) ==
  /\ rpc[r] = "offline"
  /\ todo[r] = {}
  /\ scan' = [scan EXCEPT ![r] = [p \in Paths |-> NoAddr]]
  /\ found' = [found EXCEPT ![r] = [p \in Paths |-> NoAddr]]
  /\ cur' = [cur EXCEPT ![r] = NoPath]
  /\ overlapped' = overlapped \ {r}
  /\ \/ /\ r = Background
        /\ refreshing' = FALSE
        /\ RefreshGoes(r, "idle")
     \/ /\ r \in Watchers
        /\ RefreshGoes(r, "resnapshot")
        /\ UNCHANGED refreshing
  /\ UNCHANGED <<usbVars, registry, devices, opening, ticking, phase,
                 openerVars, todo, streamVars>>

RefreshStep(r) ==
  \/ Scan(r) \/ ScanFails(r)
  \/ \E p \in Paths : \/ Identify(r, p) \/ OpenProbe(r, p)
                      \/ UpsertFound(r, p) \/ DropOffline(r, p)
  \/ CloseProbe(r) \/ ScanDone(r) \/ DropMoved(r) \/ Notify(r)
  \/ Sweep(r) \/ NotifyOffline(r) \/ RefreshDone(r)

-----------------------------------------------------------------------------
(* watch_dev_list.                                                         *)

\* An empty snapshot is refreshed on the spot, outside the compare-and-swap.
Watch(w) ==
  /\ rpc[w] = "idle"
  /\ initial' = [initial EXCEPT ![w] = Snapshot(registry)]
  /\ \/ /\ KnownPaths(registry) = {}
        /\ RefreshGoes(w, "scan")
        /\ Meet(w)
     \/ /\ KnownPaths(registry) # {}
        /\ RefreshGoes(w, "queue")
        /\ UNCHANGED overlapped
  /\ UNCHANGED <<usbVars, registry, devices, opening, guardVars, openerVars,
                 scan, found, todo, cur, rx, view>>

QueueFromWatch(w) ==
  /\ rpc[w] = "queue"
  /\ QueueRefresh
  /\ rpc' = [rpc EXCEPT ![w] = "subscribe",
                        ![Background] = IF refreshing THEN @ ELSE "scan"]
  /\ UNCHANGED <<usbVars, registry, devices, opening, ticking, phase,
                 openerVars, scan, found, todo, cur, streamVars>>

Resnapshot(w) ==
  /\ rpc[w] = "resnapshot"
  /\ initial' = [initial EXCEPT ![w] = Snapshot(registry)]
  /\ RefreshGoes(w, "subscribe")
  /\ UNCHANGED <<usbVars, registry, devices, opening, guardVars, openerVars,
                 scan, found, todo, cur, overlapped, rx, view>>

\* Only now is there a receiver: what was sent since the snapshot is lost.
Subscribe(w) ==
  /\ rpc[w] = "subscribe"
  /\ view' = [view EXCEPT ![w] = initial[w]]
  /\ RefreshGoes(w, "streaming")
  /\ UNCHANGED <<usbVars, registry, devices, opening, guardVars, openerVars,
                 scan, found, todo, cur, overlapped, initial, rx>>

Deliver(w) ==
  /\ Streaming(w)
  /\ rx[w] # <<>>
  /\ view' = [view EXCEPT ![w][Head(rx[w]).path] =
                IF Head(rx[w]).online THEN "online" ELSE "offline"]
  /\ rx' = [rx EXCEPT ![w] = Tail(@)]
  /\ UNCHANGED <<usbVars, registry, devices, opening, guardVars, openerVars,
                 refreshVars, initial>>

\* The client closes its stream.
Unwatch(w) ==
  /\ Streaming(w)
  /\ RefreshGoes(w, "idle")
  /\ rx' = [rx EXCEPT ![w] = <<>>]
  /\ initial' = [initial EXCEPT ![w] = Snapshot(EmptyRegistry)]
  /\ view' = [view EXCEPT ![w] = Snapshot(EmptyRegistry)]
  /\ UNCHANGED <<usbVars, registry, devices, opening, guardVars, openerVars,
                 scan, found, todo, cur, overlapped>>

WatchStep(w) ==
  QueueFromWatch(w) \/ Resnapshot(w) \/ Subscribe(w) \/ Deliver(w)

-----------------------------------------------------------------------------
(* shutdown, called when SIGTERM arrives.  The server goes on serving, and *)
(* the background loop goes on running, until the process ends.            *)

Drain ==
  /\ AllowShutdown
  /\ phase = "up"
  /\ devices' = [p \in Paths |-> NoAddr]
  /\ phase' = "drained"
  /\ UNCHANGED <<usbVars, registry, opening, refreshing, ticking, openerVars,
                 refreshVars, streamVars>>

ClearRegistry ==
  /\ phase = "drained"
  /\ registry' = EmptyRegistry
  /\ phase' = "unregistered"
  /\ UNCHANGED <<usbVars, devices, opening, refreshing, ticking, openerVars,
                 refreshVars, streamVars>>

ClearOpening ==
  /\ phase = "unregistered"
  /\ opening' = {}
  /\ phase' = "down"
  /\ UNCHANGED <<usbVars, registry, devices, refreshing, ticking, openerVars,
                 refreshVars, streamVars>>

ShutdownStep == Drain \/ ClearRegistry \/ ClearOpening

-----------------------------------------------------------------------------
UsbStep == \E p \in Paths : Plug(p) \/ Unplug(p) \/ TransportExit(p)

Next ==
  \/ UsbStep
  \/ \E o \in Openers : OpenerStep(o) \/ \E p \in Paths : Call(o, p)
  \/ Tick \/ QueueFromTick
  \/ \E r \in Refreshers : RefreshStep(r)
  \/ \E w \in Watchers : Watch(w) \/ WatchStep(w) \/ Unwatch(w)
  \/ ShutdownStep

Spec == Init /\ [][Next]_vars

\* Tasks and threads that are runnable run; clients need not call, users need
\* not plug, and nobody has to stop the service.
Fairness ==
  /\ \A o \in Openers : WF_vars(OpenerStep(o))
  /\ \A r \in Refreshers : WF_vars(RefreshStep(r))
  /\ \A w \in Watchers : WF_vars(WatchStep(w))
  /\ \A p \in Paths : WF_vars(TransportExit(p))
  /\ WF_vars(Tick) /\ WF_vars(QueueFromTick)

FairSpec == Spec /\ Fairness
=============================================================================
