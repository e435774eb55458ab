---------------------- MODULE DriverServiceProperties -----------------------
(***************************************************************************)
(* What the driver's session, registry and discovery code must guarantee   *)
(* however RPC tasks, discovery refreshes, subscribers, the shutdown       *)
(* handler and the user's hands on the USB cable interleave.               *)
(***************************************************************************)
EXTENDS DriverService

PathOrNone == Paths \cup {NoPath}
AddrOrNone == 0 .. MaxAddr

UsbTypeOK ==
  /\ attached \in [Paths -> AddrOrNone]
  /\ lastAddr \in AddrOrNone
  /\ claim \in [Paths -> Claims]

TableTypeOK ==
  /\ registry \in RegistryValue
  /\ devices \in [Paths -> AddrOrNone]
  /\ opening \subseteq Paths
  /\ refreshing \in BOOLEAN
  /\ ticking \in BOOLEAN
  /\ phase \in Phases

OpenerTypeOK ==
  /\ opc \in [Openers -> OpenerPcs]
  /\ target \in [Openers -> PathOrNone]
  /\ \A o \in Openers : opc[o] # "idle" => target[o] \in Paths
  /\ snap \in [Openers -> AddrOrNone]
  /\ held \in [Openers -> AddrOrNone]
  /\ calls \in [Openers -> 0 .. MaxCalls]

RefreshTypeOK ==
  /\ rpc \in [Refreshers -> {"idle"} \cup RefreshPcs \cup WatchPcs]
  /\ rpc[Background] \in {"idle"} \cup RefreshPcs
  /\ scan \in [Refreshers -> [Paths -> AddrOrNone]]
  /\ found \in [Refreshers -> [Paths -> AddrOrNone]]
  /\ todo \in [Refreshers -> SUBSET Paths]
  /\ cur \in [Refreshers -> PathOrNone]
  /\ \A r \in Refreshers :
       rpc[r] \in {"probing", "drop", "notify", "notifyOffline"}
         => cur[r] \in Paths
  /\ overlapped \subseteq Refreshers

StreamTypeOK ==
  /\ initial \in [Watchers -> [Paths -> Status]]
  /\ rx \in [Watchers -> Seq(Event)]
  /\ view \in [Watchers -> [Paths -> Status]]

\* Every variable has the shape the code's tables and locals have; a task that
\* is past its first step has a path to work on.
TypeOK == /\ UsbTypeOK /\ TableTypeOK
          /\ OpenerTypeOK /\ RefreshTypeOK /\ StreamTypeOK

-----------------------------------------------------------------------------
(* Opening sessions.                                                       *)

\* open_device lets one task at a time open a given path: between entering
\* opening_paths and leaving it no other task is inside for the same path,
\* as long as shutdown has not emptied the set under their feet.
OneOpenerPerPath ==
  phase # "down" =>
    \A o1, o2 \in Openers :
      InSlot(o1) /\ InSlot(o2) /\ target[o1] = target[o2] => o1 = o2

\* connect_registration never replaces a session that still works: the check
\* before the slot is taken is stale by then, so this rests on the exclusive
\* claim of IF2 as well as on the opening guard (and fails without the guard,
\* once shutdown has emptied opening_paths).
WorkingSessionNotReplaced ==
  [][\A p \in Paths :
       Works(p, devices[p]) /\ devices'[p] # devices[p] /\ phase # "down"
         => devices'[p] = NoAddr
    ]_devices

\* A working session anywhere in the service holds IF2 of its keyboard, so
\* neither a second session nor a firmware probe can talk to it meanwhile.
SessionHoldsClaim ==
  /\ \A p \in Paths : Works(p, devices[p]) => claim[p] = "session"
  /\ \A o \in Openers : held[o] # NoAddr /\ held[o] = attached[target[o]]
                          => claim[target[o]] = "session"

\* Every RPC that asks for a device gets an answer, and no task waits for
\* ever for another one's slot.
OpenReturns == \A o \in Openers : opc[o] # "idle" ~> opc[o] = "idle"

-----------------------------------------------------------------------------
(* Discovery.                                                              *)

SweepBy(r) == rpc[r] = "upsert" /\ rpc'[r] = "offline"
UpsertBy(r) == rpc[r] = "upsert" /\ todo'[r] # todo[r] /\ ~SweepBy(r)
Clearing == phase # phase'

\* A refresh takes a device that is known by its VID/PID alone off line only if
\* it really is not there (any more) at its registered address, unless it ran
\* while another refresh did.
OnlyGoneDevicesGoOffline ==
  [][\A p \in Paths :
       /\ Online(registry, p) /\ ~Online(registry', p) /\ ~Clearing
       /\ registry.byPath[p].addr = attached[p]
       /\ attached[p] \notin Ambiguous
       => \E r \in overlapped : SweepBy(r)]_registry

\* A refresh never puts an older address of a device back in place of a newer
\* one, unless it ran while another refresh did.
RegistryDoesNotGoBack ==
  [][\A p \in Paths :
       registry'.byPath[p].addr < registry.byPath[p].addr /\ ~Clearing
       => \E r \in overlapped : UpsertBy(r)]_registry

\* With addresses that are not reused, the by_bus_address index is exact: an
\* address leads to a path precisely when that path is online there.
IndexExact ==
  \A a \in Addrs, p \in Paths :
    registry.byBus[a] = p
      <=> registry.byPath[p] = [addr |-> a, online |-> TRUE]

\* The one keyboard the background discovery cannot find: its VID/PID is
\* shared, so it must be asked for its firmware id, and a session of the driver
\* that outlived its registration holds IF2.
HiddenBySession(p) ==
  attached[p] \in Ambiguous /\ Works(p, devices[p])

\* Discovery without clients: while nothing known is online, a keyboard that
\* is plugged in and stays is found ("This loop removes that dependency"), or
\* a session to it is open already.
NoDeadZone ==
  \A p \in Paths : NoneOnline /\ attached[p] # NoAddr
                     ~> \/ ~NoneOnline
                        \/ attached[p] = NoAddr
                        \/ HiddenBySession(p)

\* A subscriber learns that a keyboard has been unplugged ("Plugging in or
\* unplugging the keyboard triggers a device list update in the web
\* configurator in real time").
UnplugIsStreamed ==
  \A w \in Watchers, p \in Paths :
    Streaming(w) /\ view[w][p] = "online" /\ attached[p] = NoAddr
      ~> view[w][p] # "online" \/ attached[p] # NoAddr
=============================================================================
