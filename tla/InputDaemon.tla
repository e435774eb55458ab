---------------------------- MODULE InputDaemon -----------------------------
(***************************************************************************)
(* The input daemon, monsgeek-inputd: a supervisor that looks at the bus   *)
(* once a second and keeps one worker thread for each keyboard, the        *)
(* workers, the files by which they tell other programs which keyboards    *)
(* are typed on, and systemd, which starts a failed daemon again.          *)
(*                                                                         *)
(* A worker's thread is named by the address its keyboard had when it was  *)
(* spawned, and so is its session.  What it does with a report is the      *)
(* business of InputProcessor; here a read ends well, badly, or finds the  *)
(* keyboard gone.                                                          *)
(*                                                                         *)
(* Selectors are left out: Ports are those that match.  Without signals    *)
(* the daemon never stops; MayStop says whether it gets one.               *)
(***************************************************************************)
EXTENDS UsbSession

CONSTANTS
  DISCONNECT_ERROR_THRESHOLD,  \* consecutive errors that end a worker
  MayStop                      \* whether SIGTERM may come

ASSUME WorkersAssumption == Sessions = 1 .. MaxAddresses
ASSUME ThresholdAssumption == DISCONNECT_ERROR_THRESHOLD \in Nat \ {0}
ASSUME MayStopAssumption == MayStop \in BOOLEAN

VARIABLES
  supervisor, \* where run_daemon is
  live,       \* the devices its look found, by their addresses
  workers,    \* the worker handle of each path, by the worker's address
  shutdown,   \* the flag SIGTERM sets
  told,       \* worker_shutdown of each worker
  thread,     \* where each worker's thread is
  errors,     \* consecutive_errors of each worker
  files       \* the active path file of each path, by the published address

daemon == <<supervisor, live, workers, shutdown>>
threads == <<told, thread, errors, files>>
usb  == <<bus, session, dropped, faults>>
vars == <<usb, daemon, threads>>

Supervisors == {"down", "look", "stale", "joining", "spawn", "ending", "stopped"}
Threads == {"none", "opening", "reading", "leaving", "ended"}

Init ==
  /\ UsbInit
  /\ supervisor = "down"
  /\ live = {}
  /\ workers = [p \in Ports |-> NoAddress]
  /\ shutdown = FALSE
  /\ told = [a \in Addresses |-> FALSE]
  /\ thread = [a \in Addresses |-> "none"]
  /\ errors = [a \in Addresses |-> 0]
  /\ files = [p \in Ports |-> NoAddress]

Step(to)      == supervisor' = to
Becomes(a, t) == thread' = [thread EXCEPT ![a] = t]
Over(a)       == thread[a] \in {"none", "ended"}

----------------------------------------------------------------------------

(* The supervisor: run_daemon, its steps in the order of its loop. *)

\* systemd starts the daemon, again if it failed: external.
Start ==
  /\ supervisor = "down"
  /\ Step("look")
  /\ UNCHANGED <<usb, live, workers, shutdown, threads>>

\* Mutant of Exits: the daemon ends as if all were well.
ExitsQuietly ==
  /\ Step("stopped")
  /\ workers' = [p \in Ports |-> NoAddress]
  /\ live' = {}
  /\ thread' = [a \in Addresses |-> "none"]
  /\ told' = [a \in Addresses |-> FALSE]
  /\ errors' = [a \in Addresses |-> 0]
  /\ Killed(Sessions)
  /\ UNCHANGED <<at, addresses, port, shutdown, files>>

\* The process ends, with a failure: the threads with it, its handles are closed, and the
\* virtual keyboards are gone.  The files stay.
Exits ==
  /\ Step("down")
  /\ workers' = [p \in Ports |-> NoAddress]
  /\ live' = {}
  /\ thread' = [a \in Addresses |-> "none"]
  /\ told' = [a \in Addresses |-> FALSE]
  /\ errors' = [a \in Addresses |-> 0]
  /\ Killed(Sessions)
  /\ UNCHANGED <<at, addresses, port, shutdown, files>>

Look ==
  /\ supervisor = "look"
  /\ ~ shutdown
  /\ Live # {}
  /\ live' = Live
  /\ Step("stale")
  /\ UNCHANGED <<usb, workers, shutdown, threads>>

\* No keyboard, or an error of the listing, ends the daemon.
LookFails ==
  /\ supervisor = "look"
  /\ ~ shutdown
  /\ IF Live # {} THEN Fault ELSE UNCHANGED faults
  /\ Exits

LivePaths  == {port[a] : a \in live}
StalePaths == {p \in Ports : workers[p] # NoAddress /\ p \notin LivePaths}

\* One after the other, a worker whose path is gone is told to stop and joined.
TellStale ==
  /\ supervisor = "stale"
  /\ \E p \in StalePaths : told' = [told EXCEPT ![workers[p]] = TRUE]
  /\ Step("joining")
  /\ UNCHANGED <<usb, live, workers, shutdown, thread, errors, files>>

\* Mutant of JoinStale: the handle is dropped and the thread runs on.
JoinStaleDetaches ==
  /\ supervisor = "joining"
  /\ \E p \in StalePaths :
       /\ told[workers[p]]
       /\ workers' = [workers EXCEPT ![p] = NoAddress]
  /\ Step("stale")
  /\ UNCHANGED <<usb, live, shutdown, threads>>

JoinStale ==
  /\ supervisor = "joining"
  /\ \E p \in StalePaths :
       /\ told[workers[p]]
       /\ Over(workers[p])
       /\ workers' = [workers EXCEPT ![p] = NoAddress]
       /\ told' = [told EXCEPT ![workers[p]] = FALSE]
       /\ Becomes(workers[p], "none")
  /\ Step("stale")
  /\ UNCHANGED <<usb, live, shutdown, errors, files>>

\* When none is left, the handles of threads that ended are removed.
Reap ==
  /\ supervisor = "stale"
  /\ StalePaths = {}
  /\ LET finished == {p \in Ports : workers[p] # NoAddress /\ Over(workers[p])} IN
     /\ workers' = [p \in Ports |-> IF p \in finished THEN NoAddress ELSE workers[p]]
     /\ thread' = [a \in Addresses |->
          IF \E p \in finished : workers[p] = a THEN "none" ELSE thread[a]]
  /\ Step("spawn")
  /\ UNCHANGED <<usb, live, shutdown, told, errors, files>>

\* Devices whose path has no worker get one; then the supervisor sleeps.
Unserved == {a \in live : workers[port[a]] = NoAddress}

Spawn ==
  /\ supervisor = "spawn"
  /\ workers' = [p \in Ports |->
       IF \E a \in Unserved : port[a] = p THEN CHOOSE a \in Unserved : port[a] = p
       ELSE workers[p]]
  /\ thread' = [a \in Addresses |-> IF a \in Unserved THEN "opening" ELSE thread[a]]
  /\ told' = [a \in Addresses |-> a \notin Unserved /\ told[a]]
  /\ live' = {}
  /\ Step("look")
  /\ UNCHANGED <<usb, shutdown, errors, files>>

\* SIGTERM or SIGINT, from outside.
Signal ==
  /\ MayStop
  /\ supervisor \notin {"down", "ending", "stopped"}
  /\ ~ shutdown
  /\ shutdown' = TRUE
  /\ UNCHANGED <<usb, supervisor, live, workers, threads>>

End ==
  /\ supervisor = "look"
  /\ shutdown
  /\ Step("ending")
  /\ UNCHANGED <<usb, live, workers, shutdown, threads>>

\* All workers are joined, and the directory of active paths is removed.
Stop ==
  /\ supervisor = "ending"
  /\ \A p \in {q \in Ports : workers[q] # NoAddress} : Over(workers[p])
  /\ workers' = [p \in Ports |-> NoAddress]
  /\ files' = [p \in Ports |-> NoAddress]
  /\ Step("stopped")
  /\ UNCHANGED <<usb, live, shutdown, told, thread, errors>>

----------------------------------------------------------------------------

(* A worker: run_worker. *)

Opens(a) ==
  /\ thread[a] = "opening"
  /\ OpenAt(a, a)
  /\ UNCHANGED <<daemon, threads>>

SessionStep(a) ==
  /\ thread[a] = "opening"
  /\ Opening(a)
  /\ UNCHANGED <<daemon, threads>>

\* The session could not be opened: the worker ends.
OpenFailed(a) ==
  /\ thread[a] = "opening"
  /\ pc[a] = "failed"
  /\ Goes(a, "closed")
  /\ Becomes(a, "ended")
  /\ UNCHANGED <<bus, want, dev, todo, detached, recovered, dropped, faults, daemon,
                 told, errors, files>>

Publishes(a) == files' = [files EXCEPT ![port[a]] = a]
Withdraws(a) == files' = [files EXCEPT ![port[a]] = NoAddress]

\* The virtual keyboard is made and the path published.
Publish(a) ==
  /\ thread[a] = "opening"
  /\ pc[a] = "open"
  /\ Publishes(a)
  /\ Becomes(a, "reading")
  /\ UNCHANGED <<usb, daemon, told, errors>>

UinputFails(a) ==
  /\ thread[a] = "opening"
  /\ pc[a] = "open"
  /\ Fault
  /\ Becomes(a, "leaving")
  /\ UNCHANGED <<bus, session, dropped, daemon, told, errors, files>>

\* Every 15 seconds the path is published again.
Republish(a) ==
  /\ thread[a] = "reading"
  /\ Publishes(a)
  /\ UNCHANGED <<usb, daemon, told, thread, errors>>

\* The ways out of the loop all withdraw the path before the session is closed.
Leaves(a) ==
  /\ Becomes(a, "leaving")
  /\ Withdraws(a)

StopsWhenTold(a) ==
  /\ thread[a] = "reading"
  /\ shutdown \/ told[a]
  /\ Leaves(a)
  /\ errors' = [errors EXCEPT ![a] = 0]
  /\ UNCHANGED <<usb, daemon, told>>

ReadsReport(a) ==
  /\ thread[a] = "reading"
  /\ dev[a] \in Live
  /\ owner[dev[a]][IF0] = a
  /\ errors' = [errors EXCEPT ![a] = 0]
  /\ UNCHANGED <<usb, daemon, told, thread, files>>

Disconnected(a) ==
  /\ thread[a] = "reading"
  /\ dev[a] \notin Live
  /\ Leaves(a)
  /\ errors' = [errors EXCEPT ![a] = 0]
  /\ UNCHANGED <<usb, daemon, told>>

\* Another error, of which the threshold ends the worker: the session lost its
\* claim to a reset, or a fault.
ReadFails(a) ==
  /\ thread[a] = "reading"
  /\ dev[a] \in Live
  /\ IF owner[dev[a]][IF0] = a THEN Fault ELSE UNCHANGED faults
  /\ IF errors[a] + 1 >= DISCONNECT_ERROR_THRESHOLD
     THEN Leaves(a) /\ errors' = [errors EXCEPT ![a] = 0]
     ELSE errors' = [errors EXCEPT ![a] = @ + 1] /\ UNCHANGED <<thread, files>>
  /\ UNCHANGED <<bus, session, dropped, daemon, told>>

\* The events of a report cannot be written to the virtual keyboard.
EmitFails(a) ==
  /\ thread[a] = "reading"
  /\ dev[a] \in Live
  /\ owner[dev[a]][IF0] = a
  /\ Fault
  /\ Leaves(a)
  /\ errors' = [errors EXCEPT ![a] = 0]
  /\ UNCHANGED <<bus, session, dropped, daemon, told>>

CloseSession(a) ==
  /\ thread[a] = "leaving"
  /\ Drop(a)
  /\ Becomes(a, "ended")
  /\ UNCHANGED <<daemon, told, errors, files>>

Worker(a) ==
  \/ Opens(a) \/ SessionStep(a) \/ OpenFailed(a) \/ Publish(a) \/ UinputFails(a)
  \/ Republish(a) \/ StopsWhenTold(a) \/ ReadsReport(a) \/ Disconnected(a)
  \/ ReadFails(a) \/ EmitFails(a) \/ CloseSession(a)

----------------------------------------------------------------------------

Driver ==
  /\ \E a \in Addresses : ResetAndReopen(a)
  /\ UNCHANGED <<daemon, threads>>

Hotplug ==
  /\ \E p \in Ports : Plug(p) \/ Unplug(p)
  /\ UNCHANGED <<daemon, threads>>

Supervisor ==
  \/ Look \/ LookFails \/ TellStale \/ JoinStale \/ Reap \/ Spawn
  \/ End \/ Stop

Next ==
  \/ Start \/ Supervisor \/ Signal
  \/ \E a \in Addresses : Worker(a)
  \/ Driver \/ Hotplug

Spec == Init /\ [][Next]_vars

\* systemd restarts the daemon, the operating system runs its threads, and
\* a keyboard that is there is read.
FairSpec ==
  /\ Spec
  /\ WF_vars(Start) /\ WF_vars(Supervisor)
  /\ \A a \in Addresses : WF_vars(Worker(a))

----------------------------------------------------------------------------

TypeOK ==
  /\ UsbTypeOK
  /\ supervisor \in Supervisors
  /\ live \in SUBSET Addresses
  /\ workers \in [Ports -> Addresses \cup {NoAddress}]
  /\ shutdown \in BOOLEAN
  /\ told \in [Addresses -> BOOLEAN]
  /\ thread \in [Addresses -> Threads]
  /\ errors \in [Addresses -> 0 .. DISCONNECT_ERROR_THRESHOLD - 1]
  /\ files \in [Ports -> Addresses \cup {NoAddress}]

\* While a worker reads a keyboard the path of that keyboard is published as its
\* own: no worker that was there before withdraws it afterwards, however the
\* keyboard was unplugged and plugged in again between two looks.
ReadersArePublished ==
  \A a \in Addresses : thread[a] = "reading" => files[port[a]] = a

\* Once the daemon has stopped no thread of it is left and no path published,
\* and every keyboard types through the kernel again, but for those on which
\* an open failed half way.
StopGivesBack ==
  supervisor = "stopped" =>
    /\ \A a \in Addresses : Over(a) /\ pc[a] = "closed"
    /\ \A p \in Ports : files[p] = NoAddress
    /\ \A a \in Live \ dropped : owner[a][IF0] = Kernel

Served(p) ==
  \E a \in Addresses :
    /\ thread[a] = "reading"
    /\ dev[a] = at[p]
    /\ owner[at[p]][IF0] = a

\* A keyboard that stays plugged in is read in the end, and then for good,
\* whatever restarts of the daemon, resets and failing opens that takes.
KeyboardsAreServed ==
  \A p \in Ports :
    <>[](at[p] # NoAddress /\ ~ shutdown) => <>[]Served(p)
=============================================================================
