---------------------------- MODULE PortTakeover ----------------------------
(***************************************************************************)
(* The start of monsgeek-driver: a driver that finds its port taken looks  *)
(* up the processes that listen on that port number, on whatever address,  *)
(* in /proc, stops one after the other if they are monsgeek-drivers        *)
(* (SIGTERM, then SIGKILL), and tries the port once more.  Several drivers *)
(* may be started at once, and each of them may be what another finds.     *)
(*                                                                         *)
(* A driver here is one process; systemd starts another one, Successor[d], *)
(* when d fails (Restart=on-failure).  Time is not modelled: the 1.5 s a   *)
(* taker waits and the 2 s a stopping driver takes at most may end in      *)
(* either order, because a driver without open streams ends sooner.        *)
(***************************************************************************)
EXTENDS Integers, FiniteSets

CONSTANTS
  Drivers,    \* processes that run monsgeek-driver
  Privileged, \* those of another user, such as root, whom others cannot inspect
  Successor,  \* the process systemd starts when one of its own fails
  Other,      \* a program that listens on the port number and is no driver: its
              \* command line does not have the string monsgeek-driver in it
  Free        \* nobody listens

ASSUME DriversAssumption ==
  /\ Privileged \subseteq Drivers \cup {Other}
  /\ Other \notin Drivers /\ Free \notin Drivers /\ Other # Free
  /\ \E S \in SUBSET Drivers : Successor \in [S -> Drivers]

VARIABLES
  pc,
  port,     \* who listens on 127.0.0.1:3814
  beside,   \* who listens on port 3814 of another address, say [::1]
  inodes,   \* a driver's inodes, as the processes whose sockets they are
  pids,     \* a driver's pids: the processes it still has to stop
  target,   \* the one it is stopping, or the last it stopped
  term,     \* processes with a SIGTERM to handle
  killed,   \* processes with a SIGKILL that has not ended them yet
  exit,     \* how a process ended
  stuck,    \* history: a process outlived its SIGKILL by 1.5 s
  spoiled   \* history: a driver that is not restarted gave up after it had
            \* stopped another

sockets == <<port, beside>>
locals  == <<inodes, pids, target>>
signals == <<term, killed>>
history == <<stuck, spoiled>>
vars == <<pc, sockets, locals, signals, exit, history>>

Pcs == {"down", "bind", "lookup", "walk", "check", "term", "wait", "kill",
        "wait_killed", "rebind", "bound", "serving", "draining", "exited"}

Init ==
  /\ pc = [d \in Drivers |-> "down"]
  /\ port \in {Free, Other}
  /\ beside \in {Free, Other}
  /\ inodes = [d \in Drivers |-> {}]
  /\ pids = [d \in Drivers |-> {}]
  /\ target = [d \in Drivers |-> Free]
  /\ term = {}
  /\ killed = {}
  /\ exit = [d \in Drivers |-> "none"]
  /\ stuck = FALSE
  /\ spoiled = FALSE

Goes(d, p) == pc' = [pc EXCEPT ![d] = p]
Alive(p) == p = Other \/ (p \in Drivers /\ pc[p] \notin {"down", "exited"})
Visible(d, p) == p \in Privileged => d \in Privileged
Listeners == {port, beside} \ {Free}

\* A process ends, and with it its variables, its socket and the signals sent
\* to it.
Ends(d, how) ==
  /\ Goes(d, "exited")
  /\ exit' = [exit EXCEPT ![d] = how]
  /\ port' = IF port = d THEN Free ELSE port
  /\ inodes' = [inodes EXCEPT ![d] = {}]
  /\ pids' = [pids EXCEPT ![d] = {}]
  /\ target' = [target EXCEPT ![d] = Free]
  /\ term' = term \ {d}
  /\ killed' = killed \ {d}
  /\ UNCHANGED beside

\* main returns the error.
GivesUp(d) == Ends(d, "failed") /\ UNCHANGED history

-----------------------------------------------------------------------------
(* serve_with_takeover.                                                    *)

\* Somebody starts a driver, or systemd the successor of one that failed: a
\* death by SIGTERM is a clean exit to Restart=on-failure, one by SIGKILL is not.
Start(d) ==
  /\ pc[d] = "down"
  /\ \A p \in DOMAIN Successor : Successor[p] = d => exit[p] \in {"failed", "killed"}
  /\ Goes(d, "bind")
  /\ UNCHANGED <<sockets, locals, signals, exit, history>>

Listen(d) ==
  /\ port = Free
  /\ port' = d
  /\ Goes(d, "bound")
  /\ UNCHANGED <<beside, locals, signals, exit, history>>

Bind(d) == pc[d] = "bind" /\ Listen(d)

AddrInUse(d) ==
  /\ pc[d] = "bind"
  /\ port # Free
  /\ Goes(d, "lookup")
  /\ UNCHANGED <<sockets, locals, signals, exit, history>>

\* listener_pids_for_port reads the inodes of the listening sockets first ...
ReadInodes(d) ==
  /\ pc[d] = "lookup"
  /\ IF Listeners = {}
     THEN GivesUp(d)
     ELSE /\ inodes' = [inodes EXCEPT ![d] = Listeners]
          /\ Goes(d, "walk")
          /\ UNCHANGED <<sockets, pids, target, signals, exit, history>>

\* ... and then goes through the processes for those that still have one open.
WalkProc(d, p) ==
  /\ pc[d] = "walk"
  /\ p \in inodes[d]
  /\ inodes' = [inodes EXCEPT ![d] = @ \ {p}]
  /\ pids' = [pids EXCEPT ![d] = @ \cup {q \in {p} : q \in Listeners /\ Visible(d, q)}]
  /\ UNCHANGED <<pc, sockets, target, signals, exit, history>>

WalkDone(d) ==
  /\ pc[d] = "walk"
  /\ inodes[d] = {}
  /\ IF pids[d] = {}
     THEN GivesUp(d)
     ELSE Goes(d, "check") /\ UNCHANGED <<sockets, locals, signals, exit, history>>

\* The next of pids, in whatever order they were numbered, is to be stopped.
Stops(d, p) ==
  /\ pids' = [pids EXCEPT ![d] = @ \ {p}]
  /\ target' = [target EXCEPT ![d] = p]
  /\ Goes(d, "term")
  /\ UNCHANGED <<sockets, inodes, signals, exit, history>>

\* Mutant of CheckCmdline: whoever has the port is stopped.
CheckNothing(d, p) ==
  /\ pc[d] = "check"
  /\ p \in pids[d]
  /\ Stops(d, p)

\* A process that is no driver is an error, whatever was stopped before it; so
\* is one that is gone, whose command line cannot be read.
CheckCmdline(d, p) ==
  /\ pc[d] = "check"
  /\ p \in pids[d]
  /\ IF p \in Drivers /\ Alive(p)
     THEN Stops(d, p)
     ELSE /\ Ends(d, "failed")
          /\ spoiled' = (spoiled \/ (target[d] # Free /\ d \notin DOMAIN Successor))
          /\ UNCHANGED stuck

\* A process that is gone (ESRCH) is fine.
SendTerm(d) ==
  /\ pc[d] = "term"
  /\ term' = term \cup {p \in {target[d]} : Alive(p)}
  /\ Goes(d, "wait")
  /\ UNCHANGED <<sockets, locals, killed, exit, history>>

\* wait_for_exit, after either signal; then the next of pids.
Gone(d) ==
  /\ pc[d] \in {"wait", "wait_killed"}
  /\ ~Alive(target[d])
  /\ Goes(d, IF pids[d] = {} THEN "rebind" ELSE "check")
  /\ UNCHANGED <<sockets, locals, signals, exit, history>>

WaitTimesOut(d) ==
  /\ pc[d] = "wait"
  /\ Alive(target[d])
  /\ Goes(d, "kill")
  /\ UNCHANGED <<sockets, locals, signals, exit, history>>

SendKill(d) ==
  /\ pc[d] = "kill"
  /\ killed' = killed \cup {p \in {target[d]} : Alive(p)}
  /\ Goes(d, "wait_killed")
  /\ UNCHANGED <<sockets, locals, term, exit, history>>

\* "failed to terminate stale monsgeek-driver pid".
KillTimesOut(d) ==
  /\ pc[d] = "wait_killed"
  /\ Alive(target[d])
  /\ Ends(d, "failed")
  /\ stuck' = TRUE
  /\ UNCHANGED spoiled

\* Mutant of Rebind: the port is not tried again after the takeover.
RebindForgotten(d) ==
  /\ pc[d] = "rebind"
  /\ GivesUp(d)

\* The second run_server: its failure is final.
Rebind(d) ==
  /\ pc[d] = "rebind"
  /\ \/ Listen(d)
     \/ port # Free /\ GivesUp(d)

-----------------------------------------------------------------------------
(* run_server and shutdown_signal.                                         *)

\* The handler of SIGTERM is registered after the port is bound.
Serve(d) ==
  /\ pc[d] = "bound"
  /\ Goes(d, "serving")
  /\ UNCHANGED <<sockets, locals, signals, exit, history>>

\* shutdown_signal: sessions are shut down and connections drained.  Without a
\* handler the process ends; while it drains, the signal is ignored.
HandleTerm(d) ==
  /\ d \in term
  /\ \/ /\ pc[d] \in {"serving", "draining"}
        /\ term' = term \ {d}
        /\ Goes(d, "draining")
        /\ UNCHANGED <<sockets, locals, killed, exit, history>>
     \/ /\ pc[d] \notin {"serving", "draining"}
        /\ Ends(d, "terminated")
        /\ UNCHANGED history

\* The server may close its socket before it has drained its connections.
CloseListener(d) ==
  /\ pc[d] = "draining"
  /\ port = d
  /\ port' = Free
  /\ UNCHANGED <<pc, beside, locals, signals, exit, history>>

\* The last stream has closed, or the grace period of 2 s is over.
Drained(d) ==
  /\ pc[d] = "draining"
  /\ Ends(d, "ok")
  /\ UNCHANGED history

Dies(d) ==
  /\ d \in killed
  /\ Ends(d, "killed")
  /\ UNCHANGED history

\* The other program frees one of its ports.
OtherLeaves ==
  /\ \/ port = Other /\ port' = Free /\ UNCHANGED beside
     \/ beside = Other /\ beside' = Free /\ UNCHANGED port
  /\ UNCHANGED <<pc, locals, signals, exit, history>>

Takeover(d) ==
  \/ Bind(d) \/ AddrInUse(d) \/ ReadInodes(d)
  \/ \E p \in inodes[d] : WalkProc(d, p)
  \/ WalkDone(d)
  \/ \E p \in pids[d] : CheckCmdline(d, p)
  \/ SendTerm(d) \/ Gone(d) \/ WaitTimesOut(d) \/ SendKill(d) \/ Rebind(d)
  \/ Serve(d)
Runs(d) == Takeover(d) \/ HandleTerm(d) \/ Drained(d) \/ Dies(d)

Next ==
  \/ \E d \in Drivers : Start(d) \/ Runs(d) \/ KillTimesOut(d) \/ CloseListener(d)
  \/ OtherLeaves

\* A process that can go on does, a signal is delivered in the end, and systemd
\* restarts what it should.
Fairness ==
  \A d \in Drivers :
    /\ WF_vars(Takeover(d)) /\ WF_vars(HandleTerm(d)) /\ WF_vars(Drained(d))
    /\ WF_vars(Dies(d))
    /\ d \in {Successor[p] : p \in DOMAIN Successor} => WF_vars(Start(d))

Spec == Init /\ [][Next]_vars /\ Fairness

-----------------------------------------------------------------------------
(* Properties.                                                             *)

TypeOK ==
  /\ pc \in [Drivers -> Pcs]
  /\ port \in Drivers \cup {Free, Other}
  /\ beside \in {Free, Other}
  /\ inodes \in [Drivers -> SUBSET (Drivers \cup {Other})]
  /\ pids \in [Drivers -> SUBSET (Drivers \cup {Other})]
  /\ target \in [Drivers -> Drivers \cup {Free}]
  /\ term \subseteq Drivers
  /\ killed \subseteq Drivers
  /\ exit \in [Drivers -> {"none", "ok", "failed", "killed", "terminated"}]
  /\ stuck \in BOOLEAN /\ spoiled \in BOOLEAN

Served == \E d \in Drivers : pc[d] = "serving"

\* Drivers that start at the same time, find each other and stop each other end
\* with one of them serving, once any of them has served: no two of them stop
\* each other, none gives up because of a process that another was stopping and
\* leaves the port to nobody, and the service of systemd and a driver started
\* by hand do not take over from each other for ever.  Two cases are excepted.
\* A process outlives SIGKILL by 1.5 s (stuck); or a driver that systemd does
\* not restart stops another and then finds that the next of the listeners is no
\* driver: it gives up, and the port it has freed stays free (spoiled,
\* main.rs:143-172).
TakeoverSettles == <>Served => <>(stuck \/ spoiled \/ []Served)

\* A program that is no driver is left alone, whoever gets the port meanwhile.
\* No driver is stopped either that has not listened on the port.
OnlyListenersAreStopped ==
  /\ Other \notin term \cup killed
  /\ \A d \in term \cup killed : pc[d] \in {"bound", "serving", "draining"}
=============================================================================
