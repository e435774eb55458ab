------------------------- MODULE PortTakeoverProofs -------------------------
(***************************************************************************)
(* Type correctness of PortTakeover, and that only drivers that have       *)
(* listened on the port are stopped: for any number of drivers that start, *)
(* find, stop and replace each other, whoever else uses the port.          *)
(*                                                                         *)
(* The argument: a driver that has listened on the port never returns to   *)
(* an earlier step (Listened), so what a taker found on the port stays a   *)
(* driver that may be stopped, though the port has changed hands since.    *)
(***************************************************************************)
EXTENDS PortTakeover, TLAPS

Listening == {"bound", "serving", "draining"}

\* Where a driver is that has looked at its target's command line.
Stopping == {"term", "wait", "kill", "wait_killed"}

Listened(p) == pc[p] \in Listening \cup {"exited"}

\* The drivers a driver has found on the port.
Found(d) == (inodes[d] \cup pids[d] \cup {target[d]}) \cap Drivers

\* A driver that has the port is listening; the drivers another has found on it
\* have listened on it; whom a driver is stopping is a driver.
FoundInv ==
  /\ port \in Drivers => pc[port] \in Listening
  /\ \A d \in Drivers : \A p \in Found(d) : Listened(p)
  /\ \A d \in Drivers : pc[d] \in Stopping => target[d] \in Drivers

TakeoverInv == TypeOK /\ FoundInv /\ OnlyListenersAreStopped

LEMMA TakeoverInvInit == Init => TakeoverInv
<1> SUFFICES ASSUME Init PROVE TakeoverInv
    OBVIOUS
<1>1. TypeOK
  BY DEF Init, TypeOK, Pcs
<1>2. \A d \in Drivers : pc[d] = "down"
  BY DEF Init
<1>3. \A d \in Drivers : pc[d] \notin Stopping /\ Found(d) = {}
  BY <1>2, DriversAssumption DEF Init, Found, Stopping
<1>4. FoundInv
  BY <1>3, DriversAssumption DEF Init, FoundInv
<1>5. OnlyListenersAreStopped
  BY DEF Init, OnlyListenersAreStopped
<1> QED
  BY <1>1, <1>4, <1>5 DEF TakeoverInv

-----------------------------------------------------------------------------
(* What one step of one driver leaves of the invariant.                    *)

\* A driver moves on and may have other variables, of which it is known whom
\* it has found; nobody gets or loses the port or a signal.
LEMMA MovesOn ==
  ASSUME TakeoverInv, NEW d \in Drivers, NEW p \in Pcs, Goes(d, p),
         TypeOK', UNCHANGED <<port, term, killed>>,
         \A q \in Drivers \ {d} : Found(q)' = Found(q) /\ target'[q] = target[q],
         \A q \in Found(d)' : Listened(q) /\ q # d,
         Listened(d) => p \in Listening,
         p \in Stopping => target'[d] \in Drivers
  PROVE  TakeoverInv'
<1> USE DEF TakeoverInv, Goes
<1>2. /\ \A q \in Drivers \ {d} : pc'[q] = pc[q]
      /\ pc'[d] = p
  BY DEF TypeOK
<1>3. \A q \in Drivers : Listened(q) => Listened(q)'
  BY <1>2 DEF Listened
<1>4. \A q \in Drivers : pc[q] \in Listening => pc'[q] \in Listening
  BY <1>2 DEF Listened
<1>5. FoundInv'
  <2>1. \A e \in Drivers : \A q \in Found(e)' : q \in Drivers /\ Listened(q)
    BY DEF FoundInv, Found
  <2>2. \A e \in Drivers : \A q \in Found(e)' : Listened(q)'
    BY <1>3, <2>1
  <2>3. port' \in Drivers => pc'[port'] \in Listening
    BY <1>4 DEF FoundInv
  <2>4. \A e \in Drivers : pc'[e] \in Stopping => target'[e] \in Drivers
    BY <1>2 DEF FoundInv
  <2> QED
    BY <2>2, <2>3, <2>4 DEF FoundInv
<1>6. OnlyListenersAreStopped'
  BY <1>4 DEF OnlyListenersAreStopped, Listening, TypeOK
<1> QED
  BY <1>5, <1>6

\* A driver moves on with the variables it has.
LEMMA JustMovesOn ==
  ASSUME TakeoverInv, NEW d \in Drivers, NEW p \in Pcs, Goes(d, p),
         UNCHANGED <<sockets, locals, signals, exit, history>>,
         Listened(d) => p \in Listening,
         p \in Stopping => pc[d] \in Stopping
  PROVE  TakeoverInv'
<1> USE DEF TakeoverInv, Goes, sockets, locals, signals, history
<1>1. TypeOK'
  BY DEF TypeOK
<1>2. /\ \A q \in Drivers \ {d} : pc'[q] = pc[q]
      /\ pc'[d] = p
  BY DEF TypeOK
<1>3. \A q \in Drivers : Listened(q) => Listened(q)'
  BY <1>2 DEF Listened
<1>4. \A q \in Drivers : pc[q] \in Listening => pc'[q] \in Listening
  BY <1>2 DEF Listened
<1>5. FoundInv'
  BY <1>2, <1>3, <1>4 DEF FoundInv, Found
<1>6. OnlyListenersAreStopped'
  BY <1>4 DEF OnlyListenersAreStopped, Listening, TypeOK
<1> QED
  BY <1>1, <1>5, <1>6

\* A process ends.
LEMMA EndsStep ==
  ASSUME TakeoverInv, NEW d \in Drivers,
         NEW how \in {"ok", "failed", "killed", "terminated"},
         Ends(d, how), stuck' \in BOOLEAN, spoiled' \in BOOLEAN
  PROVE  TakeoverInv'
<1> USE DEF TakeoverInv, Ends, Goes
<1>1. TypeOK'
  BY DEF TypeOK, Pcs
<1>2. /\ \A q \in Drivers \ {d} : pc'[q] = pc[q] /\ target'[q] = target[q]
      /\ pc'[d] = "exited"
  BY DEF TypeOK
<1>3. \A q \in Drivers : Listened(q) => Listened(q)'
  BY <1>2 DEF Listened
<1>4. FoundInv'
  <2>1. port' \in Drivers => pc'[port'] \in Listening
    BY <1>2, DriversAssumption DEF FoundInv
  <2>2. \A q \in Drivers : \A p \in Found(q)' : p \in Drivers /\ Listened(p)
    BY DriversAssumption DEF TypeOK, FoundInv, Found
  <2>3. \A q \in Drivers : \A p \in Found(q)' : Listened(p)'
    BY <1>3, <2>2
  <2>4. \A q \in Drivers : pc'[q] \in Stopping => target'[q] \in Drivers
    BY <1>2 DEF FoundInv, Stopping
  <2> QED
    BY <2>1, <2>3, <2>4 DEF FoundInv
<1>5. OnlyListenersAreStopped'
  BY <1>2 DEF OnlyListenersAreStopped, TypeOK
<1> QED
  BY <1>1, <1>4, <1>5

\* Only the holders of the port numbers change, to nobody.
LEMMA PortFreed ==
  ASSUME TakeoverInv, port' \in {Free, port}, beside' \in {Free, beside},
         UNCHANGED <<pc, locals, signals, exit, history>>
  PROVE  TakeoverInv'
  BY DriversAssumption
     DEF TakeoverInv, TypeOK, FoundInv, Found, OnlyListenersAreStopped, Listened,
         locals, signals, history

\* A driver gets the port.
LEMMA ListenStep ==
  ASSUME TakeoverInv, NEW d \in Drivers, pc[d] \in {"bind", "rebind"}, Listen(d)
  PROVE  TakeoverInv'
<1> USE DEF TakeoverInv, Listen, Goes, locals, signals, history
<1>1. TypeOK'
  BY DEF TypeOK, Pcs
<1>2. /\ \A q \in Drivers \ {d} : pc'[q] = pc[q]
      /\ pc'[d] = "bound"
  BY DEF TypeOK
<1>3. \A q \in Drivers : Listened(q) => Listened(q)'
  BY <1>2 DEF Listened, Listening
<1>4. FoundInv'
  BY <1>2, <1>3 DEF FoundInv, Found, Listening, Stopping
<1>5. OnlyListenersAreStopped'
  BY <1>2 DEF OnlyListenersAreStopped, TypeOK
<1> QED
  BY <1>1, <1>4, <1>5

\* A driver notes who has the port.
LEMMA InodesStep ==
  ASSUME TakeoverInv, NEW d \in Drivers, pc[d] = "lookup", Goes(d, "walk"),
         inodes' = [inodes EXCEPT ![d] = Listeners],
         UNCHANGED <<sockets, pids, target, signals, exit, history>>
  PROVE  TakeoverInv'
<1> USE DEF TakeoverInv, sockets, signals, history
<1>1. Listeners \subseteq Drivers \cup {Other}
  BY DEF TypeOK, Listeners
<1>2. TypeOK'
  BY <1>1 DEF TypeOK, Pcs, Goes
<1>3. \A q \in Drivers \ {d} : Found(q)' = Found(q) /\ target'[q] = target[q]
  BY DEF TypeOK, Found
<1>4. Found(d)' \subseteq Found(d) \cup {p \in Drivers : p = port}
  <2>1. beside \notin Drivers
    BY DriversAssumption DEF TypeOK
  <2> QED
    BY <2>1 DEF TypeOK, Found, Listeners
<1>5. \A q \in Found(d)' : Listened(q) /\ q # d
  BY <1>4 DEF FoundInv, Listened, Listening, Found
<1>6. ~Listened(d)
  BY DEF Listened, Listening
<1> QED
  BY <1>2, <1>3, <1>5, <1>6, MovesOn DEF Pcs, Stopping

\* A driver looks at a process, and decides to stop one.
LEMMA WalkStep ==
  ASSUME TakeoverInv, NEW d \in Drivers, NEW p \in inodes[d], WalkProc(d, p)
  PROVE  TakeoverInv'
<1> DEFINE seen == {q \in {p} : q \in Listeners /\ Visible(d, q)}
<1>0. seen \subseteq {p}
  OBVIOUS
<1> HIDE DEF seen
<1>1. /\ pc[d] = "walk" /\ UNCHANGED <<pc, port, beside, target, term, killed, exit, stuck, spoiled>>
      /\ inodes' = [inodes EXCEPT ![d] = @ \ {p}]
      /\ pids' = [pids EXCEPT ![d] = @ \cup seen]
  BY DEF WalkProc, seen, sockets, signals, history
<1>2. TypeOK
  BY DEF TakeoverInv
<1>3. p \in Drivers \cup {Other}
  BY <1>2 DEF TypeOK
<1>4. TypeOK'
  BY <1>0, <1>1, <1>2, <1>3 DEF TypeOK
<1>5. \A q \in Drivers : Found(q)' \subseteq Found(q)
  BY <1>0, <1>1, <1>2 DEF TypeOK, Found
<1>6. FoundInv'
  BY <1>1, <1>5 DEF TakeoverInv, FoundInv, Listened
<1>7. OnlyListenersAreStopped'
  BY <1>1 DEF TakeoverInv, OnlyListenersAreStopped
<1> QED
  BY <1>4, <1>6, <1>7 DEF TakeoverInv

LEMMA StopsStep ==
  ASSUME TakeoverInv, NEW d \in Drivers, NEW p \in pids[d], p \in Drivers,
         pc[d] = "check", Stops(d, p)
  PROVE  TakeoverInv'
<1> USE DEF TakeoverInv, Stops, sockets, signals, history
<1>1. TypeOK'
  BY DEF TypeOK, Pcs, Goes
<1>2. \A q \in Drivers \ {d} : Found(q)' = Found(q) /\ target'[q] = target[q]
  BY DEF TypeOK, Found
<1>3. Found(d)' \subseteq Found(d)
  BY DEF TypeOK, Found
<1>4. ~Listened(d)
  BY DEF Listened, Listening
<1>5. \A q \in Found(d)' : Listened(q) /\ q # d
  BY <1>3, <1>4 DEF FoundInv
<1>6. target'[d] \in Drivers
  BY DEF TypeOK
<1> QED
  BY <1>1, <1>2, <1>4, <1>5, <1>6, MovesOn DEF Pcs

\* A driver sends one of the signals: whom it found, if alive, is listening.
LEMMA TargetListens ==
  ASSUME TakeoverInv, NEW d \in Drivers, pc[d] \in Stopping, Alive(target[d])
  PROVE  target[d] \in Drivers /\ pc[target[d]] \in Listening /\ target[d] # d
<1>1. target[d] \in Drivers
  BY DEF TakeoverInv, FoundInv
<1>2. Listened(target[d])
  BY <1>1 DEF TakeoverInv, FoundInv, Found
<1>3. pc[target[d]] # "exited"
  BY <1>1, DriversAssumption DEF Alive
<1> QED
  BY <1>1, <1>2, <1>3 DEF Listened, Listening, Stopping

LEMMA SendTermStep ==
  ASSUME TakeoverInv, NEW d \in Drivers, SendTerm(d)
  PROVE  TakeoverInv'
<1> DEFINE new == {p \in {target[d]} : Alive(p)}
<1>1. pc[d] \in Stopping
  BY DEF SendTerm, Stopping
<1>2. \A p \in new : p \in Drivers /\ pc[p] \in Listening /\ p # d
  BY <1>1, TargetListens
<1> HIDE DEF new
<1>3. /\ pc' = [pc EXCEPT ![d] = "wait"] /\ term' = term \cup new
      /\ UNCHANGED <<port, beside, inodes, pids, target, killed, exit, stuck, spoiled>>
  BY DEF SendTerm, Goes, new, sockets, locals, history
<1>4. TypeOK'
  BY <1>2, <1>3 DEF TakeoverInv, TypeOK, Pcs
<1>5. /\ \A q \in Drivers \ {d} : pc'[q] = pc[q]
      /\ pc'[d] = "wait"
  BY <1>3 DEF TakeoverInv, TypeOK
<1>6. FoundInv'
  BY <1>1, <1>3, <1>5
     DEF TakeoverInv, FoundInv, Found, Listened, Listening, Stopping
<1>7. OnlyListenersAreStopped'
  BY <1>1, <1>2, <1>3, <1>5, DriversAssumption
     DEF TakeoverInv, TypeOK, OnlyListenersAreStopped, Listening, Stopping
<1> QED
  BY <1>4, <1>6, <1>7 DEF TakeoverInv

LEMMA SendKillStep ==
  ASSUME TakeoverInv, NEW d \in Drivers, SendKill(d)
  PROVE  TakeoverInv'
<1> DEFINE new == {p \in {target[d]} : Alive(p)}
<1>1. pc[d] \in Stopping
  BY DEF SendKill, Stopping
<1>2. \A p \in new : p \in Drivers /\ pc[p] \in Listening /\ p # d
  BY <1>1, TargetListens
<1> HIDE DEF new
<1>3. /\ pc' = [pc EXCEPT ![d] = "wait_killed"] /\ killed' = killed \cup new
      /\ UNCHANGED <<port, beside, inodes, pids, target, term, exit, stuck, spoiled>>
  BY DEF SendKill, Goes, new, sockets, locals, history
<1>4. TypeOK'
  BY <1>2, <1>3 DEF TakeoverInv, TypeOK, Pcs
<1>5. /\ \A q \in Drivers \ {d} : pc'[q] = pc[q]
      /\ pc'[d] = "wait_killed"
  BY <1>3 DEF TakeoverInv, TypeOK
<1>6. FoundInv'
  BY <1>1, <1>3, <1>5
     DEF TakeoverInv, FoundInv, Found, Listened, Listening, Stopping
<1>7. OnlyListenersAreStopped'
  BY <1>1, <1>2, <1>3, <1>5, DriversAssumption
     DEF TakeoverInv, TypeOK, OnlyListenersAreStopped, Listening, Stopping
<1> QED
  BY <1>4, <1>6, <1>7 DEF TakeoverInv

-----------------------------------------------------------------------------
(* The steps.                                                              *)

LEMMA GivesUpStep ==
  ASSUME TakeoverInv, NEW d \in Drivers, GivesUp(d)
  PROVE  TakeoverInv'
  BY EndsStep DEF GivesUp, TakeoverInv, TypeOK, history

LEMMA DriverStep ==
  ASSUME TakeoverInv, NEW d \in Drivers, Takeover(d)
  PROVE  TakeoverInv'
<1> USE DEF Pcs, Listened, Listening, Stopping
<1>1. CASE Bind(d)
  BY <1>1, ListenStep DEF Bind
<1>2. CASE AddrInUse(d)
  BY <1>2, JustMovesOn DEF AddrInUse
<1>3. CASE ReadInodes(d)
  BY <1>3, InodesStep, GivesUpStep DEF ReadInodes
<1>4. CASE \E p \in inodes[d] : WalkProc(d, p)
  BY <1>4, WalkStep
<1>5. CASE WalkDone(d)
  BY <1>5, JustMovesOn, GivesUpStep DEF WalkDone
<1>6. CASE \E p \in pids[d] : CheckCmdline(d, p)
  <2>1. PICK p \in pids[d] : CheckCmdline(d, p)
    BY <1>6
  <2>2. CASE p \in Drivers /\ Alive(p)
    BY <2>1, <2>2, StopsStep DEF CheckCmdline
  <2>3. CASE ~(p \in Drivers /\ Alive(p))
    <3>1. /\ Ends(d, "failed") /\ stuck' \in BOOLEAN
          /\ spoiled' = (spoiled \/ (target[d] # Free /\ d \notin DOMAIN Successor))
      BY <2>1, <2>3 DEF CheckCmdline, TakeoverInv, TypeOK
    <3>2. spoiled' \in BOOLEAN
      BY <3>1
    <3> QED
      BY <3>1, <3>2, EndsStep
  <2> QED
    BY <2>2, <2>3
<1>7. CASE SendTerm(d)
  BY <1>7, SendTermStep
<1>8. CASE Gone(d)
  BY <1>8, JustMovesOn DEF Gone
<1>9. CASE WaitTimesOut(d)
  BY <1>9, JustMovesOn DEF WaitTimesOut
<1>10. CASE SendKill(d)
  BY <1>10, SendKillStep
<1>11. CASE Rebind(d)
  BY <1>11, ListenStep, GivesUpStep DEF Rebind
<1>12. CASE Serve(d)
  BY <1>12, JustMovesOn DEF Serve
<1> QED
  BY <1>1, <1>2, <1>3, <1>4, <1>5, <1>6, <1>7, <1>8, <1>9, <1>10, <1>11, <1>12
     DEF Takeover

LEMMA SignalStep ==
  ASSUME TakeoverInv, NEW d \in Drivers, HandleTerm(d)
  PROVE  TakeoverInv'
<1>1. CASE Ends(d, "terminated") /\ UNCHANGED history
  BY <1>1, EndsStep DEF TakeoverInv, TypeOK, history
<1>2. CASE /\ pc[d] \in {"serving", "draining"}
           /\ term' = term \ {d}
           /\ pc' = [pc EXCEPT ![d] = "draining"]
           /\ UNCHANGED <<sockets, locals, killed, exit, history>>
  <2> USE <1>2 DEF sockets, locals, history
  <2>1. /\ \A q \in Drivers \ {d} : pc'[q] = pc[q]
        /\ pc'[d] = "draining"
    BY DEF TakeoverInv, TypeOK
  <2>2. TypeOK'
    BY DEF TakeoverInv, TypeOK, Pcs
  <2>3. FoundInv'
    BY <2>1 DEF TakeoverInv, FoundInv, Found, Listened, Listening, Stopping
  <2>4. OnlyListenersAreStopped'
    BY <2>1 DEF TakeoverInv, TypeOK, OnlyListenersAreStopped
  <2> QED
    BY <2>2, <2>3, <2>4 DEF TakeoverInv
<1> QED
  BY <1>1, <1>2 DEF HandleTerm, Goes

LEMMA TakeoverInvStep == TakeoverInv /\ [Next]_vars => TakeoverInv'
<1> SUFFICES ASSUME TakeoverInv, [Next]_vars PROVE TakeoverInv'
  OBVIOUS
<1>1. ASSUME NEW d \in Drivers, Start(d) PROVE TakeoverInv'
  BY <1>1, JustMovesOn DEF Start, Pcs, Listened, Listening, Stopping
<1>2. ASSUME NEW d \in Drivers, Takeover(d) PROVE TakeoverInv'
  BY <1>2, DriverStep
<1>3. ASSUME NEW d \in Drivers, HandleTerm(d) PROVE TakeoverInv'
  BY <1>3, SignalStep
<1>4. ASSUME NEW d \in Drivers, Drained(d) \/ Dies(d) \/ KillTimesOut(d)
      PROVE  TakeoverInv'
  BY <1>4, EndsStep DEF Drained, Dies, KillTimesOut, TakeoverInv, TypeOK, history
<1>5. ASSUME NEW d \in Drivers, CloseListener(d) PROVE TakeoverInv'
  BY <1>5, PortFreed DEF CloseListener
<1>6. CASE OtherLeaves
  BY <1>6, PortFreed DEF OtherLeaves
<1>7. CASE UNCHANGED vars
  BY <1>7
     DEF vars, sockets, locals, signals, history, TakeoverInv, TypeOK, FoundInv,
         Found, OnlyListenersAreStopped, Listened
<1> QED
  BY <1>1, <1>2, <1>3, <1>4, <1>5, <1>6, <1>7 DEF Next, Runs

LEMMA TakeoverHolds == Spec => []TakeoverInv
  BY TakeoverInvInit, TakeoverInvStep, PTL DEF Spec

\* The variables of the takeover keep their types.
THEOREM TakeoverTypeCorrect == Spec => []TypeOK
<1>1. TakeoverInv => TypeOK
  BY DEF TakeoverInv
<1> QED
  BY <1>1, TakeoverHolds, PTL

\* A signal of serve_with_takeover goes to a driver that has listened on the
\* port, never to another program and never to a driver that is itself still
\* starting, though the port may have changed hands since it was looked up.
THEOREM ListenersOnly == Spec => []OnlyListenersAreStopped
<1>1. TakeoverInv => OnlyListenersAreStopped
  BY DEF TakeoverInv
<1> QED
  BY <1>1, TakeoverHolds, PTL
=============================================================================
