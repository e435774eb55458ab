--------------------------- MODULE CommandService ---------------------------
(***************************************************************************)
(* What the transport thread promises the holders of a TransportHandle:    *)
(* "all commands are serialized".  A call that is made is executed exactly *)
(* once, at one moment between the call and its return, and then returns   *)
(* the result of its own command; no call is refused and every call ends.  *)
(***************************************************************************)
EXTENDS Sequences

CONSTANT Callers

VARIABLES status,  \* the call each caller has under way
          log      \* callers in the order their commands were executed

vars == <<status, log>>

Init == /\ status = [c \in Callers |-> "idle"]
        /\ log = <<>>

Invoke(c) == /\ status[c] = "idle"
             /\ status' = [status EXCEPT ![c] = "called"]
             /\ UNCHANGED log

Execute(c) == /\ status[c] = "called"
              /\ status' = [status EXCEPT ![c] = "executed"]
              /\ log' = Append(log, c)

Return(c) == /\ status[c] = "executed"
             /\ status' = [status EXCEPT ![c] = "idle"]
             /\ UNCHANGED log

Next == \E c \in Callers : Invoke(c) \/ Execute(c) \/ Return(c)

Spec == Init /\ [][Next]_vars

\* Every call is executed, and returns.
FairSpec == Spec /\ \A c \in Callers : WF_vars(Execute(c) \/ Return(c))
=============================================================================
