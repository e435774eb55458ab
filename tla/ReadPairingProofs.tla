------------------------- MODULE ReadPairingProofs --------------------------
(***************************************************************************)
(* For any number of clients, of either kind: the empty responses queued   *)
(* never outnumber the reads still owed and the reads given up.            *)
(*                                                                         *)
(* The bound is inductive together with the types.  Every step moves one   *)
(* client: the lemma JoinPending says what a step does to the count when   *)
(* its client starts to owe a read, LeavePending when it stops.            *)
(***************************************************************************)
EXTENDS ReadPairing, FiniteSetTheorems, TLAPS

Inv == TypeOK /\ NoResponseLeftBehind

\* Pending is a finite set and its size a natural number.
LEMMA PendingFinite == IsFiniteSet(Pending) /\ Cardinality(Pending) \in Nat
  <1>1. Pending \subseteq Clients  BY DEF Pending
  <1>2. IsFiniteSet(Pending)  BY <1>1, ClientsAssumption, FS_Subset
  <1> QED  BY <1>2, FS_CardinalityType

\* A client that becomes pending adds one to the number of reads owed.
LEMMA JoinPending ==
  ASSUME NEW c \in Clients, pc \in [Clients -> Pcs],
         pc[c] \in {"idle", "open"}, NEW q \in {"forward", "sent"},
         pc' = [pc EXCEPT ![c] = q]
  PROVE  /\ Cardinality(Pending') = Cardinality(Pending) + 1
         /\ Cardinality(Pending) \in Nat
  <1>1. Pending' = Pending \cup {c}  BY DEF Pending
  <1>2. c \notin Pending  BY DEF Pending
  <1> QED  BY <1>1, <1>2, PendingFinite, FS_AddElement

\* A client that stops being pending takes one off.
LEMMA LeavePending ==
  ASSUME NEW c \in Clients, pc \in [Clients -> Pcs],
         pc[c] = "sent", NEW q \in Pcs \ {"forward", "sent"},
         pc' = [pc EXCEPT ![c] = q]
  PROVE  /\ Cardinality(Pending') = Cardinality(Pending) - 1
         /\ Cardinality(Pending) \in Nat
  <1>1. Pending' = Pending \ {c}  BY DEF Pending
  <1>2. c \in Pending  BY DEF Pending
  <1> QED  BY <1>1, <1>2, PendingFinite, FS_RemoveElement

\* A step that leaves every client as pending as it was.
LEMMA StayPending ==
  ASSUME NEW c \in Clients, pc \in [Clients -> Pcs], NEW q \in Pcs,
         pc[c] \in {"forward", "sent"} <=> q \in {"forward", "sent"},
         pc' = [pc EXCEPT ![c] = q]
  PROVE  Pending' = Pending
  BY DEF Pending

\* Every step of a client keeps the types.
LEMMA StepType ==
  ASSUME TypeOK, NEW c \in Clients, Step(c)
  PROVE  TypeOK'
  <1> USE SendsAssumption DEF TypeOK, Pcs, Kinds, Replied, Hows, Goes, Replies
  <1>1. ASSUME NEW k \in Kinds, Send(c, k) PROVE TypeOK'
    BY <1>1 DEF Send
  <1>2. CASE OpenFails(c)  BY <1>2 DEF OpenFails
  <1>3. CASE Decide(c)
    <2>1. synthetic' \in Seq({Empty})  BY <1>3 DEF Decide
    <2>2. /\ pc' \in [Clients -> Pcs]
          /\ reply' \in [Clients -> Replied]
      BY <1>3 DEF Decide, Dispatch
    <2> QED  BY <1>3, <2>1, <2>2 DEF Decide
  <1>4. CASE Forward(c)
    <2>1. report' \in 0 .. MaxSends  BY <1>4 DEF Forward
    <2>2. reply' \in [Clients -> Replied]  BY <1>4 DEF Forward
    <2> QED  BY <1>4, <2>1, <2>2 DEF Forward
  <1>5. CASE ReadSynthetic(c)
    <2>1. synthetic' \in Seq({Empty})  BY <1>5 DEF ReadSynthetic
    <2> QED  BY <1>5, <2>1 DEF ReadSynthetic
  <1>6. CASE ReadFallsThrough(c)
    BY <1>6 DEF ReadFallsThrough, clientVars
  <1>7. CASE Fetch(c)  BY <1>7 DEF Fetch
  <1>8. CASE FetchFails(c)  BY <1>8 DEF FetchFails
  <1>9. CASE NoRead(c)  BY <1>9 DEF NoRead, clientVars
  <1>10. CASE BareRead(c)  BY <1>10 DEF BareRead
  <1> QED
    BY <1>1, <1>2, <1>3, <1>4, <1>5, <1>6, <1>7, <1>8, <1>9, <1>10 DEF Step

\* Every step of a client keeps the bound on the queue.
LEMMA StepBound ==
  ASSUME TypeOK, NoResponseLeftBehind, NEW c \in Clients, Step(c)
  PROVE  NoResponseLeftBehind'
  <1>0. /\ pc \in [Clients -> Pcs]
        /\ synthetic \in Seq({Empty})
        /\ abandoned \in Nat
        /\ Len(synthetic) \in Nat
    BY DEF TypeOK
  <1>p. Cardinality(Pending) \in Nat  BY PendingFinite
  <1>1. ASSUME NEW k \in Kinds, Send(c, k) PROVE NoResponseLeftBehind'
    <2>1. Pending' = Pending
      BY <1>0, <1>1, StayPending DEF Send, Goes, Pcs
    <2> QED  BY <1>1, <2>1 DEF Send, NoResponseLeftBehind
  <1>2. CASE OpenFails(c)
    <2>1. Cardinality(Pending') = Cardinality(Pending) + 1
      BY <1>0, <1>2, JoinPending DEF OpenFails, Goes
    <2> QED
      BY <1>0, <1>2, <1>p, <2>1 DEF OpenFails, NoResponseLeftBehind
  <1>3. CASE Decide(c)
    <2>1. \E q \in {"forward", "sent"} : pc' = [pc EXCEPT ![c] = q]
      BY <1>3 DEF Decide, Dispatch, Goes
    <2>2. Cardinality(Pending') = Cardinality(Pending) + 1
      BY <1>0, <1>3, <2>1, JoinPending DEF Decide
    <2>3. Len(synthetic') <= Len(synthetic) + 1
      BY <1>0, <1>3 DEF Decide
    <2>4. Len(synthetic') \in Nat  BY <1>0, <1>3 DEF Decide
    <2> QED
      BY <1>0, <1>3, <1>p, <2>2, <2>3, <2>4 DEF Decide, NoResponseLeftBehind
  <1>4. CASE Forward(c)
    <2>1. Pending' = Pending
      BY <1>0, <1>4, StayPending DEF Forward, Goes, Pcs
    <2> QED  BY <1>4, <2>1 DEF Forward, NoResponseLeftBehind
  <1>5. CASE ReadSynthetic(c)
    <2>1. Cardinality(Pending') = Cardinality(Pending) - 1
      BY <1>0, <1>5, LeavePending DEF ReadSynthetic, Goes, Pcs
    <2>2. Len(synthetic') = Len(synthetic) - 1
      BY <1>0, <1>5 DEF ReadSynthetic
    <2> QED
      BY <1>0, <1>5, <1>p, <2>1, <2>2 DEF ReadSynthetic, NoResponseLeftBehind
  <1>6. CASE ReadFallsThrough(c)
    <2>1. IsFiniteSet(Pending') /\ Cardinality(Pending') \in Nat
      <3>1. Pending' \subseteq Clients  BY DEF Pending
      <3> QED
        BY <3>1, ClientsAssumption, FS_Subset, FS_CardinalityType
    <2>2. Len(synthetic') = 0  BY <1>6 DEF ReadFallsThrough
    <2> QED
      BY <1>0, <1>6, <2>1, <2>2 DEF ReadFallsThrough, NoResponseLeftBehind
  <1>7. CASE Fetch(c)
    <2>1. Pending' = Pending
      BY <1>0, <1>7, StayPending DEF Fetch, Goes, Pcs
    <2> QED  BY <1>7, <2>1 DEF Fetch, NoResponseLeftBehind
  <1>8. CASE FetchFails(c)
    <2>1. Pending' = Pending
      BY <1>0, <1>8, StayPending DEF FetchFails, Goes, Pcs
    <2> QED  BY <1>8, <2>1 DEF FetchFails, NoResponseLeftBehind
  <1>9. CASE NoRead(c)
    <2>1. Cardinality(Pending') = Cardinality(Pending) - 1
      BY <1>0, <1>9, LeavePending DEF NoRead, Goes, Pcs
    <2> QED
      BY <1>0, <1>9, <1>p, <2>1 DEF NoRead, NoResponseLeftBehind
  <1>10. CASE BareRead(c)
    <2>1. Cardinality(Pending') = Cardinality(Pending) + 1
      BY <1>0, <1>10, JoinPending DEF BareRead, Goes
    <2> QED
      BY <1>0, <1>10, <1>p, <2>1 DEF BareRead, NoResponseLeftBehind
  <1> QED
    BY <1>1, <1>2, <1>3, <1>4, <1>5, <1>6, <1>7, <1>8, <1>9, <1>10 DEF Step

LEMMA InitInv == Init => Inv
  <1> SUFFICES ASSUME Init PROVE Inv  OBVIOUS
  <1>1. TypeOK
    BY SendsAssumption DEF Init, TypeOK, Pcs, Kinds, Replied, Hows
  <1>2. Len(synthetic) = 0 /\ abandoned = 0  BY DEF Init
  <1>3. NoResponseLeftBehind
    BY <1>2, PendingFinite DEF NoResponseLeftBehind
  <1> QED  BY <1>1, <1>3 DEF Inv

LEMMA NextInv == Inv /\ [Next]_vars => Inv'
  <1> SUFFICES ASSUME Inv, [Next]_vars PROVE Inv'  OBVIOUS
  <1>1. ASSUME NEW c \in Clients, Step(c) PROVE Inv'
    BY <1>1, StepType, StepBound DEF Inv
  <1>2. CASE UNCHANGED vars
    <2>1. Pending' = Pending  BY <1>2 DEF vars, Pending
    <2> QED
      BY <1>2, <2>1 DEF Inv, TypeOK, NoResponseLeftBehind, vars
  <1> QED  BY <1>1, <1>2 DEF Next

\* No empty response is ever left behind by clients that read after every
\* send: the queue of synthetic_reads is bounded by the reads owed and those
\* given up, whatever clients there are and however they interleave.
THEOREM ResponsesOwed == Spec => []NoResponseLeftBehind
  <1>1. Inv => NoResponseLeftBehind  BY DEF Inv
  <1> QED  BY <1>1, InitInv, NextInv, PTL DEF Spec

-----------------------------------------------------------------------------
(***************************************************************************)
(* A client that reads after every send and has the path to itself.  While *)
(* nobody else has used the path the queue of empty responses and the      *)
(* feature report are functions of where that client is: Owed.             *)
(***************************************************************************)

\* What synthetic_reads and the keyboard's report hold for a lone client.
Owed(c) ==
  /\ reply[c] # "bare"
  /\ pc[c] \in {"idle", "open", "fetch"} => synthetic = <<>>
  /\ pc[c] \in {"open", "forward"} => reply[c] = "none" /\ how[c] = "none"
  /\ pc[c] = "forward" => kind[c] \in {"query", "write"}
  /\ pc[c] = "sent" => how[c] = "none"
  /\ pc[c] \in {"forward", "sent"} =>
       synthetic = IF kind[c] = "query" \/ reply[c] = "unopened" THEN <<>>
                   ELSE <<Empty>>
  /\ pc[c] \in {"sent", "fetch"} /\ kind[c] = "query" /\ reply[c] = "ok"
       => report = number[c]
  /\ pc[c] = "fetch" => kind[c] = "query" \/ reply[c] = "unopened"

\* A client that has neither sent nor read anything is at rest.
Fresh(d) == number[d] = 0 /\ reply[d] = "none" => pc[d] = "idle"

LoneInv ==
  /\ TypeOK
  /\ \A d \in Clients : Fresh(d)
  /\ \A c \in Careful : Alone(c) => Owed(c) /\ (pc[c] = "idle" => Paired(c))

\* A client that moves keeps Fresh: a send is numbered, a bare read noted.
LEMMA StepFresh ==
  ASSUME TypeOK, NEW d \in Clients, Fresh(d), Step(d)
  PROVE  ~(number'[d] = 0 /\ reply'[d] = "none")
         \/ (number[d] = 0 /\ reply[d] = "none" /\ pc'[d] = "idle")
  <1> USE SendsAssumption DEF TypeOK, Fresh, Goes, Replies
  <1>1. ASSUME NEW k \in Kinds, Send(d, k) PROVE number'[d] > 0
    BY <1>1 DEF Send
  <1>2. CASE OpenFails(d)  BY <1>2 DEF OpenFails
  <1>3. CASE Decide(d)  BY <1>3 DEF Decide, Dispatch
  <1>4. CASE Forward(d)  BY <1>4 DEF Forward
  <1>5. CASE ReadSynthetic(d)  BY <1>5 DEF ReadSynthetic
  <1>6. CASE ReadFallsThrough(d)  BY <1>6 DEF ReadFallsThrough, clientVars
  <1>7. CASE Fetch(d)  BY <1>7 DEF Fetch
  <1>8. CASE FetchFails(d)  BY <1>8 DEF FetchFails
  <1>9. CASE NoRead(d)  BY <1>9 DEF NoRead, clientVars
  <1>10. CASE BareRead(d)  BY <1>10 DEF BareRead
  <1> QED
    BY <1>1, <1>2, <1>3, <1>4, <1>5, <1>6, <1>7, <1>8, <1>9, <1>10 DEF Step

\* A step of one client leaves the others where they are.
LEMMA StepOthers ==
  ASSUME TypeOK, NEW d \in Clients, Step(d), NEW e \in Clients \ {d}
  PROVE  /\ pc'[e] = pc[e] /\ kind'[e] = kind[e] /\ number'[e] = number[e]
         /\ reply'[e] = reply[e] /\ how'[e] = how[e] /\ got'[e] = got[e]
  BY DEF TypeOK, Step, Send, OpenFails, Decide, Dispatch, Forward, BareRead,
         ReadSynthetic, ReadFallsThrough, Fetch, FetchFails, NoRead,
         clientVars, Goes, Replies

\* A careful client that has the path to itself moves.
LEMMA StepOwed ==
  ASSUME TypeOK, NEW c \in Careful, Owed(c), Step(c)
  PROVE  Owed(c)' /\ (pc'[c] = "idle" => Paired(c)')
  <1>0. c \in Clients  BY ClientsAssumption
  <1> USE <1>0 DEF TypeOK, Owed, Paired, Undelivered, Goes, Replies, Pcs, Kinds, Replied,
                   Hows, Reads
  <1>1. ASSUME NEW k \in Kinds, Send(c, k)
        PROVE  Owed(c)' /\ (pc'[c] = "idle" => Paired(c)')
    BY <1>1 DEF Send
  <1>2. CASE OpenFails(c)  BY <1>2 DEF OpenFails
  <1>3. CASE Decide(c)
    <2>1. synthetic' = IF kind[c] = "query" THEN <<>> ELSE <<Empty>>
      BY <1>3 DEF Decide
    <2> QED  BY <1>3, <2>1 DEF Decide, Dispatch
  <1>4. CASE Forward(c)  BY <1>4 DEF Forward
  <1>5. CASE ReadSynthetic(c)
    <2>1. synthetic = <<Empty>>  BY <1>5 DEF ReadSynthetic
    <2>2. synthetic' = <<>>  BY <1>5, <2>1 DEF ReadSynthetic
    <2> QED  BY <1>5, <2>1, <2>2 DEF ReadSynthetic
  <1>6. CASE ReadFallsThrough(c)  BY <1>6 DEF ReadFallsThrough, clientVars
  <1>7. CASE Fetch(c)  BY <1>7 DEF Fetch
  <1>8. CASE FetchFails(c)  BY <1>8 DEF FetchFails
  <1>9. CASE NoRead(c)  BY <1>9 DEF NoRead, clientVars
  <1>10. CASE BareRead(c)  BY <1>10 DEF BareRead
  <1> QED
    BY <1>1, <1>2, <1>3, <1>4, <1>5, <1>6, <1>7, <1>8, <1>9, <1>10 DEF Step

LEMMA InitLone == Init => LoneInv
  <1> SUFFICES ASSUME Init PROVE LoneInv  OBVIOUS
  <1>1. TypeOK  BY InitInv DEF Inv
  <1>2. \A d \in Clients : Fresh(d)  BY DEF Init, Fresh
  <1>3. ASSUME NEW c \in Careful PROVE Owed(c) /\ Paired(c)
    BY ClientsAssumption DEF Init, Owed, Paired, Undelivered
  <1> QED  BY <1>1, <1>2, <1>3 DEF LoneInv

LEMMA NextLone == LoneInv /\ [Next]_vars => LoneInv'
  <1> SUFFICES ASSUME LoneInv, [Next]_vars PROVE LoneInv'  OBVIOUS
  <1>1. ASSUME NEW d \in Clients, Step(d) PROVE LoneInv'
    <2>0. TypeOK /\ Fresh(d)  BY DEF LoneInv
    <2>1. TypeOK'  BY <1>1, <2>0, StepType
    <2>2. ASSUME NEW e \in Clients PROVE Fresh(e)'
      <3>1. CASE e = d  BY <3>1, <1>1, <2>0, StepFresh DEF Fresh
      <3>2. CASE e # d
        BY <3>2, <1>1, <2>0, StepOthers DEF Fresh, LoneInv
      <3> QED  BY <3>1, <3>2
    <2>3. ASSUME NEW c \in Careful, Alone(c)'
          PROVE  Owed(c)' /\ (pc'[c] = "idle" => Paired(c)')
      <3>0. c \in Clients  BY ClientsAssumption
      <3>1. d = c
        <4>1. SUFFICES ASSUME d # c PROVE FALSE  OBVIOUS
        <4>2. number'[d] = 0 /\ reply'[d] = "none"
          BY <2>3, <4>1 DEF Alone
        <4>3. number[d] = 0 /\ reply[d] = "none" /\ pc'[d] = "idle"
          BY <4>2, <1>1, <2>0, StepFresh
        <4>4. pc[d] = "idle"  BY <4>3, <2>0 DEF Fresh
        <4>5. \E k \in Kinds : Send(d, k) \/ BareRead(d)
          BY <1>1, <4>4 DEF Step, OpenFails, Decide, Forward, ReadSynthetic,
             ReadFallsThrough, Fetch, FetchFails, NoRead, Kinds
        <4> QED
          BY <4>5, <4>3, <2>0 DEF TypeOK, Send, BareRead, Goes
      <3>2. Alone(c)
        BY <2>3, <3>1, <1>1, <2>0, StepOthers DEF Alone
      <3>3. Owed(c)  BY <3>2 DEF LoneInv
      <3> QED  BY <1>1, <2>0, <3>1, <3>3, StepOwed
    <2> QED  BY <2>1, <2>2, <2>3 DEF LoneInv
  <1>2. CASE UNCHANGED vars
    BY <1>2 DEF vars, LoneInv, TypeOK, Fresh, Alone, Owed, Paired, Undelivered
  <1> QED  BY <1>1, <1>2 DEF Next

\* A client that reads after every send, failed ones too, and has the path to
\* itself reads the keyboard's answer to a query that was sent, and the empty
\* response for any other command the policy decided on; only after a send that
\* could not open the device, or a query whose transfer failed, does it read
\* what the keyboard happens to hold.
THEOREM LoneClientPaired == Spec => []LoneReadsArePaired
  <1>1. LoneInv => LoneReadsArePaired
    BY DEF LoneInv, LoneReadsArePaired
  <1> QED  BY <1>1, InitLone, NextLone, PTL DEF Spec
=============================================================================
