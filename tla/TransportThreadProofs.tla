----------------------- MODULE TransportThreadProofs ------------------------
(***************************************************************************)
(* For any number of callers and any channel capacity: requests are        *)
(* executed in channel order, every call is accounted for until its caller *)
(* has the answer, and the session implements CommandService (its safety   *)
(* part; that calls return is left to TLC).                                *)
(*                                                                         *)
(* The refinement needs to know that the request the thread finishes is    *)
(* one its caller is waiting for, with its one-shot channel still empty,   *)
(* and that a caller has at most one request under way (Outstanding).      *)
(* Accounted adds which call a request or an answer is of.                 *)
(***************************************************************************)
EXTENDS TransportThread, SequenceTheorems, TLAPS

\* Caller c has a request in the channel or at the thread.
Awaits(c) == pc[c] = "waiting" /\ answer[c] = <<>>

Outstanding ==
  /\ \A i \in 1 .. Len(queue) : Awaits(queue[i].caller)
  /\ \A i, j \in 1 .. Len(queue) : queue[i].caller = queue[j].caller => i = j
  /\ serving # <<>> => /\ Awaits(Head(serving).caller)
                       /\ \A i \in 1 .. Len(queue) :
                            queue[i].caller # Head(serving).caller
  /\ \A c \in Callers : answer[c] # <<>> => pc[c] = "waiting"

\* The call caller c is making is in the channel or at the thread.
Underway(c) ==
  serving = <<Mine(c)>> \/ \E i \in 1 .. Len(queue) : queue[i] = Mine(c)

Accounted ==
  /\ \A i \in 1 .. Len(queue) : queue[i] = Mine(queue[i].caller)
  /\ serving # <<>> => serving = <<Mine(Head(serving).caller)>>
  /\ \A c \in Callers : answer[c] # <<>> => answer[c] = <<Mine(c)>>
  /\ \A c \in Callers : Awaits(c) => Underway(c)

Inv == TypeOK /\ SubmissionOrder /\ Outstanding /\ Accounted

-----------------------------------------------------------------------------
(* Types.                                                                  *)

LEMMA InitType == Init => TypeOK
  <1> SUFFICES ASSUME Init PROVE TypeOK  OBVIOUS
  <1> USE CapAssumption, BoundsAssumption DEF Init
  <1>1. <<>> \in Seq(Request) /\ Len(<<>>) = 0  OBVIOUS
  <1>2. 0 \in 0 .. MaxCalls /\ 0 \in 0 .. EventCap /\ 0 \in 0 .. MaxEvents
    OBVIOUS
  <1>3. pc \in [Callers -> Pcs] /\ calls \in [Callers -> 0 .. MaxCalls]
    BY <1>2 DEF Pcs
  <1>4. answer \in [Callers -> Seq(Request)]
    BY <1>1
  <1> QED  BY <1>1, <1>2, <1>3, <1>4 DEF TypeOK

LEMMA NextType == TypeOK /\ [Next]_vars => TypeOK'
  <1> SUFFICES ASSUME TypeOK, [Next]_vars PROVE TypeOK'  OBVIOUS
  <1> USE CapAssumption, BoundsAssumption DEF TypeOK, Pcs, eventVars, callVars
  <1>1. ASSUME NEW c \in Callers, Clone(c) PROVE TypeOK'
    BY <1>1 DEF Clone, Goes
  <1>2. ASSUME NEW c \in Callers, Call(c) PROVE TypeOK'
    <2>1. calls' \in [Callers -> 0 .. MaxCalls]  BY <1>2 DEF Call
    <2> QED  BY <1>2, <2>1 DEF Call, Goes
  <1>3. ASSUME NEW c \in Callers, Submit(c) PROVE TypeOK'
    <2>2. Mine(c) \in Request  BY <1>3 DEF Mine, Request
    <2>3. /\ queue' \in Seq(Request) /\ Len(queue') <= Cap
          /\ submitted' \in Seq(Request)
      BY <1>3, <2>2 DEF Submit
    <2> QED  BY <1>3, <2>3 DEF Submit, Goes
  <1>4. ASSUME NEW c \in Callers, Receive(c) PROVE TypeOK'
    <2>0. <<>> \in Seq(Request)  OBVIOUS
    <2>1. answer' \in [Callers -> Seq(Request)]  BY <1>4, <2>0 DEF Receive
    <2> QED  BY <1>4, <2>1 DEF Receive, Goes
  <1>5. ASSUME NEW c \in Callers, Drop(c) PROVE TypeOK'
    BY <1>5 DEF Drop, Goes
  <1>6. CASE Shutdown  BY <1>6 DEF Shutdown
  <1>7. CASE Take
    <2>1. /\ queue' \in Seq(Request) /\ Len(queue') <= Cap
          /\ serving' \in Seq(Request) /\ Len(serving') <= 1
      BY <1>7 DEF Take
    <2> QED  BY <1>7, <2>1 DEF Take
  <1>8. CASE Finish
    <2>1. Head(serving) \in Request  BY <1>8 DEF Finish
    <2>2. log' \in Seq(Request)  BY <1>8, <2>1 DEF Finish
    <2>3. answer' \in [Callers -> Seq(Request)]
      BY <1>8, <2>1 DEF Finish, Request
    <2> QED  BY <1>8, <2>2, <2>3 DEF Finish
  <1>9. CASE Exit  BY <1>9 DEF Exit
  <1>10. CASE ClearRunning  BY <1>10 DEF ClearRunning
  <1>11. CASE HotplugEvent  BY <1>11 DEF HotplugEvent
  <1>12. CASE HotplugSend  BY <1>12 DEF HotplugSend
  <1>13. CASE HotplugStop  BY <1>13 DEF HotplugStop
  <1>14. CASE DrainEvent  BY <1>14 DEF DrainEvent
  <1>15. CASE DropReceiver
    <2>1. 0 \in 0 .. EventCap  OBVIOUS
    <2> QED  BY <1>15, <2>1 DEF DropReceiver
  <1>16. CASE UNCHANGED vars  BY <1>16 DEF vars
  <1> QED
    BY <1>1, <1>2, <1>3, <1>4, <1>5, <1>6, <1>7, <1>8, <1>9, <1>10, <1>11,
       <1>12, <1>13, <1>14, <1>15, <1>16
       DEF Next, CallStep, ThreadStep

-----------------------------------------------------------------------------
(* Requests are executed in channel order.                                 *)

\* The actions after which no sequence of the history has changed.
Quiet == UNCHANGED <<log, serving, queue, submitted>>

LEMMA NextSubmissionOrder ==
  TypeOK /\ SubmissionOrder /\ [Next]_vars => SubmissionOrder'
  <1> SUFFICES ASSUME TypeOK, SubmissionOrder, [Next]_vars
               PROVE  SubmissionOrder'
    OBVIOUS
  <1>1. /\ log \in Seq(Request) /\ queue \in Seq(Request)
        /\ serving \in Seq(Request) /\ Len(serving) <= 1
        /\ calls \in [Callers -> 0 .. MaxCalls]
    BY DEF TypeOK
  <1>2. submitted = log \o serving \o queue  BY DEF SubmissionOrder
  <1>3. ASSUME NEW c \in Callers, Submit(c) PROVE SubmissionOrder'
    <2>1. Mine(c) \in Request  BY <1>1 DEF Mine, Request
    <2>2. <<Mine(c)>> \in Seq(Request)  BY <2>1
    <2>3. log \o serving \in Seq(Request)  BY <1>1, ConcatProperties
    <2>4. submitted \in Seq(Request)  BY DEF TypeOK
    <2>5. submitted' = submitted \o <<Mine(c)>>
      BY <1>3, <2>1, <2>4, AppendIsConcat DEF Submit
    <2>6. queue' = queue \o <<Mine(c)>>
      BY <1>1, <1>3, <2>1, AppendIsConcat DEF Submit
    <2>7. ((log \o serving) \o queue) \o <<Mine(c)>>
            = (log \o serving) \o (queue \o <<Mine(c)>>)
      <3> HIDE DEF Request, Mine
      <3>1. /\ log \o serving \in Seq(Request) /\ queue \in Seq(Request)
            /\ <<Mine(c)>> \in Seq(Request)
        BY <1>1, <2>2, <2>3
      <3> QED  BY <3>1, ConcatAssociative
    <2>8. log' = log /\ serving' = serving  BY <1>3 DEF Submit
    <2> QED  BY <1>2, <2>5, <2>6, <2>7, <2>8 DEF SubmissionOrder
  <1>4. CASE Take
    <2>1. serving = <<>> /\ queue # <<>>  BY <1>4 DEF Take
    <2>2. Head(queue) \in Request /\ Tail(queue) \in Seq(Request)
      BY <1>1, <2>1, HeadTailProperties
    <2>3. queue = <<Head(queue)>> \o Tail(queue)
      BY <1>1, <2>1, <2>2
    <2>4. log \o serving = log  BY <1>1, <2>1, ConcatEmptySeq
    <2>5. <<Head(queue)>> \in Seq(Request)  BY <2>2
    <2>6. (log \o <<Head(queue)>>) \o Tail(queue)
            = log \o (<<Head(queue)>> \o Tail(queue))
      BY <1>1, <2>2, <2>5, ConcatAssociative
    <2>7. /\ log' = log /\ submitted' = submitted
          /\ serving' = <<Head(queue)>> /\ queue' = Tail(queue)
      BY <1>4 DEF Take
    <2> QED  BY <1>2, <2>3, <2>4, <2>6, <2>7 DEF SubmissionOrder
  <1>5. CASE Finish
    <2>1. serving # <<>>  BY <1>5 DEF Finish
    <2>2. Head(serving) \in Request  BY <1>1, <2>1, HeadTailProperties
    <2>3. serving = <<Head(serving)>>
      <3>0. Len(serving) \in Nat \ {0}  BY <1>1, <2>1, EmptySeq
      <3>a. Len(serving) <= 1  BY <1>1
      <3>1. Len(serving) = 1  BY <3>0, <3>a
      <3>2. <<Head(serving)>> \in Seq(Request) /\ Len(<<Head(serving)>>) = 1
        BY <2>2
      <3>3. \A i \in 1 .. 1 : serving[i] = <<Head(serving)>>[i]
        BY <1>1, <3>1
      <3> QED  BY <1>1, <3>1, <3>2, <3>3, SeqEqual
    <2>4. log' = log \o serving
      BY <1>1, <1>5, <2>2, <2>3, AppendIsConcat DEF Finish
    <2>5. log \o serving \in Seq(Request)  BY <1>1, ConcatProperties
    <2>6. (log \o serving) \o <<>> = log \o serving
      BY <2>5, ConcatEmptySeq
    <2>7. serving' = <<>> /\ queue' = queue /\ submitted' = submitted
      BY <1>5 DEF Finish
    <2> QED  BY <1>2, <2>4, <2>6, <2>7 DEF SubmissionOrder
  <1>6. ASSUME NEW c \in Callers,
               Clone(c) \/ Call(c) \/ Receive(c) \/ Drop(c)
        PROVE  Quiet
    BY <1>6 DEF Clone, Call, Receive, Drop, Quiet
  <1>7. Shutdown \/ Exit \/ ClearRunning \/ UNCHANGED vars => Quiet
    BY DEF Shutdown, Exit, ClearRunning, vars, Quiet
  <1>8. HotplugEvent \/ HotplugSend \/ HotplugStop \/ DrainEvent \/ DropReceiver
          => Quiet
    BY DEF HotplugEvent, HotplugSend, HotplugStop, DrainEvent, DropReceiver,
           Quiet
  <1>9. CASE Quiet  BY <1>9 DEF Quiet, SubmissionOrder
  <1> QED
    BY <1>3, <1>4, <1>5, <1>6, <1>7, <1>8, <1>9 DEF Next, CallStep, ThreadStep

-----------------------------------------------------------------------------
(* Each caller has at most one request under way, and waits for it.        *)

LEMMA NextOutstanding == TypeOK /\ Outstanding /\ [Next]_vars => Outstanding'
  <1> SUFFICES ASSUME TypeOK, Outstanding, [Next]_vars PROVE Outstanding'
    OBVIOUS
  <1>1. /\ pc \in [Callers -> Pcs] /\ answer \in [Callers -> Seq(Request)]
        /\ queue \in Seq(Request) /\ serving \in Seq(Request)
        /\ calls \in [Callers -> 0 .. MaxCalls]
    BY DEF TypeOK
  <1>2. /\ \A i \in 1 .. Len(queue) : queue[i].caller \in Callers
        /\ serving # <<>> => Head(serving).caller \in Callers
        /\ Len(queue) \in Nat
    <2>1. \A i \in 1 .. Len(queue) : queue[i] \in Request
      BY <1>1, ElementOfSeq
    <2>2. serving # <<>> => Head(serving) \in Request
      BY <1>1, HeadTailProperties
    <2>3. \A r \in Request : r.caller \in Callers
      BY DEF Request
    <2>4. Len(queue) \in Nat
      BY <1>1
    <2> QED  BY <2>1, <2>2, <2>3, <2>4
  <1> USE DEF Outstanding, Awaits
  <1>3. ASSUME NEW c \in Callers,
               pc[c] \notin {"waiting"}, pc' = [pc EXCEPT ![c] = pc'[c]],
               pc'[c] # "waiting",
               UNCHANGED <<answer, queue, serving>>
        PROVE  Outstanding'
    BY <1>1, <1>2, <1>3
  <1>4. ASSUME NEW c \in Callers, Clone(c) PROVE Outstanding'
    BY <1>1, <1>3, <1>4 DEF Clone, Goes
  <1>5. ASSUME NEW c \in Callers, Call(c) PROVE Outstanding'
    BY <1>1, <1>3, <1>5 DEF Call, Goes
  <1>6. ASSUME NEW c \in Callers, Drop(c) PROVE Outstanding'
    BY <1>1, <1>3, <1>6 DEF Drop, Goes
  <1>7. ASSUME NEW c \in Callers, Submit(c) PROVE Outstanding'
    <2>1. /\ Len(queue') = Len(queue) + 1
          /\ \A i \in 1 .. Len(queue) : queue'[i] = queue[i]
          /\ queue'[Len(queue) + 1].caller = c
      <3>1. Mine(c) \in Request /\ Mine(c).caller = c
        BY <1>1 DEF Mine, Request
      <3> QED  BY <1>1, <1>7, <3>1, AppendProperties DEF Submit
    <2>2. /\ pc[c] = "sending" /\ answer[c] = <<>>
          /\ pc' = [pc EXCEPT ![c] = "waiting"]
          /\ UNCHANGED <<answer, serving>>
      BY <1>7 DEF Submit, Goes
    <2>3. \A i \in 1 .. Len(queue) : queue[i].caller # c
      BY <2>2
    <2>4. serving # <<>> => Head(serving).caller # c
      BY <2>2
    <2>5. \A i \in 1 .. Len(queue') :
            pc'[queue'[i].caller] = "waiting" /\ answer'[queue'[i].caller] = <<>>
      <3> TAKE i \in 1 .. Len(queue')
      <3>1. CASE i \in 1 .. Len(queue)
        <4>1. pc[queue[i].caller] = "waiting" /\ answer[queue[i].caller] = <<>>
          BY <3>1
        <4> QED  BY <1>1, <1>2, <2>1, <2>2, <2>3, <3>1, <4>1
      <3>2. CASE i = Len(queue) + 1
        BY <1>1, <2>1, <2>2, <3>2
      <3> QED  BY <1>2, <2>1, <3>1, <3>2
    <2>6. \A i, j \in 1 .. Len(queue') :
            queue'[i].caller = queue'[j].caller => i = j
      BY <1>1, <1>2, <2>1, <2>3
    <2>7. serving # <<>> => /\ pc'[Head(serving).caller] = "waiting"
                           /\ answer'[Head(serving).caller] = <<>>
                           /\ \A i \in 1 .. Len(queue') :
                                queue'[i].caller # Head(serving).caller
      <3> SUFFICES ASSUME serving # <<>>
                   PROVE  /\ pc'[Head(serving).caller] = "waiting"
                          /\ answer'[Head(serving).caller] = <<>>
                          /\ \A i \in 1 .. Len(queue') :
                               queue'[i].caller # Head(serving).caller
        OBVIOUS
      <3>1. /\ pc[Head(serving).caller] = "waiting"
            /\ answer[Head(serving).caller] = <<>>
            /\ \A i \in 1 .. Len(queue) :
                 queue[i].caller # Head(serving).caller
        OBVIOUS
      <3>2. \A i \in 1 .. Len(queue') : queue'[i].caller # Head(serving).caller
        BY <1>2, <2>1, <2>4, <3>1
      <3> QED  BY <1>1, <1>2, <2>2, <2>4, <3>1, <3>2
    <2>8. \A d \in Callers : answer'[d] # <<>> => pc'[d] = "waiting"
      BY <1>1, <2>2
    <2> QED  BY <2>2, <2>5, <2>6, <2>7, <2>8
  <1>8. ASSUME NEW c \in Callers, Receive(c) PROVE Outstanding'
    <2>1. /\ pc' = [pc EXCEPT ![c] = "ready"] /\ answer[c] # <<>>
          /\ answer' = [answer EXCEPT ![c] = <<>>]
          /\ UNCHANGED <<queue, serving>>
      BY <1>8 DEF Receive, Goes
    <2>2. \A i \in 1 .. Len(queue) : queue[i].caller # c
      BY <2>1
    <2>3. serving # <<>> => Head(serving).caller # c
      BY <2>1
    <2> QED  BY <1>1, <1>2, <2>1, <2>2, <2>3
  <1>9. CASE Take
    <2>1. queue # <<>> /\ serving' = <<Head(queue)>> /\ queue' = Tail(queue)
          /\ UNCHANGED <<pc, answer>>
      BY <1>9 DEF Take, callVars
    <2>2. /\ Len(queue) >= 1 /\ Len(queue') = Len(queue) - 1
          /\ \A i \in 1 .. Len(queue') : queue'[i] = queue[i + 1]
          /\ Head(queue) = queue[1]
      BY <1>1, <2>1, HeadTailProperties, EmptySeq
    <2>3. Head(serving') = queue[1]
      BY <2>1, <2>2
    <2> QED  BY <1>1, <1>2, <2>1, <2>2, <2>3
  <1>10. CASE Finish
    <2>1. /\ serving # <<>> /\ serving' = <<>>
          /\ answer' = [answer EXCEPT ![Head(serving).caller] = serving]
          /\ UNCHANGED <<pc, queue>>
      BY <1>10 DEF Finish
    <2> QED  BY <1>1, <1>2, <2>1
  <1>11. UNCHANGED <<pc, answer, queue, serving>> => Outstanding'
    OBVIOUS
  <1>12. Shutdown \/ Exit \/ ClearRunning \/ UNCHANGED vars
           => UNCHANGED <<pc, answer, queue, serving>>
    BY DEF Shutdown, Exit, ClearRunning, vars, callVars
  <1>13. HotplugEvent \/ HotplugSend \/ HotplugStop \/ DrainEvent
           \/ DropReceiver
           => UNCHANGED <<pc, answer, queue, serving>>
    BY DEF HotplugEvent, HotplugSend, HotplugStop, DrainEvent, DropReceiver,
           callVars
  <1> QED
    BY <1>4, <1>5, <1>6, <1>7, <1>8, <1>9, <1>10, <1>11, <1>12, <1>13
       DEF Next, CallStep, ThreadStep

-----------------------------------------------------------------------------
(* What is under way, and what is answered, is the caller's current call.  *)

LEMMA MineIsOwn == \A c : Mine(c).caller = c
  BY DEF Mine

\* A step that moves a caller who is not waiting.
LEMMA BystanderAccounted ==
  ASSUME TypeOK, Outstanding, Accounted, NEW c \in Callers,
         pc[c] # "waiting", pc'[c] # "waiting",
         pc' = [pc EXCEPT ![c] = pc'[c]],
         \A d \in Callers \ {c} : calls'[d] = calls[d],
         UNCHANGED <<answer, queue, serving>>
  PROVE  Accounted'
  <1>1. /\ \A i \in 1 .. Len(queue) : queue[i].caller \in Callers \ {c}
        /\ serving # <<>> => Head(serving).caller \in Callers \ {c}
    <2>1. \A i \in 1 .. Len(queue) : queue[i] \in Request
      BY ElementOfSeq DEF TypeOK
    <2>2. serving # <<>> => Head(serving) \in Request
      BY HeadTailProperties DEF TypeOK
    <2> QED  BY <2>1, <2>2 DEF Request, Outstanding, Awaits
  <1>2. \A d \in Callers \ {c} : Mine(d)' = Mine(d) /\ pc'[d] = pc[d]
    BY DEF Mine, TypeOK
  <1>3. answer[c] = <<>>
    BY DEF Outstanding
  <1>4. \A i \in 1 .. Len(queue) : queue[i] = Mine(queue[i].caller)'
    BY <1>1, <1>2 DEF Accounted
  <1>5. serving # <<>> => serving = <<Mine(Head(serving).caller)'>>
    BY <1>1, <1>2 DEF Accounted
  <1>6. \A d \in Callers : answer[d] # <<>> => answer[d] = <<Mine(d)'>>
    BY <1>2, <1>3 DEF Accounted
  <1>7. \A d \in Callers : Awaits(d)' => Underway(d)'
    <2> SUFFICES ASSUME NEW d \in Callers, Awaits(d)' PROVE Underway(d)'
      OBVIOUS
    <2>1. d # c  BY DEF Awaits
    <2>2. Underway(d)  BY <1>2, <2>1 DEF Awaits, Accounted
    <2> QED  BY <1>2, <2>1, <2>2 DEF Underway
  <1> QED  BY <1>4, <1>5, <1>6, <1>7 DEF Accounted

LEMMA NextAccounted ==
  TypeOK /\ Outstanding /\ Accounted /\ [Next]_vars => Accounted'
  <1> SUFFICES ASSUME TypeOK, Outstanding, Accounted, [Next]_vars
               PROVE  Accounted'
    OBVIOUS
  <1>1. /\ pc \in [Callers -> Pcs] /\ answer \in [Callers -> Seq(Request)]
        /\ queue \in Seq(Request) /\ serving \in Seq(Request)
        /\ calls \in [Callers -> 0 .. MaxCalls] /\ Len(serving) <= 1
    BY DEF TypeOK
  <1>2. ASSUME NEW c \in Callers, Clone(c) \/ Call(c) \/ Drop(c)
        PROVE  Accounted'
    <2>1. /\ pc[c] # "waiting" /\ pc'[c] # "waiting"
          /\ pc' = [pc EXCEPT ![c] = pc'[c]]
          /\ \A d \in Callers \ {c} : calls'[d] = calls[d]
          /\ UNCHANGED <<answer, queue, serving>>
      BY <1>1, <1>2 DEF Clone, Call, Drop, Goes
    <2> QED  BY <2>1, BystanderAccounted
  <1>3. ASSUME NEW c \in Callers, Submit(c) PROVE Accounted'
    <2>1. /\ pc' = [pc EXCEPT ![c] = "waiting"] /\ UNCHANGED <<answer, serving, calls>>
          /\ queue' = Append(queue, Mine(c))
      BY <1>3 DEF Submit, Goes
    <2>2. Mine(c) \in Request
      BY <1>1 DEF Mine, Request
    <2>3. /\ Len(queue) \in Nat /\ Len(queue') = Len(queue) + 1
          /\ \A i \in 1 .. Len(queue) : queue'[i] = queue[i]
          /\ queue'[Len(queue) + 1] = Mine(c)
      BY <1>1, <2>1, <2>2, AppendProperties
    <2>4. \A d : Mine(d)' = Mine(d)
      BY <2>1 DEF Mine
    <2>5. \A i \in 1 .. Len(queue') : queue'[i] = Mine(queue'[i].caller)
      <3> TAKE i \in 1 .. Len(queue')
      <3>1. CASE i \in 1 .. Len(queue)  BY <2>3, <2>4, <3>1 DEF Accounted
      <3>2. CASE i = Len(queue) + 1  BY <2>3, <2>4, <3>2, MineIsOwn
      <3> QED  BY <2>3, <3>1, <3>2
    <2>6. ASSUME NEW d \in Callers, Awaits(d)' PROVE Underway(d)'
      <3>1. CASE d = c
        <4>1. Len(queue) + 1 \in 1 .. Len(queue')  BY <2>3
        <4> QED  BY <2>3, <2>4, <3>1, <4>1 DEF Underway
      <3>2. CASE d # c
        <4>1. Underway(d)
          BY <1>1, <2>1, <2>6, <3>2 DEF Awaits, Accounted
        <4>2. 1 .. Len(queue) \subseteq 1 .. Len(queue')  BY <2>3
        <4> QED  BY <2>1, <2>3, <2>4, <4>1, <4>2 DEF Underway
      <3> QED  BY <3>1, <3>2
    <2>8. (\A i \in 1 .. Len(queue) : queue[i] = Mine(queue[i].caller))'
      BY <2>1, <2>5 DEF Mine
    <2>9. (serving # <<>> => serving = <<Mine(Head(serving).caller)>>)'
      BY <2>1 DEF Accounted, Mine
    <2>10. (\A d \in Callers : answer[d] # <<>> => answer[d] = <<Mine(d)>>)'
      BY <2>1, <2>4 DEF Accounted
    <2> QED  BY <2>6, <2>8, <2>9, <2>10 DEF Accounted
  <1>4. ASSUME NEW c \in Callers, Receive(c) PROVE Accounted'
    <2>1. /\ pc' = [pc EXCEPT ![c] = "ready"]
          /\ answer' = [answer EXCEPT ![c] = <<>>]
          /\ UNCHANGED <<queue, serving, calls>>
      BY <1>4 DEF Receive, Goes
    <2>2. \A d : Mine(d)' = Mine(d)
      BY <2>1 DEF Mine
    <2>3. ASSUME NEW d \in Callers, Awaits(d)' PROVE Underway(d)'
      <3>1. d # c  BY <1>1, <2>1, <2>3 DEF Awaits
      <3>2. Underway(d)  BY <1>1, <2>1, <2>3, <3>1 DEF Awaits, Accounted
      <3> QED  BY <2>1, <2>2, <3>2 DEF Underway
    <2>4. \A d \in Callers : answer'[d] # <<>> => answer'[d] = <<Mine(d)'>>
      BY <1>1, <2>1, <2>2 DEF Accounted
    <2> QED  BY <2>1, <2>2, <2>3, <2>4 DEF Accounted
  <1>5. CASE Take
    <2>1. serving = <<>> /\ queue # <<>> /\ serving' = <<Head(queue)>>
          /\ queue' = Tail(queue) /\ UNCHANGED <<pc, answer, calls>>
      BY <1>5 DEF Take, callVars
    <2>2. /\ Len(queue) >= 1 /\ Len(queue') = Len(queue) - 1
          /\ \A i \in 1 .. Len(queue') : queue'[i] = queue[i + 1]
          /\ Head(queue) = queue[1] /\ Len(queue) \in Nat
      BY <1>1, <2>1, HeadTailProperties, EmptySeq
    <2>3. \A d : Mine(d)' = Mine(d)
      BY <2>1 DEF Mine
    <2>4. Head(serving') = queue[1] /\ serving' = <<queue[1]>>
      BY <2>1, <2>2
    <2>5. queue[1] = Mine(queue[1].caller)
      BY <2>2 DEF Accounted
    <2>6. \A i \in 1 .. Len(queue') : queue'[i] = Mine(queue'[i].caller)
      BY <2>2, <2>3 DEF Accounted
    <2>7. ASSUME NEW d \in Callers, Awaits(d)' PROVE Underway(d)'
      <3>1. Underway(d)  BY <2>1, <2>7 DEF Awaits, Accounted
      <3>2. PICK i \in 1 .. Len(queue) : queue[i] = Mine(d)
        BY <2>1, <3>1 DEF Underway
      <3>3. CASE i = 1  BY <2>3, <2>4, <3>2, <3>3 DEF Underway
      <3>4. CASE i # 1
        <4>1. i - 1 \in 1 .. Len(queue') /\ queue'[i - 1] = queue[i]
          BY <2>2, <3>4
        <4> QED  BY <2>3, <3>2, <4>1 DEF Underway
      <3> QED  BY <3>3, <3>4
    <2>8. \A d \in Callers : answer'[d] # <<>> => answer'[d] = <<Mine(d)'>>
      BY <2>1, <2>3 DEF Accounted
    <2>9. serving' = <<Mine(Head(serving').caller)>>
      BY <2>3, <2>4, <2>5
    <2>10. (\A i \in 1 .. Len(queue) : queue[i] = Mine(queue[i].caller))'
      BY <2>1, <2>6 DEF Mine
    <2>11. (serving # <<>> => serving = <<Mine(Head(serving).caller)>>)'
      BY <2>1, <2>9 DEF Mine
    <2> QED  BY <2>7, <2>8, <2>10, <2>11 DEF Accounted
  <1>6. CASE Finish
    <2>1. /\ serving # <<>> /\ serving' = <<>>
          /\ answer' = [answer EXCEPT ![Head(serving).caller] = serving]
          /\ UNCHANGED <<pc, calls, queue>>
      BY <1>6 DEF Finish
    <2>2. PICK c : c = Head(serving).caller
      OBVIOUS
    <2>3. serving = <<Mine(c)>>
      BY <2>1, <2>2 DEF Accounted
    <2>4. \A d : Mine(d)' = Mine(d)
      BY <2>1 DEF Mine
    <2>5. \A d \in Callers : answer'[d] # <<>> => answer'[d] = <<Mine(d)'>>
      BY <1>1, <2>1, <2>2, <2>3, <2>4 DEF Accounted
    <2>6. ASSUME NEW d \in Callers, Awaits(d)' PROVE Underway(d)'
      <3>1. d # c  BY <1>1, <2>1, <2>2, <2>6 DEF Awaits
      <3>2. Underway(d)
        BY <1>1, <2>1, <2>2, <2>6, <3>1 DEF Awaits, Accounted
      <3>3. Mine(d) # Mine(c)  BY <3>1, MineIsOwn
      <3>4. serving # <<Mine(d)>>  BY <2>3, <3>3
      <3> QED  BY <2>1, <2>4, <3>2, <3>4 DEF Underway
    <2>7. \A i \in 1 .. Len(queue') : queue'[i] = Mine(queue'[i].caller)
      BY <2>1, <2>4 DEF Accounted
    <2>8. (\A i \in 1 .. Len(queue) : queue[i] = Mine(queue[i].caller))'
      BY <2>1, <2>7 DEF Mine
    <2>9. (serving # <<>> => serving = <<Mine(Head(serving).caller)>>)'
      BY <2>1
    <2> QED  BY <2>5, <2>6, <2>8, <2>9 DEF Accounted
  <1>7. UNCHANGED <<pc, calls, answer, queue, serving>> => Accounted'
    BY DEF Accounted, Underway, Awaits, Mine
  <1>8. Shutdown \/ Exit \/ ClearRunning \/ UNCHANGED vars
          => UNCHANGED <<pc, calls, answer, queue, serving>>
    BY DEF Shutdown, Exit, ClearRunning, vars, callVars
  <1>9. HotplugEvent \/ HotplugSend \/ HotplugStop \/ DrainEvent
          \/ DropReceiver
          => UNCHANGED <<pc, calls, answer, queue, serving>>
    BY DEF HotplugEvent, HotplugSend, HotplugStop, DrainEvent, DropReceiver,
           callVars
  <1> QED
    BY <1>2, <1>3, <1>4, <1>5, <1>6, <1>7, <1>8, <1>9
       DEF Next, CallStep, ThreadStep

-----------------------------------------------------------------------------
(* The invariant and what follows from it.                                 *)

LEMMA InitInv == Init => Inv
  <1> SUFFICES ASSUME Init PROVE Inv  OBVIOUS
  <1>1. TypeOK  BY InitType
  <1>2. SubmissionOrder
    <2>1. <<>> \o <<>> \o <<>> = <<>>
      OBVIOUS
    <2> QED  BY <2>1 DEF Init, SubmissionOrder
  <1>4. Outstanding
    <2>1. queue = <<>> /\ Len(queue) = 0  BY DEF Init
    <2>2. 1 .. Len(queue) = {}  BY <2>1
    <2> QED  BY <2>2 DEF Init, Outstanding
  <1>5. Accounted
    <2>1. queue = <<>> /\ Len(queue) = 0  BY DEF Init
    <2>2. 1 .. Len(queue) = {}  BY <2>1
    <2> QED  BY <2>2 DEF Init, Accounted, Awaits
  <1> QED  BY <1>1, <1>2, <1>4, <1>5 DEF Inv

LEMMA NextInv == Inv /\ [Next]_vars => Inv'
  BY NextType, NextSubmissionOrder, NextOutstanding, NextAccounted DEF Inv

THEOREM InvHolds == Spec => []Inv
  BY InitInv, NextInv, PTL DEF Spec

\* Requests reach the keyboard in the order they entered the channel, none
\* twice and none skipped (transport_loop's recv loop).
THEOREM RequestsInOrder == Spec => []SubmissionOrder
  <1>1. Inv => SubmissionOrder  BY DEF Inv
  <1> QED  BY <1>1, InvHolds, PTL

\* The request of a waiting caller is in the channel, at the thread or answered,
\* and what is there is what its caller waits for: TransportHandle's calls have
\* no timeout, and handle_command answers each request.
THEOREM CallsAreAccountedFor == Spec => []CallsAccountedFor
  <1>1. ASSUME Inv PROVE CallsAccountedFor
    <2> USE <1>1 DEF Inv, Outstanding, Accounted, Awaits
    <2>1. \A i \in 1 .. Len(queue) : Awaited(queue[i])
      BY DEF Awaited
    <2>2. serving # <<>> => Awaited(Head(serving))
      <3>1. serving # <<>> => Head(serving) = Mine(Head(serving).caller)
        OBVIOUS
      <3> QED  BY <3>1 DEF Awaited
    <2>3. /\ \A i, j \in 1 .. Len(queue) : queue[i] = queue[j] => i = j
          /\ serving # <<>> => \A i \in 1 .. Len(queue) : queue[i] # Head(serving)
      OBVIOUS
    <2>4. ASSUME NEW c \in Callers
          PROVE  \/ pc[c] = "waiting" /\ answer[c] = <<Mine(c)>>
                 \/ pc[c] = "waiting" /\ answer[c] = <<>> /\ Underway(c)
                 \/ pc[c] # "waiting" /\ answer[c] = <<>>
      OBVIOUS
    <2> QED  BY <2>1, <2>2, <2>3, <2>4 DEF CallsAccountedFor, Underway
  <1> QED  BY <1>1, InvHolds, PTL

-----------------------------------------------------------------------------
(* The session implements CommandService.                                  *)

Statuses == [c \in Callers |-> StatusOf(c)]
Executed == [i \in 1 .. Len(log) |-> log[i].caller]

LEMMA InitService == Init => Service!Init
  <1> SUFFICES ASSUME Init PROVE Service!Init  OBVIOUS
  <1>1. \A c \in Callers : StatusOf(c) = "idle"
    BY DEF Init, StatusOf
  <1>2. Executed = <<>>
    BY DEF Init, Executed
  <1> QED  BY <1>1, <1>2 DEF Service!Init, Executed

\* A step that leaves the callers' places, their answers and the log alone is
\* invisible.
LEMMA Invisible ==
  ASSUME UNCHANGED <<pc, answer, log>>
  PROVE  UNCHANGED Service!vars
  BY DEF Service!vars, StatusOf

LEMMA StepService == Inv /\ [Next]_vars => [Service!Next]_Service!vars
  <1> SUFFICES ASSUME Inv, [Next]_vars
               PROVE  Service!Next \/ UNCHANGED Service!vars
    OBVIOUS
  <1>1. /\ pc \in [Callers -> Pcs] /\ answer \in [Callers -> Seq(Request)]
        /\ serving \in Seq(Request) /\ log \in Seq(Request)
    BY DEF Inv, TypeOK
  <1>2. \A c \in Callers : answer[c] # <<>> => pc[c] = "waiting"
    BY DEF Inv, Outstanding
  <1>3. ASSUME NEW c \in Callers, Call(c) PROVE Service!Invoke(c)
    <2>1. /\ pc[c] = "ready" /\ pc' = [pc EXCEPT ![c] = "sending"]
          /\ UNCHANGED <<answer, log>>
      BY <1>3 DEF Call, Goes
    <2>2. StatusOf(c) = "idle" /\ StatusOf(c)' = "called"
      BY <1>1, <1>2, <2>1 DEF StatusOf
    <2>3. \A d \in Callers : d # c => StatusOf(d)' = StatusOf(d)
      BY <1>1, <2>1 DEF StatusOf
    <2>4. Statuses' = [Statuses EXCEPT ![c] = "called"]
      BY <2>2, <2>3 DEF Statuses
    <2> QED  BY <2>1, <2>2, <2>4 DEF Service!Invoke, Statuses
  <1>4. ASSUME NEW c \in Callers, Receive(c) PROVE Service!Return(c)
    <2>1. /\ pc[c] = "waiting" /\ pc' = [pc EXCEPT ![c] = "ready"]
          /\ answer[c] # <<>> /\ answer' = [answer EXCEPT ![c] = <<>>]
          /\ UNCHANGED log
      BY <1>4 DEF Receive, Goes
    <2>2. StatusOf(c) = "executed" /\ StatusOf(c)' = "idle"
      BY <1>1, <2>1 DEF StatusOf
    <2>3. \A d \in Callers : d # c => StatusOf(d)' = StatusOf(d)
      BY <1>1, <2>1 DEF StatusOf
    <2>4. Statuses' = [Statuses EXCEPT ![c] = "idle"]
      BY <2>2, <2>3 DEF Statuses
    <2> QED  BY <2>1, <2>2, <2>4 DEF Service!Return, Statuses
  <1>5. ASSUME NEW c \in Callers, Submit(c) PROVE UNCHANGED Service!vars
    <2>1. /\ pc[c] = "sending" /\ pc' = [pc EXCEPT ![c] = "waiting"]
          /\ UNCHANGED <<answer, log>>
      BY <1>5 DEF Submit, Goes
    <2>2. answer[c] = <<>>  BY <1>2, <2>1
    <2>3. \A d \in Callers : StatusOf(d)' = StatusOf(d)
      BY <1>1, <2>1, <2>2 DEF StatusOf
    <2> QED  BY <2>1, <2>3 DEF Service!vars
  <1>6. ASSUME NEW c \in Callers, Clone(c) \/ Drop(c)
        PROVE  UNCHANGED Service!vars
    <2>1. PICK p \in {"none", "ready"} :
            /\ pc[c] \in {"none", "ready"} /\ pc' = [pc EXCEPT ![c] = p]
            /\ UNCHANGED <<answer, log>>
      BY <1>6 DEF Clone, Drop, Goes
    <2>2. \A d \in Callers : StatusOf(d)' = StatusOf(d)
      BY <1>1, <2>1 DEF StatusOf
    <2> QED  BY <2>1, <2>2 DEF Service!vars
  <1>7. CASE Finish
    <2>1. serving # <<>>  BY <1>7 DEF Finish
    <2>a. Head(serving) \in Request  BY <1>1, <2>1, HeadTailProperties
    <2>b. Head(serving).caller \in Callers  BY <2>a DEF Request
    <2>2. PICK r \in Request, c \in Callers :
            r = Head(serving) /\ c = Head(serving).caller
      BY <2>a, <2>b
    <2>3. pc[c] = "waiting" /\ answer[c] = <<>>
      BY <2>1, <2>2 DEF Inv, Outstanding, Awaits
    <2>4. /\ answer' = [answer EXCEPT ![c] = serving]
          /\ log' = Append(log, r) /\ UNCHANGED pc
      BY <1>7, <2>2 DEF Finish
    <2>5. StatusOf(c) = "called" /\ StatusOf(c)' = "executed"
      BY <1>1, <2>1, <2>2, <2>3, <2>4 DEF StatusOf
    <2>6. \A d \in Callers : d # c => StatusOf(d)' = StatusOf(d)
      BY <1>1, <2>2, <2>4 DEF StatusOf
    <2>7. Statuses' = [Statuses EXCEPT ![c] = "executed"]
      BY <2>2, <2>5, <2>6 DEF Statuses
    <2>8. Executed' = Append(Executed, c)
      BY <1>1, <2>2, <2>4 DEF Executed
    <2>9. Service!Execute(c)
      BY <2>2, <2>4, <2>5, <2>7, <2>8 DEF Service!Execute, Statuses, Executed
    <2> QED  BY <2>2, <2>9 DEF Service!Next
  <1>8. Shutdown \/ Take \/ Exit \/ ClearRunning \/ UNCHANGED vars
          => UNCHANGED <<pc, answer, log>>
    BY DEF Shutdown, Take, Exit, ClearRunning, vars, callVars
  <1>9. HotplugEvent \/ HotplugSend \/ HotplugStop \/ DrainEvent
          \/ DropReceiver
          => UNCHANGED <<pc, answer, log>>
    BY DEF HotplugEvent, HotplugSend, HotplugStop, DrainEvent, DropReceiver,
           callVars
  <1> QED
    BY <1>3, <1>4, <1>5, <1>6, <1>7, <1>8, <1>9, Invisible
       DEF Next, CallStep, ThreadStep, Service!Next

\* Each call is executed once, at one moment between call and return, and
\* returns its own result: the session is a serializing command service.
THEOREM ImplementsService == Spec => Service!Spec
  BY InvHolds, InitService, StepService, PTL DEF Spec, Service!Spec
=============================================================================
