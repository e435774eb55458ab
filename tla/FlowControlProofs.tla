-------------------------- MODULE FlowControlProofs -------------------------
(***************************************************************************)
(* For any numbers of retries: two commands reach the device at least      *)
(* 100 ms apart, and without follow-ups for a dongle any two frames reach  *)
(* the keyboard so.  The controller's delay alone does not give this, for  *)
(* retries and forwarded sends happen below it.  The invariant follows the *)
(* time since the last command through the loops: a direct attempt is back *)
(* at its send with the delay slept out, and a forwarded send has slept    *)
(* 30 ms and 20 ms for each poll cycle (PollsAssumption).                  *)
(***************************************************************************)
EXTENDS FlowControl, TLAPS

Polling == Helpers \ {"prepare"}

\* Frames for a dongle reach the keyboard only in a query without one.
Follows == frame = "followUp" => transport = "Direct" /\ op \in Queries

Spacing ==
  /\ pc = "idle" => last <= clock /\ last <= rest
  /\ pc # "idle" /\ frame # "followUp" => rest = clock
  /\ Follows
  /\ stage = "forward" => transport = "DongleForward"
  /\ pc \in Helpers \cup {"forward", "last"} => op \in Queries
  /\ pc \in {"set", "prepare", "forward", "get", "last"}
       => clock = DELAY
  /\ pc \in {"prepare", "forward"} => stage = "forward"
  /\ pc \in Polling /\ stage = "direct" => clock = DELAY
  /\ pc \in Polling /\ stage = "forward"
       => clock >= Cap(ForwardWait + poll * PollDelay)

Inv == TypeOK /\ Spacing

-----------------------------------------------------------------------------
LEMMA CapType == \A t \in Nat : Cap(t) \in 0 .. DELAY
  BY DEF Cap, DELAY

LEMMA InitInv == Init => Inv
  <1> SUFFICES ASSUME Init PROVE Inv  OBVIOUS
  <1>1. transport \in {"Direct", "DongleForward"}
    BY TransportsAssumption DEF Init
  <1>2. /\ clock \in 0 .. DELAY
        /\ rest \in 0 .. DELAY
        /\ last \in 0 .. DELAY
    BY DEF Init, DELAY
  <1>3. TypeOK  BY <1>1, <1>2 DEF Init, TypeOK, Ops, Pcs
  <1>4. Spacing
    BY <1>2 DEF Init, Spacing, Follows, Polling, Helpers, DELAY
  <1> QED  BY <1>3, <1>4 DEF Inv

-----------------------------------------------------------------------------
(* What the three ways to spend time do, and the three ways to go on.      *)

Clocked == /\ clock \in 0 .. DELAY
           /\ rest \in 0 .. DELAY
           /\ frame \in {"none", "command", "followUp"}
           /\ frame # "followUp" => rest = clock

LEMMA SleepFacts ==
  ASSUME TypeOK, NEW d \in Nat, Sleep(d), frame # "followUp" => rest = clock
  PROVE  /\ Clocked'
         /\ frame' = frame
         /\ clock' = Cap(clock + d)
  <1>1. /\ clock' = Cap(clock + d) /\ rest' = Cap(rest + d)
        /\ frame' = frame /\ frame \in {"none", "command", "followUp"}
    BY DEF TypeOK, Sleep, Elapse
  <1>2. clock + d \in Nat /\ rest + d \in Nat
    BY DEF TypeOK, DELAY
  <1>3. clock' \in 0 .. DELAY /\ rest' \in 0 .. DELAY
    BY <1>1, <1>2, CapType
  <1> QED  BY <1>1, <1>3 DEF Clocked

LEMMA SetCommandFacts ==
  ASSUME TypeOK, NEW d \in Nat, SetCommand(d)
  PROVE  /\ Clocked'
         /\ frame' = "command"
         /\ clock' = Cap(d)
  BY DEF TypeOK, SetCommand, Clocked, Cap, DELAY

LEMMA SetHelperFacts ==
  ASSUME TypeOK, NEW d \in Nat, SetHelper(d), frame # "followUp" => rest = clock
  PROVE  /\ Clocked'
         /\ frame' = "followUp" => frame = "followUp" \/ transport = "Direct"
         /\ clock' = Cap(clock + d)
  <1>1. CASE transport = "DongleForward" /\ Sleep(d)
    BY <1>1, SleepFacts
  <1>2. CASE transport = "Direct" /\ clock' = Cap(clock + d) /\ rest' = Cap(d)
             /\ frame' = "followUp"
    BY <1>2 DEF TypeOK, Clocked, Cap, DELAY
  <1> QED  BY <1>1, <1>2 DEF SetHelper

LEMMA ReturnsInv ==
  ASSUME Inv, NEW r \in {"ok", "error"}, Returns(r),
         transport' = transport, op' \in Ops, reached' \in BOOLEAN,
         Clocked', Follows'
  PROVE  Inv'
  <1>1. TypeOK'
    BY DEF Inv, TypeOK, Returns, Clocked, Pcs, DELAY
  <1>2. Spacing'
    BY DEF Returns, Clocked, Spacing, Polling, Helpers, DELAY
  <1> QED  BY <1>1, <1>2 DEF Inv

LEMMA NextAttemptInv ==
  ASSUME Inv, NextAttempt,
         transport' = transport, op' \in Ops, reached' \in BOOLEAN,
         Clocked', Follows',
         attempt + 1 < Retries => clock' = DELAY
  PROVE  Inv'
  <1>1. CASE Returns("error")  BY <1>1, ReturnsInv
  <1>2. CASE /\ attempt + 1 < Retries
             /\ attempt' = attempt + 1 /\ poll' = 0 /\ status' = 0
             /\ UNCHANGED stage
             /\ GoesTo("set")
    <2>1. TypeOK'
      BY <1>2 DEF Inv, TypeOK, GoesTo, Clocked, Pcs
    <2>2. Spacing'
      BY <1>2 DEF GoesTo, Inv, Spacing, Clocked, Polling, Helpers
    <2> QED  BY <2>1, <2>2 DEF Inv
  <1> QED  BY <1>1, <1>2 DEF NextAttempt

\* The steps of a query without a dongle.
LEMMA DirectStepInv == Inv /\ DirectStep => Inv'
  <1> SUFFICES ASSUME Inv, DirectStep PROVE Inv'  OBVIOUS
  <1> USE RetriesAssumption
          DEF Inv, TypeOK, Spacing, Polling, Helpers, Ops, Pcs, Queries, DELAY,
              Cap, Elapse, Sleep, SetCommand, Follows, Returns, GoesTo, NextAttempt, counters
  <1>1. CASE Read  BY <1>1 DEF Read
  <1>2. CASE SendCommand  BY <1>2 DEF SendCommand
  <1>3. CASE SendQuery  BY <1>3 DEF SendQuery
  <1>4. CASE SetFails
    <2>1. PICK d \in {0, DELAY} :
            /\ SetCommand(d)
            /\ attempt + 1 < Retries => d = DELAY
      BY <1>4 DEF SetFails
    <2>2. /\ NextAttempt /\ transport' = transport /\ op' \in Ops
          /\ reached' \in BOOLEAN /\ clock = DELAY
      BY <1>4 DEF SetFails
    <2>3. Clocked' /\ frame' = "command" /\ clock' = Cap(d)
      BY <2>1, SetCommandFacts DEF Inv
    <2> QED  BY <2>1, <2>2, <2>3, NextAttemptInv DEF Follows
  <1>5. CASE GetAnswer  BY <1>5 DEF GetAnswer
  <1>6. CASE GetMismatch  BY <1>6 DEF GetMismatch
  <1>7. CASE GetPlaceholder  BY <1>7 DEF GetPlaceholder, PollDelay, ForwardWait
  <1>8. CASE GetFails
    <2>1. PICK d \in {0, DELAY} : Sleep(d)
      BY <1>8 DEF GetFails
    <2>2. /\ NextAttempt /\ transport' = transport /\ op' \in Ops
          /\ reached' \in BOOLEAN /\ clock = DELAY
      BY <1>8 DEF GetFails
    <2>3. /\ Clocked' /\ frame' = frame /\ op' = op
          /\ clock' = Cap(clock + d)
      BY <1>8, <2>1, SleepFacts DEF Inv, GetFails
    <2> QED  BY <2>1, <2>2, <2>3, NextAttemptInv DEF Follows
  <1>9. CASE LastGet  BY <1>9 DEF LastGet
  <1> QED
    BY <1>1, <1>2, <1>3, <1>4, <1>5, <1>6, <1>7, <1>8, <1>9 DEF DirectStep

-----------------------------------------------------------------------------
(* The steps of a forwarded query, and the follow-ups of a placeholder.    *)

LEMMA PollTimes ==
  /\ \A n \in Nat : ForwardWait + n * PollDelay \in Nat
  /\ \A n \in Nat : ForwardWait + (n + 1) * PollDelay
                       = (ForwardWait + n * PollDelay) + PollDelay
  /\ ForwardWait + 0 * PollDelay = ForwardWait
  /\ \A n \in Nat : n + 1 >= PollRetries
                      => ForwardWait + (n + 1) * PollDelay >= DELAY
  BY RetriesAssumption, PollsAssumption DEF ForwardWait, PollDelay, DELAY

\* What a helper's step does to the time since the last command, d ms having
\* been slept.
Slept(d) == /\ Clocked'
            /\ Follows'
            /\ clock' = Cap(clock + d)

LEMMA CycleEndsInv ==
  ASSUME Inv, pc \in Polling, CycleEnds,
         NEW d \in Nat, d >= CycleWait, Slept(d),
         UNCHANGED <<transport, op, reached>>
  PROVE  Inv'
  <1>1. TypeOK'
    BY DEF Inv, TypeOK, CycleEnds, GoesTo, Slept, Clocked, Pcs, Helpers
  <1>2. /\ clock \in 0 .. DELAY /\ poll \in Nat
        /\ Clocked' /\ Follows' /\ op' \in Queries
        /\ stage = "forward" => transport' = "DongleForward"
        /\ stage' = "forward" => stage = "forward"
    BY DEF Inv, TypeOK, Spacing, Slept, Polling, CycleEnds
  <1>3. CASE stage = "direct"
    <2>1. clock' = DELAY
      BY <1>2, <1>3 DEF Inv, Spacing, Slept, CycleWait, Cap, DELAY
    <2>2. stage' = "direct" /\ pc' = "last"
      BY <1>3 DEF CycleEnds, GoesTo
    <2>3. Spacing'  BY <1>2, <2>1, <2>2 DEF Spacing, Polling, Helpers, Clocked
    <2> QED  BY <1>1, <2>3 DEF Inv
  <1>4. CASE stage = "forward"
    <2>1. clock' >= Cap(ForwardWait + (poll + 1) * PollDelay)
      <3>1. clock >= Cap(ForwardWait + poll * PollDelay)
        BY <1>4 DEF Inv, Spacing
      <3>2. clock' = Cap(clock + d) /\ d >= PollDelay
        BY <1>4 DEF Slept, CycleWait
      <3> QED
        BY <1>2, <3>1, <3>2, PollTimes DEF Cap, PollDelay, DELAY
    <2>2. clock' \in 0 .. DELAY  BY DEF Slept, Clocked
    <2>3. CASE poll + 1 < PollRetries
      <3>1. pc' = "status" /\ poll' = poll + 1 /\ stage' = "forward"
        BY <1>2, <1>4, <2>3, RetriesAssumption DEF CycleEnds, GoesTo
      <3>2. Spacing'
        BY <1>2, <2>1, <2>2, <3>1 DEF Spacing, Polling, Helpers, Clocked
      <3> QED  BY <1>1, <3>2 DEF Inv
    <2>4. CASE poll + 1 >= PollRetries
      <3>1. pc' = "set" \/ (pc' = "forward" /\ stage' = "forward")
        BY <1>2, <1>4, <2>4, RetriesAssumption DEF CycleEnds, GoesTo
      <3>2. clock' = DELAY
        BY <1>2, <2>1, <2>2, <2>4, PollTimes DEF Cap, DELAY
      <3>3. Spacing'
        BY <1>2, <3>1, <3>2 DEF Spacing, Polling, Helpers, Clocked
      <3> QED  BY <1>1, <3>3 DEF Inv
    <2> QED  BY <1>2, <2>3, <2>4, RetriesAssumption
  <1> QED  BY <1>3, <1>4 DEF Inv, TypeOK

\* A helper's step that stays in the poll cycle, with d >= 0 slept.
LEMMA PollingOn ==
  ASSUME Inv, pc \in Polling, pc' \in Polling, NEW d \in Nat, Slept(d),
         UNCHANGED <<transport, op, stage, attempt, poll, last, outcome,
                     reached>>,
         status' \in Nat
  PROVE  Inv'
  <1>1. TypeOK'
    BY DEF Inv, TypeOK, Slept, Clocked, Pcs, Polling
  <1>2. clock \in 0 .. DELAY /\ poll \in Nat
    BY DEF Inv, TypeOK
  <1>3. clock' >= clock /\ clock' \in 0 .. DELAY
    BY <1>2 DEF Slept, Clocked, Cap, DELAY
  <1>4. /\ Clocked' /\ Follows' /\ op' \in Queries
        /\ stage' = "forward" => transport' = "DongleForward"
    BY DEF Slept, Inv, Spacing, Polling
  <1>5. Cap(ForwardWait + poll * PollDelay) \in 0 .. DELAY
    BY <1>2, PollTimes, CapType
  <1>6. /\ stage = "direct" => clock' = DELAY
        /\ stage = "forward"
             => clock' >= Cap(ForwardWait + poll * PollDelay)
    BY <1>2, <1>3, <1>5 DEF Inv, Spacing, DELAY
  <1>7. Spacing'  BY <1>4, <1>6 DEF Spacing, Polling, Helpers, Clocked
  <1> QED  BY <1>1, <1>7 DEF Inv

LEMMA DongleStepInv == Inv /\ DongleStep => Inv'
  <1> SUFFICES ASSUME Inv, DongleStep PROVE Inv'  OBVIOUS
  <1>a. 0 \in Nat /\ PrepareWait \in Nat /\ PollDelay \in Nat /\ FlushWait \in Nat
        /\ ForwardWait \in Nat /\ PollDelay + CycleWait \in Nat /\ CycleWait \in Nat
    BY DEF PrepareWait, PollDelay, FlushWait, ForwardWait, CycleWait
  <1>g. CycleWait >= CycleWait  BY <1>a
  <1>b. /\ attempt \in Nat /\ poll \in Nat /\ status \in Nat
        /\ clock \in 0 .. DELAY /\ op \in Ops
    BY DEF Inv, TypeOK
  <1>h. pc \in Helpers \cup {"forward"} /\ UNCHANGED <<transport, op>>
    BY DEF DongleStep, Prepare, Forward, ForwardFails, AskStatus, AskStatusFails,
           HasResponse, NoResponse, GetStatusFails, Flush, FlushFails,
           FlushedAnswer, FlushedOther, Helpers
  <1>i. /\ op' \in Queries
        /\ frame # "followUp" => rest = clock
        /\ Follows
        /\ stage = "forward" => transport' = "DongleForward"
    BY <1>h DEF Inv, Spacing, Helpers
  <1>c. TypeOK  BY DEF Inv
  <1>d. {"status", "statusGet", "flush", "flushGet"} \subseteq Polling
    BY DEF Polling, Helpers
  <1>e. \A d \in Nat : Sleep(d) => Slept(d)
    BY <1>c, <1>h, <1>i, SleepFacts DEF Slept, Follows
  <1>f. \A d \in Nat : SetHelper(d) => Slept(d)
    BY <1>c, <1>h, <1>i, SetHelperFacts DEF Slept, Follows
  <1>1. CASE Prepare
    <2>1. PICK d \in {0, PrepareWait} : SetHelper(d)  BY <1>1 DEF Prepare
    <2>2. Slept(d)  BY <1>a, <1>f, <2>1
    <2>3. /\ pc = "prepare" /\ pc' = "forward"
          /\ UNCHANGED <<transport, op, stage, attempt, poll, status, last,
                         outcome, reached>>
      BY <1>1 DEF Prepare, GoesTo, counters
    <2>4. TypeOK'  BY <1>c, <2>2, <2>3 DEF TypeOK, Slept, Clocked, Pcs
    <2>5. clock = DELAY /\ stage = "forward"
      BY <2>3 DEF Inv, Spacing
    <2>6. clock' = DELAY
      BY <1>a, <2>1, <2>2, <2>5 DEF Slept, Cap, DELAY, PrepareWait
    <2>7. Spacing'
      BY <1>i, <2>2, <2>3, <2>5, <2>6
         DEF Spacing, Slept, Clocked, Polling, Helpers
    <2> QED  BY <2>4, <2>7 DEF Inv
  <1>2. CASE Forward
    <2>1. /\ Clocked' /\ frame' = "command"
          /\ clock' = Cap(ForwardWait)
      BY <1>2, <1>a, <1>c, SetCommandFacts DEF Forward
    <2>2. /\ pc = "forward" /\ pc' = "status" /\ poll' = 0 /\ status' = 0
          /\ reached' = TRUE
          /\ UNCHANGED <<transport, op, stage, attempt, last, outcome>>
      BY <1>2 DEF Forward, GoesTo
    <2>3. TypeOK'  BY <1>c, <2>1, <2>2 DEF TypeOK, Clocked, Pcs, Helpers
    <2>4. clock = DELAY  BY <2>2 DEF Inv, Spacing
    <2>5. stage = "forward"  BY <2>2 DEF Inv, Spacing
    <2>6. ForwardWait + poll' * PollDelay = ForwardWait  BY <2>2, PollTimes
    <2>7. Spacing'
      BY <1>i, <2>1, <2>2, <2>4, <2>5, <2>6
         DEF Spacing, Clocked, Follows, Polling, Helpers, DELAY, Cap, ForwardWait
    <2> QED  BY <2>3, <2>7 DEF Inv
  <1>3. CASE ForwardFails
    <2>1. Clocked' /\ frame' = "command"
      BY <1>3, <1>a, <1>c, SetCommandFacts DEF ForwardFails
    <2>2. /\ Returns("error") /\ reached' \in BOOLEAN
          /\ transport' = transport /\ op' = op /\ clock = DELAY
      BY <1>3, <1>c DEF ForwardFails, TypeOK, Inv, Spacing
    <2> QED  BY <1>b, <2>1, <2>2, ReturnsInv DEF Follows
  <1>4. CASE AskStatus
    BY <1>4, <1>a, <1>b, <1>d, <1>f, PollingOn DEF AskStatus, GoesTo
  <1>5. CASE AskStatusFails
    BY <1>5, <1>a, <1>d, <1>f, <1>g, CycleEndsInv DEF AskStatusFails
  <1>6. CASE HasResponse
    BY <1>6, <1>a, <1>b, <1>d, <1>e, PollingOn DEF HasResponse, GoesTo, counters
  <1>7. CASE NoResponse
    <2>1. CASE CycleGoesOn /\ Sleep(PollDelay)
      BY <1>7, <2>1, <1>a, <1>b, <1>d, <1>e, PollingOn
         DEF NoResponse, CycleGoesOn, GoesTo, counters
    <2>2. CASE CycleEnds /\ Sleep(PollDelay + CycleWait)
      <3>1. PollDelay + CycleWait >= CycleWait
        BY <1>a DEF PollDelay
      <3> QED  BY <1>7, <2>2, <1>a, <1>d, <1>e, <3>1, CycleEndsInv DEF NoResponse
    <2> QED  BY <1>7, <2>1, <2>2 DEF NoResponse
  <1>8. CASE GetStatusFails
    BY <1>8, <1>a, <1>d, <1>e, <1>g, CycleEndsInv DEF GetStatusFails
  <1>9. CASE Flush
    BY <1>9, <1>a, <1>b, <1>d, <1>f, PollingOn DEF Flush, GoesTo, counters
  <1>10. CASE FlushFails
    <2>1. CASE CycleGoesOn /\ SetHelper(0)
      BY <1>10, <2>1, <1>a, <1>b, <1>d, <1>f, PollingOn
         DEF FlushFails, CycleGoesOn, GoesTo, counters
    <2>2. CASE CycleEnds /\ SetHelper(CycleWait)
      BY <1>10, <2>2, <1>a, <1>d, <1>f, <1>g, CycleEndsInv DEF FlushFails
    <2> QED  BY <1>10, <2>1, <2>2 DEF FlushFails
  <1>11. CASE FlushedAnswer
    <2>1. Slept(0)  BY <1>11, <1>a, <1>e DEF FlushedAnswer
    <2> QED  BY <1>11, <1>b, <1>c, <2>1, ReturnsInv DEF FlushedAnswer, Slept, TypeOK
  <1>12. CASE FlushedOther
    <2>1. CASE CycleGoesOn /\ Sleep(0)
      BY <1>12, <2>1, <1>a, <1>b, <1>d, <1>e, PollingOn
         DEF FlushedOther, CycleGoesOn, GoesTo, counters
    <2>2. CASE CycleEnds /\ Sleep(CycleWait)
      BY <1>12, <2>2, <1>a, <1>d, <1>e, <1>g, CycleEndsInv DEF FlushedOther
    <2> QED  BY <1>12, <2>1, <2>2 DEF FlushedOther
  <1> QED
    BY <1>1, <1>2, <1>3, <1>4, <1>5, <1>6, <1>7, <1>8, <1>9, <1>10, <1>11, <1>12
       DEF DongleStep

-----------------------------------------------------------------------------
LEMMA BeginInv == ASSUME Inv, NEW o \in Ops, Begin(o) PROVE Inv'
  <1>1. PICK d \in Nat : Elapse(d) /\ d >= DELAY - last
    BY DEF Begin, Inv, TypeOK, DELAY
  <1>2. /\ clock' = Cap(clock + d) /\ rest' = Cap(rest + d) /\ frame' = "none"
    BY <1>1 DEF Begin, Elapse
  <1>3. /\ last <= clock /\ last \in 0 .. DELAY
        /\ last <= rest /\ rest \in 0 .. DELAY /\ clock \in 0 .. DELAY
        /\ stage \in {"direct", "forward"}
    BY DEF Inv, TypeOK, Spacing, Begin
  <1>4. clock' = DELAY /\ rest' = DELAY
    BY <1>1, <1>2, <1>3 DEF Cap, DELAY
  <1>5. FirstStep(o) \in {"read", "prepare", "set"}
    BY DEF FirstStep, Ops
  <1>6. /\ pc' = FirstStep(o) /\ op' = o /\ reached' = FALSE
        /\ pc' = "prepare" => stage' = "forward" /\ o = "query"
        /\ stage' \in {"direct", "forward"}
        /\ stage' = "forward" => transport = "DongleForward"
        /\ UNCHANGED <<transport, attempt, poll, status, last, outcome>>
    BY DEF Begin, GoesTo, counters, FirstStep
  <1>7. TypeOK'
    <2>1. clock' \in 0 .. DELAY /\ rest' \in 0 .. DELAY
      BY <1>4 DEF DELAY
    <2> QED
      BY <1>2, <1>5, <1>6, <2>1 DEF Inv, TypeOK, Pcs, Helpers
  <1>8. Spacing'
    BY <1>2, <1>3, <1>4, <1>5, <1>6 DEF Spacing, Polling, Helpers, Follows, Queries
  <1> QED  BY <1>7, <1>8 DEF Inv

LEMMA NextInv == Inv /\ [Next]_vars => Inv'
  <1> SUFFICES ASSUME Inv, [Next]_vars PROVE Inv'  OBVIOUS
  <1>1. ASSUME NEW o \in Ops, Begin(o) PROVE Inv'  BY <1>1, BeginInv
  <1>2. CASE DirectStep  BY <1>2, DirectStepInv
  <1>3. CASE DongleStep  BY <1>3, DongleStepInv
  <1>4. CASE UNCHANGED vars
    BY <1>4 DEF vars, counters, Inv, TypeOK, Spacing, Follows
  <1> QED  BY <1>1, <1>2, <1>3, <1>4 DEF Next

\* Commands, retries included, are sent 100 ms apart, and so are all frames a
\* wired keyboard takes but those after an empty placeholder: what
\* CommandController and the loops of flow_control.rs do for the delay.
THEOREM CommandsAreSpaced == Spec => []CommandsSpaced
  <1>1. ASSUME Inv PROVE CommandsSpaced
    <2>1. /\ clock \in 0 .. DELAY
          /\ stage \in {"direct", "forward"}
          /\ transport = "Direct" => stage = "direct"
      BY <1>1 DEF Inv, TypeOK, Spacing
    <2>2. SendsToKeyboard => clock = DELAY /\ pc # "idle"
      BY <1>1, <2>1 DEF Inv, Spacing, SendsToKeyboard, Polling, Helpers
    <2>3. pc \in {"set", "forward"} => SendsToKeyboard
      BY DEF SendsToKeyboard
    <2>4. DELAY >= DELAY
      BY DEF DELAY
    <2> QED  BY <1>1, <2>2, <2>3, <2>4 DEF Inv, Spacing, Follows, CommandsSpaced
  <1> QED  BY <1>1, InitInv, NextInv, PTL DEF Spec

-----------------------------------------------------------------------------
(* Answers are read only after the command has been sent.                  *)

Sent ==
  /\ pc \in {"get", "last"} \cup Polling => reached
  /\ pc = "idle" /\ outcome = "ok" /\ op # "read" => reached
  /\ pc = "read" => op = "read"

LEMMA SentInit == Init => Sent
  BY DEF Init, Sent, Polling, Helpers

LEMMA SentNext == Sent /\ [Next]_vars => Sent'
  <1> SUFFICES ASSUME Sent, [Next]_vars PROVE Sent'  OBVIOUS
  <1> USE DEF Sent, Polling, Helpers, GoesTo, Returns
  <1>1. ASSUME NEW o \in Ops, Begin(o) PROVE Sent'
    BY <1>1 DEF Begin, FirstStep, Ops
  <1>2. CASE Read  BY <1>2 DEF Read
  <1>3. CASE SendCommand \/ SendQuery  BY <1>3 DEF SendCommand, SendQuery
  <1>4. CASE SetFails  BY <1>4 DEF SetFails, NextAttempt
  <1>5. CASE GetAnswer \/ GetMismatch \/ GetPlaceholder
    BY <1>5 DEF GetAnswer, GetMismatch, GetPlaceholder, NextAttempt
  <1>6. CASE GetFails \/ LastGet
    BY <1>6 DEF GetFails, LastGet, NextAttempt
  <1>7. CASE Prepare \/ Forward \/ ForwardFails
    BY <1>7 DEF Prepare, Forward, ForwardFails
  <1>8. CASE AskStatus \/ AskStatusFails
    BY <1>8 DEF AskStatus, AskStatusFails, CycleEnds
  <1>9. CASE HasResponse \/ NoResponse \/ GetStatusFails
    BY <1>9 DEF HasResponse, NoResponse, GetStatusFails, CycleEnds, CycleGoesOn
  <1>10. CASE Flush \/ FlushFails
    BY <1>10 DEF Flush, FlushFails, CycleEnds, CycleGoesOn
  <1>11. CASE FlushedAnswer \/ FlushedOther
    BY <1>11 DEF FlushedAnswer, FlushedOther, CycleEnds, CycleGoesOn
  <1>12. CASE UNCHANGED vars  BY <1>12 DEF vars
  <1> QED
    BY <1>1, <1>2, <1>3, <1>4, <1>5, <1>6, <1>7, <1>8, <1>9, <1>10, <1>11,
       <1>12 DEF Next, DirectStep, DongleStep

\* A query_command, query_raw or send_command that succeeds has put its own
\* command on the bus during this call.
THEOREM SuccessIsSent == Spec => []SuccessMeansSent
  <1>1. Sent => SuccessMeansSent  BY DEF Sent, SuccessMeansSent
  <1> QED  BY <1>1, SentInit, SentNext, PTL DEF Spec
=============================================================================
