----------------------------- MODULE FlowControl ----------------------------
(***************************************************************************)
(* How one command reaches the keyboard (monsgeek-transport, controller.rs *)
(* and flow_control.rs): the controller spaces commands, send_command,     *)
(* query_command and query_raw retry them, and a query to a keyboard       *)
(* behind a 2.4 GHz dongle sends the command, polls the dongle's status    *)
(* and flushes the answer it has cached.                                   *)
(*                                                                         *)
(* The transport thread is the only user, so the steps of one operation    *)
(* follow each other.  Only the sleeps take time: a transfer takes none,   *)
(* the worst case for spacing.  Every transfer may fail and every read may *)
(* return anything; a write that fails may still have arrived.  On the     *)
(* direct transport the device is the keyboard itself, and takes every     *)
(* frame; behind a dongle it gets the commands only.                       *)
(***************************************************************************)
EXTENDS Naturals

CONSTANTS Transports,    \* control transports to start with
          QueryRetries, SendRetries,
          ForwardSends,  \* sends of a forwarded query
          PollRetries,   \* poll cycles after each of them
          StatusRetries  \* status reads in a poll cycle

\* All times are in milliseconds.
DELAY == 100          \* DEFAULT_DELAY_MS
PrepareWait == 2      \* after SET_RESPONSE_SIZE
ForwardWait == 30     \* FORWARD_INITIAL_WAIT_MS
PollDelay == 20       \* POLL_DELAY_MS
FlushWait == 8        \* after GET_CACHED_RESPONSE

ASSUME TransportsAssumption == Transports \subseteq {"Direct", "DongleForward"}
ASSUME RetriesAssumption ==
  {QueryRetries, SendRetries, ForwardSends, PollRetries, StatusRetries}
    \subseteq Nat \ {0}
ASSUME PollsAssumption == ForwardWait + PollRetries * PollDelay >= DELAY

VARIABLES
  transport, \* control_transport of the session
  op,        \* the operation under way, or the last one
  pc,        \* its next step, "idle" between operations
  stage,     \* "forward" in query_via_dongle_forward_path, else "direct"
  attempt,   \* sends made before the current one
  poll,      \* poll cycles finished since the last forwarded send
  status,    \* status reads made in the current poll cycle
  last,      \* time since last_command_at when the operation began
  outcome,   \* result of the last operation
  reached,   \* history: has the command of this operation reached the device?
  clock,     \* history: time since the last command
  rest,      \* history: time since the last frame the keyboard took
  frame      \* history: the last frame of this operation the keyboard took

counters == <<attempt, poll, status>>
vars == <<transport, op, pc, stage, counters, last, outcome, reached, clock,
          rest, frame>>

Ops == {"send", "query", "localQuery", "raw", "read"}
Queries == {"query", "localQuery"}
Helpers == {"prepare", "status", "statusGet", "flush", "flushGet"}
Pcs == {"idle", "set", "get", "last", "forward", "read"} \cup Helpers

Init ==
  /\ transport \in Transports
  /\ op = "read"
  /\ pc = "idle"
  /\ stage = "direct"
  /\ attempt = 0 /\ poll = 0 /\ status = 0
  /\ last = DELAY
  /\ outcome = "none"
  /\ reached = FALSE
  /\ clock = DELAY
  /\ rest = DELAY
  /\ frame = "none"

-----------------------------------------------------------------------------
(* Time and outcomes.                                                      *)

\* Times beyond DELAY are all alike.
Cap(t) == IF t > DELAY THEN DELAY ELSE t

Elapse(d) == clock' = Cap(clock + d) /\ rest' = Cap(rest + d)

Sleep(d) == Elapse(d) /\ UNCHANGED frame

\* vendor_set_report of the operation's own frame, then a sleep of d.
SetCommand(d) == clock' = Cap(d) /\ rest' = Cap(d) /\ frame' = "command"

\* vendor_set_report of a frame that asks a dongle for something, then a sleep
\* of d: without a dongle the frame goes to the keyboard.
SetHelper(d) ==
  \/ transport = "DongleForward" /\ Sleep(d)
  \/ /\ transport = "Direct"
     /\ clock' = Cap(clock + d)
     /\ rest' = Cap(d)
     /\ frame' = "followUp"

\* The operation returns, and the controller notes the time.
Returns(result) ==
  /\ pc' = "idle"
  /\ outcome' = result
  /\ last' = 0
  /\ stage' = "direct"
  /\ attempt' = 0 /\ poll' = 0 /\ status' = 0

GoesTo(step) == pc' = step /\ UNCHANGED <<outcome, last>>

-----------------------------------------------------------------------------
(* The controller.                                                         *)

FirstStep(o) ==
  CASE o = "read" -> "read"
    [] o = "query" /\ transport = "DongleForward" -> "prepare"
    [] OTHER -> "set"

\* Mutant of Begin: the operation starts at once.
BeginAtOnce(o) ==
  /\ pc = "idle"
  /\ op' = o
  /\ Elapse(0) /\ frame' = "none"
  /\ GoesTo(FirstStep(o))
  /\ stage' = IF FirstStep(o) = "prepare" THEN "forward" ELSE "direct"
  /\ reached' = FALSE
  /\ UNCHANGED <<transport, counters>>

\* enforce_inter_command_delay sleeps out what is left of the delay; the
\* operation may also have come later.
Begin(o) ==
  /\ pc = "idle"
  /\ op' = o
  /\ \E d \in {DELAY - last, DELAY} : Elapse(d)
  /\ frame' = "none"
  /\ GoesTo(FirstStep(o))
  /\ stage' = IF FirstStep(o) = "prepare" THEN "forward" ELSE "direct"
  /\ reached' = FALSE
  /\ UNCHANGED <<transport, counters>>

\* read_feature_report: one GET_REPORT, no retry.
Read ==
  /\ pc = "read"
  /\ \E r \in {"ok", "error"} : Returns(r)
  /\ Sleep(0)
  /\ UNCHANGED <<transport, op, reached>>

-----------------------------------------------------------------------------
(* send_command, query_command and query_raw.                              *)

Retries == IF op = "send" THEN SendRetries ELSE QueryRetries

\* On to the next attempt, or out of the loop.
NextAttempt ==
  \/ /\ attempt + 1 < Retries
     /\ attempt' = attempt + 1 /\ poll' = 0 /\ status' = 0
     /\ UNCHANGED stage
     /\ GoesTo("set")
  \/ /\ attempt + 1 >= Retries
     /\ Returns("error")

SendCommand ==
  /\ pc = "set"
  /\ op = "send"
  /\ SetCommand(0)
  /\ reached' = TRUE
  /\ Returns("ok")
  /\ UNCHANGED <<transport, op>>

SendQuery ==
  /\ pc = "set"
  /\ op # "send"
  /\ SetCommand(DELAY)
  /\ reached' = TRUE
  /\ GoesTo("get")
  /\ UNCHANGED <<transport, op, stage, counters>>

\* Mutant of SetFails: a query reads the answer all the same.
SetFailsReads ==
  /\ pc = "set"
  /\ SetCommand(DELAY)
  /\ reached' \in {reached, TRUE}
  /\ GoesTo("get")
  /\ UNCHANGED <<transport, op, stage, counters>>

\* The last attempt does not sleep.
SetFails ==
  /\ pc = "set"
  /\ SetCommand(IF attempt + 1 < Retries THEN DELAY ELSE 0)
  /\ reached' \in {reached, TRUE}
  /\ NextAttempt
  /\ UNCHANGED <<transport, op>>

\* query_raw takes the first answer, query_command only one with its echo.
GetAnswer ==
  /\ pc = "get"
  /\ Returns("ok")
  /\ Sleep(0)
  /\ UNCHANGED <<transport, op, reached>>

GetMismatch ==
  /\ pc = "get"
  /\ op \in Queries
  /\ NextAttempt
  /\ Sleep(0)
  /\ UNCHANGED <<transport, op, reached>>

\* An empty placeholder: the answer may be cached in a dongle after all.
GetPlaceholder ==
  /\ pc = "get"
  /\ op \in Queries
  /\ GoesTo("flush")
  /\ Sleep(0)
  /\ UNCHANGED <<transport, op, stage, counters, reached>>

GetFails ==
  /\ pc = "get"
  /\ Sleep(IF attempt + 1 < Retries THEN DELAY ELSE 0)
  /\ NextAttempt
  /\ UNCHANGED <<transport, op, reached>>

\* The read after the follow-ups of a placeholder.
LastGet ==
  /\ pc = "last"
  /\ Returns("ok") \/ NextAttempt
  /\ Sleep(0)
  /\ UNCHANGED <<transport, op, reached>>

-----------------------------------------------------------------------------
(* The dongle.                                                             *)

\* prepare_dongle_forwarding: SET_RESPONSE_SIZE, its outcome ignored.
Prepare ==
  /\ pc = "prepare"
  /\ \E d \in {0, PrepareWait} : SetHelper(d)
  /\ GoesTo("forward")
  /\ UNCHANGED <<transport, op, stage, counters, reached>>

Forward ==
  /\ pc = "forward"
  /\ SetCommand(ForwardWait)
  /\ reached' = TRUE
  /\ poll' = 0 /\ status' = 0
  /\ GoesTo("status")
  /\ UNCHANGED <<transport, op, stage, attempt>>

\* A forwarded send that fails ends the query.
ForwardFails ==
  /\ pc = "forward"
  /\ SetCommand(0)
  /\ reached' \in {reached, TRUE}
  /\ Returns("error")
  /\ UNCHANGED <<transport, op>>

\* Time to sleep when a poll cycle ends without an answer.
CycleWait == IF stage = "forward" THEN PollDelay ELSE 0

\* Mutant of CycleEnds: a forwarded query polls until it has its answer.
CycleEndsPolling ==
  \/ /\ stage = "direct"
     /\ status' = 0
     /\ UNCHANGED <<stage, attempt, poll>>
     /\ GoesTo("last")
  \/ /\ stage = "forward"
     /\ status' = 0
     /\ UNCHANGED <<stage, attempt, poll>>
     /\ GoesTo("status")

\* A poll cycle has ended without an answer: on a direct query there is one
\* more read, a forwarded one polls again, then sends again, and in the end
\* falls back to a direct query.
CycleEnds ==
  \/ /\ stage = "direct"
     /\ status' = 0
     /\ UNCHANGED <<stage, attempt, poll>>
     /\ GoesTo("last")
  \/ /\ stage = "forward"
     /\ poll + 1 < PollRetries
     /\ poll' = poll + 1 /\ status' = 0
     /\ UNCHANGED <<stage, attempt>>
     /\ GoesTo("status")
  \/ /\ stage = "forward"
     /\ poll + 1 >= PollRetries
     /\ attempt + 1 < ForwardSends
     /\ attempt' = attempt + 1 /\ poll' = 0 /\ status' = 0
     /\ UNCHANGED stage
     /\ GoesTo("forward")
  \/ /\ stage = "forward"
     /\ poll + 1 >= PollRetries
     /\ attempt + 1 >= ForwardSends
     /\ stage' = "direct"
     /\ attempt' = 0 /\ poll' = 0 /\ status' = 0
     /\ GoesTo("set")

\* On to the next status read of the cycle.
CycleGoesOn == /\ status < StatusRetries
               /\ GoesTo("status")
               /\ UNCHANGED <<stage, counters>>

AskStatus ==
  /\ pc = "status"
  /\ SetHelper(PollDelay)
  /\ status' = status + 1
  /\ GoesTo("statusGet")
  /\ UNCHANGED <<transport, op, stage, attempt, poll, reached>>

AskStatusFails ==
  /\ pc = "status"
  /\ SetHelper(CycleWait)
  /\ CycleEnds
  /\ UNCHANGED <<transport, op, reached>>

HasResponse ==
  /\ pc = "statusGet"
  /\ GoesTo("flush")
  /\ Sleep(0)
  /\ UNCHANGED <<transport, op, stage, counters, reached>>

NoResponse ==
  /\ pc = "statusGet"
  /\ \/ CycleGoesOn /\ Sleep(PollDelay)
     \/ status = StatusRetries /\ CycleEnds /\ Sleep(PollDelay + CycleWait)
  /\ UNCHANGED <<transport, op, reached>>

GetStatusFails ==
  /\ pc = "statusGet"
  /\ CycleEnds
  /\ Sleep(CycleWait)
  /\ UNCHANGED <<transport, op, reached>>

\* try_read_cached_response_after_flush.
Flush ==
  /\ pc = "flush"
  /\ SetHelper(FlushWait)
  /\ GoesTo("flushGet")
  /\ UNCHANGED <<transport, op, stage, counters, reached>>

FlushFails ==
  /\ pc = "flush"
  /\ \/ CycleGoesOn /\ SetHelper(0)
     \/ status = StatusRetries /\ CycleEnds /\ SetHelper(CycleWait)
  /\ UNCHANGED <<transport, op, reached>>

FlushedAnswer ==
  /\ pc = "flushGet"
  /\ Returns("ok")
  /\ Sleep(0)
  /\ UNCHANGED <<transport, op, reached>>

FlushedOther ==
  /\ pc = "flushGet"
  /\ \/ CycleGoesOn /\ Sleep(0)
     \/ status = StatusRetries /\ CycleEnds /\ Sleep(CycleWait)
  /\ UNCHANGED <<transport, op, reached>>

-----------------------------------------------------------------------------
DirectStep == \/ Read \/ SendCommand \/ SendQuery \/ SetFails
              \/ GetAnswer \/ GetMismatch \/ GetPlaceholder \/ GetFails
              \/ LastGet

DongleStep == \/ Prepare \/ Forward \/ ForwardFails
              \/ AskStatus \/ AskStatusFails
              \/ HasResponse \/ NoResponse \/ GetStatusFails
              \/ Flush \/ FlushFails \/ FlushedAnswer \/ FlushedOther

Next == (\E o \in Ops : Begin(o)) \/ DirectStep \/ DongleStep

Spec == Init /\ [][Next]_vars

\* The transport thread runs.
FairSpec == Spec /\ WF_vars(DirectStep \/ DongleStep)

-----------------------------------------------------------------------------
(* Properties.                                                             *)

TypeOK ==
  /\ transport \in {"Direct", "DongleForward"}
  /\ op \in Ops
  /\ pc \in Pcs
  /\ stage \in {"direct", "forward"}
  /\ attempt \in Nat /\ poll \in Nat /\ status \in Nat
  /\ last \in 0 .. DELAY
  /\ outcome \in {"none", "ok", "error"}
  /\ reached \in BOOLEAN
  /\ clock \in 0 .. DELAY
  /\ rest \in 0 .. DELAY
  /\ frame \in {"none", "command", "followUp"}

\* The next step sends the keyboard a frame.
SendsToKeyboard ==
  \/ pc \in {"set", "forward"}
  \/ transport = "Direct" /\ pc \in {"status", "flush"}

\* "requires a 100ms delay between HID commands" (timing.rs:3): a command,
\* first sent or retried, is sent no sooner than 100 ms after the command before
\* it, and whatever is sent to the keyboard no sooner than 100 ms after the
\* frame before it.  The exception is what follows frames for a dongle that go
\* to a wired keyboard: once a query_command has read an empty placeholder,
\* GET_CACHED_RESPONSE and GET_DONGLE_STATUS follow each other after 0 to 40 ms,
\* and its next attempt may follow the last of them at once
\* (flow_control.rs:273-307); the operation after that may not.
CommandsSpaced ==
  /\ pc \in {"set", "forward"} => clock >= DELAY
  /\ SendsToKeyboard /\ frame # "followUp" => rest >= DELAY
  /\ frame = "followUp" => transport = "Direct" /\ op \in Queries

\* An operation that reports success has sent its own command: no answer is
\* read that an earlier operation left behind.
SuccessMeansSent ==
  pc = "idle" /\ outcome = "ok" /\ op # "read" => reached

\* However transfers fail and whatever the dongle answers, every operation
\* returns.
OperationsReturn == pc # "idle" ~> pc = "idle"
=============================================================================
