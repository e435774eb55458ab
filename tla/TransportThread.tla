-------------------------- MODULE TransportThread ---------------------------
(***************************************************************************)
(* One transport session (monsgeek-transport, lib.rs and thread.rs): the   *)
(* clones of its TransportHandle, the bounded channel they put requests    *)
(* in, the thread that owns the USB session and serves them one by one,    *)
(* the one-shot channel that carries each answer back, and the hot-plug    *)
(* thread that shares the thread's event channel.                          *)
(*                                                                         *)
(* A caller is an RPC: it clones the handle kept in the bridge's table,    *)
(* makes calls through it and drops it.  Its calls run on a blocking       *)
(* thread, so they run to their end even when the RPC is cancelled.        *)
(***************************************************************************)
EXTENDS Naturals, Sequences, FiniteSets

CONSTANTS Callers,
          Cap,        \* capacity of the request channel, REQUEST_QUEUE_SIZE
          MaxCalls,   \* bound: calls each caller makes
          EventCap,   \* capacity of the event channel
          MaxEvents   \* bound: hot-plug events of the keyboard's vendor

ASSUME CapAssumption == Cap \in Nat \ {0} /\ EventCap \in Nat \ {0}
ASSUME BoundsAssumption == MaxCalls \in Nat /\ MaxEvents \in Nat

VARIABLES
  table,     \* does the bridge's table hold a clone of the handle?
  pc,        \* where each caller is
  calls,     \* calls it has made
  answer,    \* its one-shot response channel
  queue,     \* the request channel
  serving,   \* the request the thread is executing, or none
  thread,    \* "running" until the thread has left its loop
  running,   \* the flag shared with the hot-plug thread
  submitted, \* history: requests in the order they entered the channel
  log,       \* history: requests in the order the keyboard executed them
  hotplug,   \* where the hot-plug thread is
  receiver,  \* does the owner still have the event receiver?
  events,    \* events in the event channel
  plugs      \* hot-plug events so far

callVars  == <<pc, calls, answer>>
eventVars == <<hotplug, receiver, events, plugs>>
vars == <<table, callVars, queue, serving, thread, running, submitted, log,
          eventVars>>

Request == [caller : Callers, call : 0 .. MaxCalls]
Pcs == {"none", "ready", "sending", "waiting"}

Init ==
  /\ table = TRUE
  /\ pc = [c \in Callers |-> "none"]
  /\ calls = [c \in Callers |-> 0]
  /\ answer = [c \in Callers |-> <<>>]
  /\ queue = <<>>
  /\ serving = <<>>
  /\ thread = "running"
  /\ running = TRUE
  /\ submitted = <<>>
  /\ log = <<>>
  /\ hotplug = "polling"
  /\ receiver = TRUE
  /\ events = 0
  /\ plugs = 0

Goes(c, p) == pc' = [pc EXCEPT ![c] = p]
Mine(c) == [caller |-> c, call |-> calls[c]]

-----------------------------------------------------------------------------
(* Handles.                                                                *)

Clone(c) ==
  /\ pc[c] = "none"
  /\ table
  /\ calls[c] < MaxCalls
  /\ Goes(c, "ready")
  /\ UNCHANGED <<table, calls, answer, queue, serving, thread, running,
                 submitted, log, eventVars>>

\* send_query, send_fire_and_forget, query_raw, read_feature_report.
Call(c) ==
  /\ pc[c] = "ready"
  /\ calls[c] < MaxCalls
  /\ calls' = [calls EXCEPT ![c] = @ + 1]
  /\ Goes(c, "sending")
  /\ UNCHANGED <<table, answer, queue, serving, thread, running, submitted,
                 log, eventVars>>

\* cmd_tx.send blocks while the channel is full.  It would fail once the
\* thread has dropped the receiver, and so would recv below; but the thread
\* goes on while a clone is left, and this caller holds one (Exit).
Submit(c) ==
  /\ pc[c] = "sending"
  /\ thread = "running"
  /\ Len(queue) < Cap
  /\ queue' = Append(queue, Mine(c))
  /\ submitted' = Append(submitted, Mine(c))
  /\ Goes(c, "waiting")
  /\ UNCHANGED <<table, calls, answer, serving, thread, running, log,
                 eventVars>>

\* Mutant of Receive: a caller may give up waiting.
ReceiveOrTimeOut(c) ==
  /\ pc[c] = "waiting"
  /\ answer' = [answer EXCEPT ![c] = <<>>]
  /\ Goes(c, "ready")
  /\ UNCHANGED <<table, calls, queue, serving, thread, running, submitted,
                 log, eventVars>>

\* The caller waits for its answer, however long it takes.
Receive(c) ==
  /\ pc[c] = "waiting"
  /\ answer[c] # <<>>
  /\ answer' = [answer EXCEPT ![c] = <<>>]
  /\ Goes(c, "ready")
  /\ UNCHANGED <<table, calls, queue, serving, thread, running, submitted,
                 log, eventVars>>

Drop(c) ==
  /\ pc[c] = "ready"
  /\ Goes(c, "none")
  /\ UNCHANGED <<table, calls, answer, queue, serving, thread, running,
                 submitted, log, eventVars>>

\* handle.shutdown(), or removing the session from the table: one clone goes.
Shutdown ==
  /\ table
  /\ table' = FALSE
  /\ UNCHANGED <<callVars, queue, serving, thread, running, submitted, log,
                 eventVars>>

-----------------------------------------------------------------------------
(* transport_loop.                                                         *)

\* Mutant of Take: the request that came last is served first.
TakeNewest ==
  /\ thread = "running"
  /\ serving = <<>>
  /\ queue # <<>>
  /\ serving' = <<queue[Len(queue)]>>
  /\ queue' = SubSeq(queue, 1, Len(queue) - 1)
  /\ UNCHANGED <<table, callVars, thread, running, submitted, log, eventVars>>

Take ==
  /\ thread = "running"
  /\ serving = <<>>
  /\ queue # <<>>
  /\ serving' = <<Head(queue)>>
  /\ queue' = Tail(queue)
  /\ UNCHANGED <<table, callVars, thread, running, submitted, log, eventVars>>

\* handle_command: the controller executes the command, and the outcome, good
\* or bad, goes into the one-shot channel of the request.
Finish ==
  /\ serving # <<>>
  /\ log' = Append(log, Head(serving))
  /\ answer' = [answer EXCEPT ![Head(serving).caller] = serving]
  /\ serving' = <<>>
  /\ UNCHANGED <<table, pc, calls, queue, thread, running, submitted,
                 eventVars>>

\* Mutant of Exit: the clone in the table alone keeps the thread alive.
ExitOnShutdown ==
  /\ thread = "running"
  /\ serving = <<>>
  /\ ~table
  /\ thread' = "ended"
  /\ queue' = <<>>
  /\ UNCHANGED <<table, callVars, serving, running, submitted, log, eventVars>>

\* recv fails: the channel is empty and the last clone is gone.  The request
\* channel and the USB session go with the thread.
Exit ==
  /\ thread = "running"
  /\ serving = <<>>
  /\ queue = <<>>
  /\ ~table
  /\ \A c \in Callers : pc[c] = "none"
  /\ thread' = "ended"
  /\ UNCHANGED <<table, callVars, queue, serving, running, submitted, log,
                 eventVars>>

\* The thread is out of its loop: the hot-plug thread is told.
ClearRunning ==
  /\ thread = "ended"
  /\ running
  /\ running' = FALSE
  /\ UNCHANGED <<table, callVars, queue, serving, thread, submitted, log,
                 eventVars>>

ThreadStep == Take \/ Finish \/ Exit \/ ClearRunning

-----------------------------------------------------------------------------
(* The hot-plug thread, and the owner of the event receiver.               *)

HotplugEvent ==
  /\ hotplug = "polling"
  /\ plugs < MaxEvents
  /\ plugs' = plugs + 1
  /\ hotplug' = "sending"
  /\ UNCHANGED <<table, callVars, queue, serving, thread, running, submitted,
                 log, receiver, events>>

\* event_tx.send blocks while the channel is full; without a receiver it
\* fails, which is ignored.
HotplugSend ==
  /\ hotplug = "sending"
  /\ \/ /\ receiver
        /\ events < EventCap
        /\ events' = events + 1
     \/ /\ ~receiver
        /\ UNCHANGED events
  /\ hotplug' = "polling"
  /\ UNCHANGED <<table, callVars, queue, serving, thread, running, submitted,
                 log, receiver, plugs>>

\* Mutant of HotplugStop: the flag is read only when an event arrives.
HotplugStopOnEvent ==
  /\ hotplug = "polling"
  /\ ~running
  /\ plugs < MaxEvents
  /\ hotplug' = "ended"
  /\ UNCHANGED <<table, callVars, queue, serving, thread, running, submitted,
                 log, receiver, events, plugs>>

\* The flag is read at least once a second.
HotplugStop ==
  /\ hotplug = "polling"
  /\ ~running
  /\ hotplug' = "ended"
  /\ UNCHANGED <<table, callVars, queue, serving, thread, running, submitted,
                 log, receiver, events, plugs>>

DrainEvent ==
  /\ receiver
  /\ events > 0
  /\ events' = events - 1
  /\ UNCHANGED <<table, callVars, queue, serving, thread, running, submitted,
                 log, hotplug, receiver, plugs>>

\* drop(event_rx), as connect_registration does.
DropReceiver ==
  /\ receiver
  /\ receiver' = FALSE
  /\ events' = 0
  /\ UNCHANGED <<table, callVars, queue, serving, thread, running, submitted,
                 log, hotplug, plugs>>

-----------------------------------------------------------------------------
CallStep(c) == Submit(c) \/ Receive(c)

Next ==
  \/ \E c \in Callers : Clone(c) \/ Call(c) \/ CallStep(c) \/ Drop(c)
  \/ Shutdown
  \/ ThreadStep
  \/ HotplugEvent \/ HotplugSend \/ HotplugStop \/ DrainEvent
  \/ DropReceiver

Spec == Init /\ [][Next]_vars

\* Both threads run, a blocked call goes on when it can, an RPC that has its
\* answers drops its handle, and a receiver that is kept is drained.
FairSpec ==
  /\ Spec
  /\ WF_vars(ThreadStep)
  /\ WF_vars(HotplugSend) /\ WF_vars(HotplugStop) /\ WF_vars(DrainEvent)
  /\ \A c \in Callers : WF_vars(CallStep(c)) /\ WF_vars(Drop(c))

-----------------------------------------------------------------------------
(* Properties.                                                             *)

TypeOK ==
  /\ table \in BOOLEAN
  /\ pc \in [Callers -> Pcs]
  /\ calls \in [Callers -> 0 .. MaxCalls]
  /\ answer \in [Callers -> Seq(Request)]
  /\ queue \in Seq(Request) /\ Len(queue) <= Cap
  /\ serving \in Seq(Request) /\ Len(serving) <= 1
  /\ thread \in {"running", "ended"}
  /\ running \in BOOLEAN
  /\ submitted \in Seq(Request)
  /\ log \in Seq(Request)
  /\ hotplug \in {"polling", "sending", "ended"}
  /\ receiver \in BOOLEAN
  /\ events \in 0 .. EventCap
  /\ plugs \in 0 .. MaxEvents

\* Requests reach the keyboard in the order they entered the channel, none
\* twice and none skipped, up to those still in the channel.
SubmissionOrder == submitted = log \o serving \o queue

\* The request r is what its caller is waiting for just now.
Awaited(r) ==
  pc[r.caller] = "waiting" /\ answer[r.caller] = <<>> /\ r = Mine(r.caller)

\* The request of every waiting caller is in one place: in the channel, at the
\* thread, or answered; and every request in the channel or at the thread, and
\* every answer, is of the call its caller is waiting in.  So no command is
\* executed for a caller that has gone, none is lost between the channel and
\* the one-shot channel of its answer, and no call returns the answer to an
\* earlier one.
CallsAccountedFor ==
  /\ \A i \in 1 .. Len(queue) : Awaited(queue[i])
  /\ \A i, j \in 1 .. Len(queue) : queue[i] = queue[j] => i = j
  /\ serving # <<>> => /\ Awaited(Head(serving))
                       /\ \A i \in 1 .. Len(queue) : queue[i] # Head(serving)
  /\ \A c \in Callers :
       \/ pc[c] = "waiting" /\ answer[c] = <<Mine(c)>>
       \/ pc[c] = "waiting" /\ answer[c] = <<>>
            /\ (serving = <<Mine(c)>> \/ \E i \in 1 .. Len(queue) : queue[i] = Mine(c))
       \/ pc[c] # "waiting" /\ answer[c] = <<>>

\* The session as its callers see it: a command service that serializes.
StatusOf(c) ==
  CASE pc[c] \in {"sending", "waiting"} /\ answer[c] = <<>> -> "called"
    [] pc[c] = "waiting" /\ answer[c] # <<>> -> "executed"
    [] OTHER -> "idle"

Service == INSTANCE CommandService
             WITH status <- [c \in Callers |-> StatusOf(c)],
                  log <- [i \in 1 .. Len(log) |-> log[i].caller]

\* "All commands are serialized through the transport thread", each call is
\* executed once, at one moment between call and return, and answered.
ServesCommands == Service!FairSpec

\* A session that is no longer in the table ends, with its hot-plug thread.
SessionEnds == ~table ~> thread = "ended" /\ hotplug = "ended"
=============================================================================
