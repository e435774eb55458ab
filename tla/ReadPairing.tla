---------------------------- MODULE ReadPairing -----------------------------
(***************************************************************************)
(* The split send and read RPCs of the bridge (sendMsg/sendRawFeature and  *)
(* readMsg/readRawFeature) on one device path.  A client sends a command   *)
(* in one RPC and fetches the answer in another; the bridge remembers      *)
(* between the two only how many reads must be answered without asking the *)
(* keyboard: synthetic_reads[path], a queue of empty responses.            *)
(*                                                                         *)
(* What the command policy decides about a command is its kind:            *)
(*   query     forwarded; the read fetches the keyboard's answer           *)
(*   write     forwarded; the read is answered with an empty response      *)
(*   blocked   not forwarded, send succeeds, empty response                *)
(*   rejected  not forwarded, send fails, empty response                   *)
(* Sends are numbered, and the keyboard's feature report holds the answer  *)
(* to the last command it took.  MaxSends bounds the number of sends.      *)
(***************************************************************************)
EXTENDS Naturals, Sequences, FiniteSets

CONSTANTS Clients,   \* programs connected to the bridge
          Careful,   \* those that read after every send, failed ones too
          MaxSends   \* bound: sends made altogether

ASSUME ClientsAssumption == IsFiniteSet(Clients) /\ Careful \subseteq Clients
ASSUME SendsAssumption == MaxSends \in Nat

VARIABLES
  synthetic,  \* synthetic_reads[path]; every element is the empty response
  report,     \* number of the send the keyboard's feature report answers
  sends,      \* sends made so far
  abandoned,  \* history: sends whose client never came to read
  pc,         \* where each client is
  kind,       \* the kind of its last command
  number,     \* the number of its last send
  reply,      \* how the send RPC ended
  how,        \* how its last read was answered
  got         \* the number of the send a keyboard's answer belongs to

vars == <<synthetic, report, sends, abandoned, pc, kind, number, reply, how, got>>
clientVars == <<kind, number, reply, how, got>>

Kinds == {"query", "write", "blocked", "rejected"}
Pcs   == {"idle", "open", "forward", "sent", "fetch"}
Hows  == {"none", "synthetic", "device", "error"}
Replied == {"none", "unopened", "ok", "rejected", "failed", "bare"}
Empty == "empty"

Init ==
  /\ synthetic = <<>>
  /\ report = 0
  /\ sends = 0
  /\ abandoned = 0
  /\ pc = [c \in Clients |-> "idle"]
  /\ kind = [c \in Clients |-> "query"]
  /\ number = [c \in Clients |-> 0]
  /\ reply = [c \in Clients |-> "none"]
  /\ how = [c \in Clients |-> "none"]
  /\ got = [c \in Clients |-> 0]

Goes(c, p) == pc' = [pc EXCEPT ![c] = p]
Replies(c, r) == reply' = [reply EXCEPT ![c] = r]

-----------------------------------------------------------------------------
(* send_command_rpc.                                                       *)

Send(c, k) ==
  /\ pc[c] = "idle"
  /\ sends < MaxSends
  /\ sends' = sends + 1
  /\ number' = [number EXCEPT ![c] = sends + 1]
  /\ kind' = [kind EXCEPT ![c] = k]
  /\ how' = [how EXCEPT ![c] = "none"]
  /\ got' = [got EXCEPT ![c] = 0]
  /\ Replies(c, "none")
  /\ Goes(c, "open")
  /\ UNCHANGED <<synthetic, report, abandoned>>

\* open_device fails: nothing has been queued.
OpenFails(c) ==
  /\ pc[c] = "open"
  /\ Replies(c, "unopened")
  /\ Goes(c, "sent")
  /\ UNCHANGED <<synthetic, report, sends, abandoned, kind, number, how, got>>

\* Forward the command, or answer the send RPC here and now.
Dispatch(c) ==
  \/ /\ kind[c] \in {"query", "write"}
     /\ Goes(c, "forward")
     /\ UNCHANGED reply
  \/ /\ kind[c] \in {"blocked", "rejected"}
     /\ Goes(c, "sent")
     /\ Replies(c, IF kind[c] = "blocked" THEN "ok" ELSE "rejected")

\* Mutant of Decide: a rejected command is answered before its read is queued.
DecideErrorFirst(c) ==
  /\ pc[c] = "open"
  /\ synthetic' = IF kind[c] \in {"query", "rejected"} THEN synthetic
                  ELSE Append(synthetic, Empty)
  /\ Dispatch(c)
  /\ UNCHANGED <<report, sends, abandoned, kind, number, how, got>>

\* The policy decides, and the empty response is queued before anything else
\* is done with the command.
Decide(c) ==
  /\ pc[c] = "open"
  /\ synthetic' = IF kind[c] = "query" THEN synthetic
                  ELSE Append(synthetic, Empty)
  /\ Dispatch(c)
  /\ UNCHANGED <<report, sends, abandoned, kind, number, how, got>>

\* send_fire_and_forget: up to three attempts to write the report.  One that
\* failed may have reached the keyboard all the same.
Forward(c) ==
  /\ pc[c] = "forward"
  /\ \/ /\ report' = number[c]
        /\ Replies(c, "ok")
     \/ /\ report' \in {report, number[c]}
        /\ Replies(c, "failed")
  /\ Goes(c, "sent")
  /\ UNCHANGED <<synthetic, sends, abandoned, kind, number, how, got>>

-----------------------------------------------------------------------------
(* read_response_rpc.                                                      *)

\* A client such as the CLI reads after a query that was sent, or on its own
\* (raw read); a browser session reads after every send.
Reads(c) ==
  c \in Careful \/ reply[c] = "bare" \/ (kind[c] = "query" /\ reply[c] = "ok")

BareRead(c) ==
  /\ pc[c] = "idle"
  /\ c \notin Careful
  /\ kind' = [kind EXCEPT ![c] = "query"]
  /\ how' = [how EXCEPT ![c] = "none"]
  /\ Replies(c, "bare")
  /\ Goes(c, "sent")
  /\ UNCHANGED <<synthetic, report, sends, abandoned, number, got>>

\* Mutant of ReadSynthetic: the queue is peeked at, not popped.
PeekSynthetic(c) ==
  /\ pc[c] = "sent"
  /\ Reads(c)
  /\ synthetic # <<>>
  /\ how' = [how EXCEPT ![c] = "synthetic"]
  /\ Goes(c, "idle")
  /\ UNCHANGED <<synthetic, report, sends, abandoned, kind, number, reply, got>>

\* pop_synthetic_response, whoever queued it.
ReadSynthetic(c) ==
  /\ pc[c] = "sent"
  /\ Reads(c)
  /\ synthetic # <<>>
  /\ synthetic' = Tail(synthetic)
  /\ how' = [how EXCEPT ![c] = "synthetic"]
  /\ Goes(c, "idle")
  /\ UNCHANGED <<report, sends, abandoned, kind, number, reply, got>>

ReadFallsThrough(c) ==
  /\ pc[c] = "sent"
  /\ Reads(c)
  /\ synthetic = <<>>
  /\ Goes(c, "fetch")
  /\ UNCHANGED <<synthetic, report, sends, abandoned, clientVars>>

\* read_feature_report: whatever the feature report holds by now.
Fetch(c) ==
  /\ pc[c] = "fetch"
  /\ how' = [how EXCEPT ![c] = "device"]
  /\ got' = [got EXCEPT ![c] = report]
  /\ Goes(c, "idle")
  /\ UNCHANGED <<synthetic, report, sends, abandoned, kind, number, reply>>

\* The session cannot be opened again, or the USB transfer fails.
FetchFails(c) ==
  /\ pc[c] = "fetch"
  /\ how' = [how EXCEPT ![c] = "error"]
  /\ Goes(c, "idle")
  /\ UNCHANGED <<synthetic, report, sends, abandoned, kind, number, reply, got>>

\* The client goes on without reading: after a write, after a send that failed,
\* and also after a query that was sent (`raw send`).
NoRead(c) ==
  /\ pc[c] = "sent"
  /\ c \notin Careful
  /\ reply[c] # "bare"
  /\ abandoned' = abandoned + 1
  /\ Goes(c, "idle")
  /\ UNCHANGED <<synthetic, report, sends, clientVars>>

Step(c) ==
  \/ \E k \in Kinds : Send(c, k)
  \/ OpenFails(c) \/ Decide(c) \/ Forward(c)
  \/ BareRead(c) \/ ReadSynthetic(c) \/ ReadFallsThrough(c) \/ Fetch(c) \/ FetchFails(c)
  \/ NoRead(c)

Next == \E c \in Clients : Step(c)

Spec == Init /\ [][Next]_vars

-----------------------------------------------------------------------------
(* Properties.                                                             *)

TypeOK ==
  /\ synthetic \in Seq({Empty})
  /\ report \in 0 .. MaxSends
  /\ sends \in 0 .. MaxSends
  /\ abandoned \in Nat
  /\ pc \in [Clients -> Pcs]
  /\ kind \in [Clients -> Kinds]
  /\ number \in [Clients -> 0 .. MaxSends]
  /\ reply \in [Clients -> Replied]
  /\ how \in [Clients -> Hows]
  /\ got \in [Clients -> 0 .. MaxSends]

\* A client that has a read to make before it may send again.
Pending == {c \in Clients : pc[c] \in {"forward", "sent"}}

\* Each empty response in the queue is owed to a client that is still to come
\* for it, or to one that never will: however clients that always read after a
\* send interleave, they leave none behind for a later query to trip over.
NoResponseLeftBehind ==
  Len(synthetic) <= Cardinality(Pending) + abandoned

\* The last send of c never got to the policy, or was a query whose transfer
\* failed (it may have arrived): no empty response was queued for its read.
Undelivered(c) == reply[c] = "unopened" \/ (kind[c] = "query" /\ reply[c] = "failed")

\* How the read of c after its last send was answered: a query that was sent,
\* with the keyboard's answer to it; a command the policy keeps from the
\* keyboard or that has no answer, with the empty response, also when the send
\* was an error.  After an undelivered one the keyboard is asked all the same.
Paired(c) ==
  /\ kind[c] = "query" /\ reply[c] = "ok" =>
       /\ how[c] \in {"device", "error"}
       /\ how[c] = "device" => got[c] = number[c]
  /\ kind[c] # "query" /\ reply[c] \in {"ok", "rejected", "failed"} =>
       how[c] = "synthetic"
  /\ Undelivered(c) => how[c] \in {"device", "error"}

\* No other client has used the path.
Alone(c) == \A d \in Clients \ {c} : number[d] = 0 /\ reply[d] = "none"

\* "Preserve send/read pairing for clients that always call read after send"
\* (mod.rs:545): such a client, with the path to itself, gets the keyboard's
\* answer to the query it sent or an error, and the empty response for any
\* other command that got as far as the policy.  Not so when open_device failed
\* in the send, or the transfer of a query: its read takes from the keyboard
\* whatever it holds, the answer to an older command included, and no later
\* read is displaced by it.
LoneReadsArePaired ==
  \A c \in Careful : pc[c] = "idle" /\ Alone(c) => Paired(c)
=============================================================================
