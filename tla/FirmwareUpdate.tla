--------------------------- MODULE FirmwareUpdate ---------------------------
(***************************************************************************)
(* upgradeOTAGATT, the bridge's firmware update: one call of               *)
(* stream_progress, with the firmware engine it runs and the preflight.    *)
(* The call collects every progress message before the first is streamed,  *)
(* so the only states another task can see are the file under /tmp and     *)
(* the whole stream at the end; the steps in between are kept because the  *)
(* engine runs twice after a bootloader timeout, with the state of its     *)
(* BridgeFirmwareIo shared by the two runs.                                *)
(*                                                                         *)
(* No bytes reach a keyboard yet: BridgeFirmwareIo plays one of five       *)
(* scenarios, chosen by how the image starts.  A progress message is the   *)
(* progress in percent and the set of facts its err names: none of them    *)
(* is the empty err, which tells a client that the update succeeded.       *)
(***************************************************************************)
EXTENDS Integers, Sequences, FiniteSets, SequencesExt

CONSTANT MaxChunks  \* bound: chunks of 64 bytes in an image

ASSUME ChunksAssumption == MaxChunks \in Nat \ {0}

VARIABLES
  ota_enabled, \* --enable-ota
  pc,
  chunks,      \* the image: its number of chunks, 0 if it is empty
  scenario,    \* and how it starts
  file,        \* the payload under /tmp
  attempts,    \* bootloader timeouts retried
  timeouts,    \* bootloader_timeouts_remaining
  queries,     \* post_verify_queries
  chunk,       \* chunks sent by this run of the engine
  error,       \* the engine's error
  events,      \* the stream
  taken        \* history: markers and chunks the bootloader took, in order

vars == <<ota_enabled, pc, chunks, scenario, file, attempts, timeouts, queries,
          chunk, error, events, taken>>
request == <<ota_enabled, chunks, scenario>>
engineIo == <<timeouts, queries, taken>>

Scenarios == {"plain", "boot_timeout", "integrity", "incomplete", "post_verify"}
Pcs == {"idle", "refused", "create", "write", "preflight", "enter_bootloader",
        "wait_bootloader", "transfer_start", "transfer_chunks",
        "transfer_complete", "post_verify", "done", "failing", "ended"}

\* bootloader_timeouts of Scenario::from_payload.
Timeouts(s) == IF s = "boot_timeout" THEN 2 ELSE 0

Init ==
  /\ ota_enabled \in BOOLEAN
  /\ pc = "idle"
  /\ chunks \in 0 .. MaxChunks
  /\ scenario \in Scenarios
  /\ chunks = 0 => scenario = "plain"
  /\ file = "absent"
  /\ attempts = 0
  /\ timeouts = 0
  /\ queries = {}
  /\ chunk = 0
  /\ error = "none"
  /\ events = <<>>
  /\ taken = <<>>

Goes(p) == pc' = p
Message(progress, err) == [progress |-> progress, err |-> err]
Emit(progress, err) == events' = Append(events, Message(progress, err))

-----------------------------------------------------------------------------
(* The call, up to the first run of the engine.                            *)

\* The endpoint is off unless the driver was started with --enable-ota.
Refuse ==
  /\ pc = "idle"
  /\ ~ota_enabled
  /\ Goes("refused")
  /\ UNCHANGED <<request, file, attempts, engineIo, chunk, error, events>>

EmptyPayload ==
  /\ pc = "idle"
  /\ ota_enabled
  /\ chunks = 0
  /\ Emit(0, {"empty_payload"})
  /\ Goes("ended")
  /\ UNCHANGED <<request, file, attempts, engineIo, chunk, error>>

Accept ==
  /\ pc = "idle"
  /\ ota_enabled
  /\ chunks > 0
  /\ Goes("create")
  /\ UNCHANGED <<request, file, attempts, engineIo, chunk, error, events>>

\* write_payload_to_tmp: the file is created, then written.
CreateFile ==
  /\ pc = "create"
  /\ file' = "empty"
  /\ Goes("write")
  /\ UNCHANGED <<request, attempts, engineIo, chunk, error, events>>

WriteFile ==
  /\ pc = "write"
  /\ file' = "whole"
  /\ Goes("preflight")
  /\ UNCHANGED <<request, attempts, engineIo, chunk, error, events>>

\* Either fails, say on a full disk; a file that was created stays.
StagingFails ==
  /\ pc \in {"create", "write"}
  /\ Emit(0, {"not_staged"})
  /\ Goes("ended")
  /\ UNCHANGED <<request, file, attempts, engineIo, chunk, error>>

\* run_bridge_preflight: the manifest is made from the target itself and the
\* acknowledgements are given, so what is left to check is the file.
PreflightOk ==
  /\ pc = "preflight"
  /\ file = "whole"
  /\ timeouts' = Timeouts(scenario)
  /\ Emit(5, {"preflight"})
  /\ Goes("enter_bootloader")
  /\ UNCHANGED <<request, file, attempts, queries, taken, chunk, error>>

\* Reading it back fails.
PreflightFails ==
  /\ pc = "preflight"
  /\ file' = "absent"
  /\ Emit(0, {"preflight_failed"})
  /\ Goes("ended")
  /\ UNCHANGED <<request, attempts, engineIo, chunk, error>>

-----------------------------------------------------------------------------
(* DefaultFirmwareEngine::execute over BridgeFirmwareIo.                   *)

Fails(e) == Goes("failing") /\ error' = e

EnterBootloader ==
  /\ pc = "enter_bootloader"
  /\ Emit(10, {"enter_bootloader"})
  /\ Goes("wait_bootloader")
  /\ UNCHANGED <<request, file, attempts, engineIo, chunk, error>>

WaitBootloader ==
  /\ pc = "wait_bootloader"
  /\ Emit(20, {"wait_bootloader"})
  /\ IF timeouts > 0
     THEN timeouts' = timeouts - 1 /\ Fails("bootloader_timeout")
     ELSE Goes("transfer_start") /\ UNCHANGED <<timeouts, error>>
  /\ UNCHANGED <<request, file, attempts, queries, taken, chunk>>

TransferStart ==
  /\ pc = "transfer_start"
  /\ Emit(30, {"transfer_start"})
  /\ taken' = Append(taken, "start")
  /\ chunk' = 0
  /\ Goes("transfer_chunks")
  /\ UNCHANGED <<request, file, attempts, timeouts, queries, error>>

\* 0.30 + 0.55 * ratio
SendChunk ==
  /\ pc = "transfer_chunks"
  /\ chunk' = chunk + 1
  /\ Emit(30 + (55 * chunk') \div chunks, {"transfer_chunks"})
  /\ taken' = Append(taken, chunk')
  /\ Goes(IF chunk' = chunks THEN "transfer_complete" ELSE "transfer_chunks")
  /\ UNCHANGED <<request, file, attempts, timeouts, queries, error>>

TransferComplete ==
  /\ pc = "transfer_complete"
  /\ Emit(90, {"transfer_complete"})
  /\ CASE scenario = "integrity"  -> Fails("integrity_mismatch") /\ UNCHANGED taken
       [] scenario = "incomplete" -> Fails("incomplete_transfer") /\ UNCHANGED taken
       [] OTHER -> /\ taken' = Append(taken, "complete")
                   /\ Goes("post_verify")
                   /\ UNCHANGED error
  /\ UNCHANGED <<request, file, attempts, timeouts, queries, chunk>>

\* Mutant of PostVerify: its error is dropped.
PostVerifyIgnored ==
  /\ pc = "post_verify"
  /\ events' = events \o <<Message(95, {"post_verify"}), Message(100, {})>>
  /\ queries' = queries \cup {"GET_USB_VERSION", "GET_REV"}
  /\ Goes("done")
  /\ UNCHANGED <<request, file, attempts, timeouts, taken, chunk, error>>

\* The queries are noted before the check can fail.
PostVerify ==
  /\ pc = "post_verify"
  /\ queries' = queries \cup {"GET_USB_VERSION", "GET_REV"}
  /\ IF scenario = "post_verify"
     THEN Emit(95, {"post_verify"}) /\ Fails("post-verify")
     ELSE /\ events' = events \o <<Message(95, {"post_verify"}), Message(100, {})>>
          /\ Goes("done")
          /\ UNCHANGED error
  /\ UNCHANGED <<request, file, attempts, timeouts, taken, chunk>>

-----------------------------------------------------------------------------
(* What the call makes of the engine's result.                             *)

\* Mutant of Succeed: the file is left behind.
SucceedLeavesFile ==
  /\ pc = "done"
  /\ events' = events \o <<Message(99, {"post_verify"} \cup queries), Message(100, {})>>
  /\ Goes("ended")
  /\ UNCHANGED <<request, file, attempts, engineIo, chunk, error>>

Succeed ==
  /\ pc = "done"
  /\ events' = events \o <<Message(99, {"post_verify"} \cup queries), Message(100, {})>>
  /\ file' = "absent"
  /\ Goes("ended")
  /\ UNCHANGED <<request, attempts, engineIo, chunk, error>>

\* Mutant of Retry: an attempt too many.
RetryTwice ==
  /\ pc = "failing"
  /\ error = "bootloader_timeout"
  /\ attempts <= 1
  /\ attempts' = attempts + 1
  /\ Emit(20, {"wait_bootloader", "retry"})
  /\ Goes("enter_bootloader")
  /\ UNCHANGED <<request, file, engineIo, chunk, error>>

\* The first bootloader timeout: the engine runs again, on the same io state.
Retry ==
  /\ pc = "failing"
  /\ error = "bootloader_timeout"
  /\ attempts = 0
  /\ attempts' = attempts + 1
  /\ Emit(20, {"wait_bootloader", "retry"})
  /\ Goes("enter_bootloader")
  /\ UNCHANGED <<request, file, engineIo, chunk, error>>

\* Which errors tell the user how to recover the keyboard.
Guidance == {"bootloader_timeout", "integrity_mismatch", "incomplete_transfer"}

GiveUp ==
  /\ pc = "failing"
  /\ ~(error = "bootloader_timeout" /\ attempts = 0)
  /\ Emit(100, {error} \cup {g \in {"guidance"} : error \in Guidance})
  /\ file' = "absent"
  /\ Goes("ended")
  /\ UNCHANGED <<request, attempts, engineIo, chunk, error>>

Engine ==
  \/ EnterBootloader \/ WaitBootloader
  \/ TransferStart \/ SendChunk \/ TransferComplete
  \/ PostVerify

Next ==
  \/ Refuse \/ EmptyPayload \/ Accept
  \/ CreateFile \/ WriteFile \/ StagingFails
  \/ PreflightOk \/ PreflightFails
  \/ Engine
  \/ Succeed \/ Retry \/ GiveUp

\* stream_progress is a loop without waiting: it runs on to its end.
Spec == Init /\ [][Next]_vars /\ WF_vars(Next)

-----------------------------------------------------------------------------
(* Properties.                                                             *)

TypeOK ==
  /\ ota_enabled \in BOOLEAN
  /\ pc \in Pcs
  /\ chunks \in 0 .. MaxChunks
  /\ scenario \in Scenarios
  /\ file \in {"absent", "empty", "whole"}
  /\ attempts \in 0 .. 1
  /\ timeouts \in 0 .. 2
  /\ queries \subseteq {"GET_USB_VERSION", "GET_REV"}
  /\ chunk \in 0 .. chunks
  /\ \A i \in DOMAIN events : events[i].progress \in 0 .. 100

Success == Message(100, {})
Transfer == <<"start">> \o [i \in 1 .. chunks |-> i] \o <<"complete">>

\* A client is told that the update succeeded only when the bootloader took the
\* whole image, once and in order, and the queries of post_verify went well,
\* also when the engine had to run twice.
SuccessIsEarned ==
  Success \in ToSet(events) =>
    /\ taken = Transfer
    /\ queries = {"GET_USB_VERSION", "GET_REV"}
    /\ scenario = "plain"

\* "one controlled retry, second timeout is hard failure"
\* (docs/firmware-update.md): the bootloader is waited for at most twice, and
\* a stream in which it timed out twice ends with that failure.
RetryIsBounded ==
  LET waits == {i \in DOMAIN events : events[i].err = {"wait_bootloader"}}
  IN  /\ Cardinality(waits) <= 2
      /\ Cardinality(waits) = 2 /\ pc = "ended" =>
           Last(events).err \in {{}, {"bootloader_timeout", "guidance"}}

\* However the call ends, its payload is not left under /tmp, unless writing it
\* is what failed.
PayloadRemoved ==
  pc \in {"ended", "refused"} =>
    file = "absent" \/ Last(events) = Message(0, {"not_staged"})
=============================================================================
