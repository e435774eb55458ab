--------------------------- MODULE FirmwareProofs ---------------------------
(***************************************************************************)
(* The bridge's update call and the CLI's firmware commands: success and   *)
(* approval are earned, for images of any length, any offers, keyboards    *)
(* and command lines, and any number of commands.                          *)
(***************************************************************************)
EXTENDS FirmwareUpdate, FirmwareCommand, WellFoundedInduction,
        FiniteSetTheorems, TLAPS

-----------------------------------------------------------------------------
(* The version the vendor names.                                           *)

\* A set of numbers up to n that is not empty has a maximum, and Max picks it:
\* what n - x is for the elements has a minimum, as < is well-founded.
LEMMA MaxIsAnElement ==
  ASSUME NEW n \in Int, NEW S \in SUBSET (1 .. n), S # {}
  PROVE  Max(S) \in S
<1> DEFINE less == OpToRel(<, Nat)
           T == {n - x : x \in S}
<1>1. T \subseteq Nat /\ T # {}
  <2>1. \A x \in S : x \in Int /\ x <= n
    OBVIOUS
  <2>2. \A x \in S : n - x \in Nat
    BY <2>1
  <2> QED
    BY <2>2
<1>2. \E t \in T : \A u \in T : ~(<<u, t>> \in less)
  <2> HIDE DEF less, T
  <2>1. IsWellFoundedOn(less, Nat)
    BY NatLessThanWellFounded DEF less
  <2> QED
    BY <1>1, <2>1, WFMin
<1>3. PICK t \in T : \A u \in T : ~(u < t)
  BY <1>1, <1>2 DEF OpToRel
<1>4. PICK x \in S : t = n - x
  OBVIOUS
<1>5. \A y \in S : x >= y
  <2> SUFFICES ASSUME NEW y \in S PROVE x >= y
    OBVIOUS
  <2>1. ~(n - y < n - x)
    BY <1>3, <1>4
  <2> QED
    BY <2>1
<1> QED
  BY <1>5 DEF Max

\* So the version read from an offer is a number, or none.
LEMMA VersionType ==
  ASSUME NEW o \in Offers
  PROVE  ParseUsb(o.parts) \in Int \cup {None}
<1> DEFINE parts == o.parts
           pairs == {i \in 1 .. Len(parts) - 1 :
                       i % 2 = 1 /\ parts[i] = "usb" /\ parts[i + 1] \in DOMAIN Hex}
<1>1. Len(parts) - 1 \in Int
  BY FirmwareAssumption
<1>2. CASE pairs = {}
  BY <1>2 DEF ParseUsb
<1>3. CASE pairs # {}
  <2>1. Max(pairs) \in pairs
    <3>1. pairs \in SUBSET (1 .. Len(parts) - 1)
      OBVIOUS
    <3> HIDE DEF pairs, parts
    <3> QED
      BY <1>1, <1>3, <3>1, MaxIsAnElement
  <2>2. parts[Max(pairs) + 1] \in DOMAIN Hex
    BY <2>1
  <2>3. ParseUsb(parts) = Hex[parts[Max(pairs) + 1]]
    BY <1>3 DEF ParseUsb
  <2> QED
    BY <2>2, <2>3, FirmwareAssumption
<1> QED
  BY <1>2, <1>3

-----------------------------------------------------------------------------
(* The commands.                                                           *)

\* What a verdict says of the image and the versions it was given on.
ReadableImage(v) == v.invocation.file = "own" \/ v.image \in {"part", "whole"}
OutdatedImage(v) == v.usb # None /\ v.usb <= v.current.version
WithRisk(i) == \/ i.yes /\ i.risk
               \/ ~i.yes /\ i.phrase = REQUIRED_TYPED_PHRASE

Judged(v) ==
  LET validate == v.invocation.command = "validate"
  IN  /\ v.result = "approved" =>
           ~validate /\ ReadableImage(v) /\ WithRisk(v.invocation)
      /\ v.result \in {"approved", "refused"} /\ ~validate => ~OutdatedImage(v)
      /\ v.result = "refused" =>
           ~ReadableImage(v) \/ (~validate /\ ~WithRisk(v.invocation))
      /\ v.result = "up_to_date" => OutdatedImage(v)
      /\ v.result = "no_update" => OutdatedImage(v)
      /\ v.result \in {"valid", "update_available"} =>
           ReadableImage(v) /\ ~OutdatedImage(v)

\* The image decided on is the vendor's, whole if the server gave its length, or
\* the file the user insisted on.
Sourced ==
  IF invocation.file = "none"
  THEN \/ disk = "whole"
       \/ disk \in {"empty", "part"} /\ ~vendor.sized
  ELSE invocation.allow_unofficial /\ usb = None

\* The version compared is the keyboard's, unless that changed.
Current == current \in Models /\ (~changed => current = keyboard)

CommandInv ==
  /\ invocation \in Invocations
  /\ keyboard \in Models /\ vendor \in Offers /\ usb \in Int \cup {None}
  /\ step \in {"query_version", "query_revision", "resolve"} => usb = None
  /\ step \in {"query_revision", "resolve", "download", "decide"} => Current
  /\ step \in {"resolve", "download", "decide"} => invocation.command # "version"
  /\ step = "download" => invocation.file = "none"
  /\ step = "decide" => Sourced
  /\ step = "ended" => Judged(verdict)
  /\ step # "ended" => verdict = None
  /\ step = "ended" /\ verdict.result \in {"approved", "up_to_date", "refused"} =>
       /\ verdict.invocation = invocation
       /\ verdict.image = disk
       /\ verdict.usb = usb
       /\ verdict.current = current
       /\ Current /\ Sourced
  /\ previous # None => Judged(previous)

LEMMA CommandInvInit == CommandInit => CommandInv
  BY DEF CommandInit, CommandInv

LEMMA CommandInvStep == CommandInv /\ [CommandNext]_commandVars => CommandInv'
<1> SUFFICES ASSUME CommandInv, [CommandNext]_commandVars
             PROVE  CommandInv'
  OBVIOUS
<1> USE DEF world, session
<1>1. CASE QueryVersion
  BY <1>1 DEF QueryVersion, UsbVersion, Ends, CommandInv, Current, Judged
<1>2. CASE QueryRevision
  BY <1>2 DEF QueryRevision, Ends, CommandInv, Current, Judged
<1>3. CASE LocalFile
  BY <1>3 DEF LocalFile, Ends, CommandInv, Current, Sourced, Judged
<1>4. CASE AskVendor
  <2>1. ParseUsb(vendor.parts) \in Int \cup {None}
    BY VersionType DEF CommandInv
  <2> QED
    BY <1>4, <2>1 DEF AskVendor, Ends, CommandInv, Current, Judged
<1>5. CASE Download
  BY <1>5 DEF Download, Ends, CommandInv, Current, Sourced, Judged
<1>6. CASE Decide
  <2> DEFINE Fits(result) ==
               /\ invocation.command = "flash" /\ Outdated <=> result = "up_to_date"
               /\ result = "refused" => ~Readable \/ ~Acknowledged
               /\ result \notin {"up_to_date", "refused"} => Readable /\ Acknowledged
               /\ result \in {"valid", "update_available", "no_update"}
                    => invocation.command = "validate"
               /\ result = "approved" => invocation.command # "validate"
               /\ result = "valid" => usb = None
               /\ result = "update_available" => usb # None /\ UpdateAvailable
               /\ result = "no_update" => usb # None /\ ~UpdateAvailable
  <2>0. PICK result : Ends(result) /\ Fits(result)
    <3>1. CASE invocation.command = "flash" /\ Outdated
      <4>1. Ends("up_to_date")
        BY <1>6, <3>1 DEF Decide
      <4> QED
        BY <3>1, <4>1
    <3>2. CASE ~(invocation.command = "flash" /\ Outdated) /\ (~Readable \/ ~Acknowledged)
      <4>1. Ends("refused")
        BY <1>6, <3>2 DEF Decide
      <4> QED
        BY <3>2, <4>1
    <3>3. CASE invocation.command = "validate" /\ Readable /\ Acknowledged
      <4>1. Ends(Answer)
        BY <1>6, <3>3 DEF Decide
      <4>2. Fits(Answer)
        BY <3>3 DEF Answer
      <4> QED
        BY <4>1, <4>2
    <3>4. CASE /\ ~(invocation.command = "flash" /\ Outdated)
               /\ invocation.command # "validate" /\ Readable /\ Acknowledged
      <4>1. Ends("approved")
        BY <1>6, <3>4 DEF Decide
      <4> QED
        BY <3>4, <4>1
    <3> QED
      BY <3>1, <3>2, <3>3, <3>4
  <2>1. step = "decide" /\ step' = "ended"
    BY <1>6, <2>0 DEF Decide, Ends
  <2>2. current.version \in Int /\ (usb # None => usb \in Int)
    BY <2>1, FirmwareAssumption DEF CommandInv, Current
  <2>3. /\ verdict'.result = result /\ verdict'.current = current
        /\ verdict'.usb = usb /\ verdict'.image = disk
        /\ verdict'.invocation = invocation
    BY <2>0 DEF Ends
  <2>4. Outdated <=> OutdatedImage(verdict')
    BY <2>3 DEF Outdated, OutdatedImage
  <2>5. usb # None => (Outdated <=> ~UpdateAvailable)
    BY <2>2 DEF Outdated, UpdateAvailable
  <2>6. Readable <=> ReadableImage(verdict')
    BY <2>3 DEF Readable, Image, ReadableImage
  <2>7. Acknowledged <=> \/ invocation.command = "validate"
                         \/ WithRisk(verdict'.invocation)
    BY <2>3 DEF Acknowledged, WithRisk
  <2>9. invocation.command \in {"validate", "flash"}
    BY <2>1, FirmwareAssumption DEF CommandInv
  <2>8. Judged(verdict')
    BY <2>0, <2>1, <2>9, <2>3, <2>4, <2>5, <2>6, <2>7 DEF Judged, Outdated
  <2> QED
    BY <1>6, <2>1, <2>3, <2>8 DEF Decide, CommandInv, Current, Sourced
<1>7. CASE GiveCommand
  BY <1>7 DEF GiveCommand, CommandInv
<1>8. CASE KeyboardChanges
  BY <1>8 DEF KeyboardChanges, CommandInv, Current, Sourced
<1>9. CASE VendorPublishes
  BY <1>9 DEF VendorPublishes, CommandInv, Current
<1>10. CASE UNCHANGED commandVars
  BY <1>10 DEF commandVars, CommandInv, Current, Sourced, Judged
<1> QED
  BY <1>1, <1>2, <1>3, <1>4, <1>5, <1>6, <1>7, <1>8, <1>9, <1>10 DEF CommandNext

LEMMA CommandsInv == CommandSpec => []CommandInv
  BY CommandInvInit, CommandInvStep, PTL DEF CommandSpec

\* A flash is approved only with the risk acknowledged, for an image of the user's
\* own or a download that is whole unless it came without a length, and not for a
\* version known to be no newer than the keyboard's (execute_firmware_command,
\* run_preflight and download_vendor_firmware_with_progress).
THEOREM ApprovalsAreEarned == CommandSpec => []FlashApprovalIsEarned
<1>1. CommandInv => FlashApprovalIsEarned
  BY FirmwareAssumption
     DEF CommandInv, FlashApprovalIsEarned, Verdict, Judged, Current, Sourced,
         ReadableImage, OutdatedImage, WithRisk
<1> QED
  BY <1>1, CommandsInv, PTL

\* What validate says of an image, flash does.
THEOREM ValidateIsRight == CommandSpec => []ValidateForetellsFlash
<1>1. CommandInv => ValidateForetellsFlash
  BY DEF CommandInv, ValidateForetellsFlash, Verdict, AsksTheSame, Foretold, Judged,
         ReadableImage, OutdatedImage, WithRisk, Acknowledged
<1> QED
  BY <1>1, CommandsInv, PTL

-----------------------------------------------------------------------------
(* The bridge's call.                                                      *)

\* The progress of a transfer stays between 30 and 85 percent.
LEMMA ShareOfChunks ==
  ASSUME NEW n \in Nat \ {0}, NEW k \in 0 .. n
  PROVE  (55 * k) \div n \in 0 .. 55
<1> DEFINE d == (55 * k) \div n
<1>1. d \in Int /\ n * d <= 55 * k /\ 55 * k < n * d + n
  BY SMT
<1>2. ~(d < 0)
  BY <1>1
<1>3. ~(d > 55)
  BY <1>1
<1> QED
  BY <1>1, <1>2, <1>3

\* What the bootloader has taken when k chunks have been sent.
Sent(k) == <<"start">> \o [i \in 1 .. k |-> i]

LEMMA SentSteps ==
  ASSUME NEW k \in Nat
  PROVE  /\ Append(<<>>, "start") = Sent(0)
         /\ Append(Sent(k), k + 1) = Sent(k + 1)
         /\ k = chunks => Append(Sent(k), "complete") = Transfer
<1>1. Append(<<>>, "start") = Sent(0)
  BY DEF Sent
<1>2. Append(Sent(k), k + 1) = Sent(k + 1)
  BY DEF Sent
<1>3. k = chunks => Append(Sent(k), "complete") = Transfer
  BY DEF Sent, Transfer
<1> QED
  BY <1>1, <1>2, <1>3

\* The facts a progress message names, and the messages; those before the
\* engine's success name one at least.
Errors == {"none", "bootloader_timeout", "integrity_mismatch", "incomplete_transfer",
           "post-verify"}
Facts == Errors \cup
  {"empty_payload", "not_staged", "preflight_failed", "preflight", "enter_bootloader",
   "wait_bootloader", "transfer_start", "transfer_chunks", "transfer_complete",
   "post_verify", "GET_USB_VERSION", "GET_REV", "retry", "guidance"}
Messages == [progress : 0 .. 100, err : SUBSET Facts]
NoSuccess == \A i \in 1 .. Len(events) : events[i].err # {}


UpdateTypes ==
  /\ ota_enabled \in BOOLEAN
  /\ pc \in Pcs
  /\ chunks \in 0 .. MaxChunks
  /\ scenario \in Scenarios
  /\ file \in {"absent", "empty", "whole"}
  /\ attempts \in 0 .. 1
  /\ timeouts \in 0 .. 2
  /\ queries \subseteq {"GET_USB_VERSION", "GET_REV"}
  /\ chunk \in 0 .. chunks
  /\ error \in Errors
  /\ events \in Seq(Messages)
  /\ pc \notin {"idle", "refused", "ended"} => chunks > 0
  /\ pc = "transfer_chunks" => chunk < chunks

\* What the bootloader has taken at each step, over both runs of the engine: a
\* run that is repeated ended before the transfer, so that the image is taken
\* once, and it leaves one timeout fewer to come.
Staging == {"idle", "refused", "create", "write", "preflight"}
Waiting == {"enter_bootloader", "wait_bootloader"}
Transferring == {"transfer_start", "transfer_chunks", "transfer_complete", "post_verify"}

TimedOut == pc = "failing" /\ error = "bootloader_timeout"

EngineInv ==
  /\ pc \in Staging => attempts = 0
  /\ pc \in Staging \cup Waiting \cup {"transfer_start"} \/ TimedOut => taken = <<>>
  /\ pc = "transfer_chunks" => taken = Sent(chunk)
  /\ pc = "transfer_complete" => taken = Sent(chunks) /\ chunk = chunks
  /\ pc = "post_verify" =>
       taken = Transfer /\ scenario \notin {"integrity", "incomplete"}
  /\ pc \in Waiting /\ scenario = "boot_timeout" => timeouts = 2 - attempts
  /\ TimedOut /\ scenario = "boot_timeout" => timeouts = 1 - attempts
  /\ pc \in Transferring => scenario # "boot_timeout"
  /\ pc \notin {"done", "ended"} => NoSuccess

\* Success is on the stream once the engine is done, and only then.
Earned ==
  /\ taken = Transfer
  /\ queries = {"GET_USB_VERSION", "GET_REV"}
  /\ scenario = "plain"

SuccessInv ==
  /\ pc = "done" => Earned
  /\ pc = "ended" => NoSuccess \/ Earned

\* The payload is under /tmp while the call runs.
FileInv ==
  /\ pc \in {"idle", "refused", "create"} => file = "absent"
  /\ pc = "ended" =>
       file = "absent" \/ (events # <<>> /\ Last(events) = Message(0, {"not_staged"}))

UpdateInv == UpdateTypes /\ EngineInv /\ SuccessInv /\ FileInv

LEMMA UpdateInvInit == Init => UpdateInv
<1> SUFFICES ASSUME Init PROVE UpdateInv
  OBVIOUS
<1>1. UpdateTypes
  BY ChunksAssumption DEF Init, UpdateTypes, Errors, Pcs, Scenarios
<1>2. EngineInv
  BY DEF Init, EngineInv, NoSuccess, Staging, Waiting, Transferring, TimedOut
<1>3. SuccessInv /\ FileInv
  BY DEF Init, SuccessInv, FileInv
<1> QED
  BY <1>1, <1>2, <1>3 DEF UpdateInv

\* One more message.
LEMMA OneMessage ==
  ASSUME UpdateTypes, NEW progress \in 0 .. 100, NEW err \in SUBSET Facts,
         Emit(progress, err)
  PROVE  /\ events' \in Seq(Messages)
         /\ events' # <<>> /\ Last(events') = Message(progress, err)
         /\ NoSuccess /\ err # {} => NoSuccess'
<1>1. events' = Append(events, Message(progress, err))
  BY DEF Emit
<1>2. Message(progress, err) \in Messages /\ Message(progress, err).err = err
  BY DEF Message, Messages
<1>3. events \in Seq(Messages)
  BY DEF UpdateTypes
<1> HIDE DEF Messages
<1>4. events' \in Seq(Messages) /\ Len(events') = Len(events) + 1
      /\ events'[Len(events')] = Message(progress, err)
      /\ \A i \in 1 .. Len(events) : events'[i] = events[i]
  BY <1>1, <1>2, <1>3
<1>5. ASSUME NoSuccess, err # {} PROVE NoSuccess'
  BY <1>2, <1>3, <1>4, <1>5 DEF NoSuccess
<1> QED
  BY <1>3, <1>4, <1>5 DEF Last

LEMMA OneFact ==
  ASSUME UpdateTypes, NEW progress \in 0 .. 100, NEW fact \in Facts,
         Emit(progress, {fact})
  PROVE  events' \in Seq(Messages) /\ (NoSuccess => NoSuccess')
<1>1. {fact} \in SUBSET Facts /\ {fact} # {}
  OBVIOUS
<1> QED
  BY <1>1, OneMessage

LEMMA StagingStep ==
  ASSUME UpdateInv,
         \/ Refuse \/ EmptyPayload \/ Accept \/ CreateFile \/ WriteFile
         \/ StagingFails \/ PreflightOk \/ PreflightFails
  PROVE  UpdateInv'
<1> USE DEF request, engineIo, Goes
<1>1. CASE Refuse \/ Accept \/ CreateFile \/ WriteFile
  <2>1. UpdateTypes'
    BY <1>1 DEF UpdateInv, UpdateTypes, Refuse, Accept, CreateFile, WriteFile, Pcs
  <2>2. EngineInv' /\ SuccessInv' /\ FileInv'
    BY <1>1 DEF UpdateInv, EngineInv, SuccessInv, FileInv, NoSuccess, Refuse, Accept,
                CreateFile, WriteFile, Staging, Waiting, Transferring, TimedOut
  <2> QED
    BY <2>1, <2>2 DEF UpdateInv
<1>2. CASE EmptyPayload \/ StagingFails \/ PreflightFails
  <2>1. PICK err \in SUBSET Facts :
          /\ Emit(0, err) /\ err # {}
          /\ StagingFails => err = {"not_staged"}
    <3>1. {"empty_payload"} \in SUBSET Facts /\ {"not_staged"} \in SUBSET Facts
          /\ {"preflight_failed"} \in SUBSET Facts
      BY DEF Facts
    <3> QED
      BY <1>2, <3>1 DEF EmptyPayload, StagingFails, PreflightFails
  <2>2. /\ events' \in Seq(Messages) /\ events' # <<>>
        /\ Last(events') = Message(0, err)
        /\ NoSuccess => NoSuccess'
    BY <2>1, OneMessage DEF UpdateInv
  <2>3. pc \in Staging /\ pc' = "ended"
    BY <1>2 DEF EmptyPayload, StagingFails, PreflightFails, Staging
  <2>4. UpdateTypes'
    BY <1>2, <2>2 DEF UpdateInv, UpdateTypes, EmptyPayload, StagingFails, PreflightFails, Pcs
  <2>5. EngineInv' /\ SuccessInv'
    BY <2>2, <2>3 DEF UpdateInv, EngineInv, SuccessInv, Staging, Waiting, Transferring,
                      TimedOut
  <2>6. FileInv'
    BY <1>2, <2>1, <2>2, <2>3
       DEF UpdateInv, FileInv, EmptyPayload, StagingFails, PreflightFails
  <2> QED
    BY <2>4, <2>5, <2>6 DEF UpdateInv
<1>3. CASE PreflightOk
  <2>1. "preflight" \in Facts
    BY DEF Facts
  <2>2. events' \in Seq(Messages) /\ (NoSuccess => NoSuccess')
    BY <1>3, <2>1, OneFact DEF UpdateInv, PreflightOk
  <2>3. UpdateTypes'
    BY <1>3, <2>2 DEF UpdateInv, UpdateTypes, PreflightOk, Timeouts, Pcs
  <2>4. /\ pc' = "enter_bootloader" /\ attempts' = 0 /\ taken' = <<>> /\ NoSuccess'
        /\ scenario' = "boot_timeout" => timeouts' = 2
    BY <1>3, <2>2 DEF UpdateInv, EngineInv, PreflightOk, Timeouts, Staging
  <2>5. EngineInv' /\ SuccessInv' /\ FileInv'
    BY <2>4 DEF EngineInv, SuccessInv, FileInv, Staging, Waiting, Transferring, TimedOut
  <2> QED
    BY <2>3, <2>5 DEF UpdateInv
<1> QED
  BY <1>1, <1>2, <1>3

LEMMA EngineStep ==
  ASSUME UpdateInv, Engine
  PROVE  UpdateInv'
<1> USE DEF request, engineIo, Goes, Fails
<1>0. {"enter_bootloader", "wait_bootloader", "transfer_start", "transfer_chunks",
       "transfer_complete", "post_verify"} \subseteq Facts
  BY DEF Facts
<1>1. CASE EnterBootloader
  <2>1. events' \in Seq(Messages) /\ (NoSuccess => NoSuccess')
    BY <1>0, <1>1, OneFact DEF UpdateInv, EnterBootloader
  <2>2. UpdateTypes'
    BY <1>1, <2>1 DEF UpdateInv, UpdateTypes, EnterBootloader, Pcs
  <2>3. EngineInv' /\ SuccessInv' /\ FileInv'
    BY <1>1, <2>1 DEF UpdateInv, EngineInv, SuccessInv, FileInv, EnterBootloader,
                      Staging, Waiting, Transferring, TimedOut
  <2> QED
    BY <2>2, <2>3 DEF UpdateInv
<1>2. CASE WaitBootloader
  <2>1. events' \in Seq(Messages) /\ (NoSuccess => NoSuccess')
    BY <1>0, <1>2, OneFact DEF UpdateInv, WaitBootloader
  <2>2. UpdateTypes'
    BY <1>2, <2>1 DEF UpdateInv, UpdateTypes, WaitBootloader, Pcs, Errors
  <2>3. CASE timeouts > 0
    <3>1. /\ pc' = "failing" /\ timeouts' = timeouts - 1 /\ taken' = <<>> /\ NoSuccess'
          /\ UNCHANGED <<scenario, attempts>>
      BY <1>2, <2>1, <2>3 DEF WaitBootloader, UpdateInv, EngineInv, Waiting
    <3>2. scenario = "boot_timeout" => timeouts = 2 - attempts
      BY <1>2 DEF WaitBootloader, UpdateInv, EngineInv, Waiting
    <3>3. timeouts \in Int /\ attempts \in Int
      BY DEF UpdateInv, UpdateTypes
    <3>4. EngineInv'
      BY <3>1, <3>2, <3>3 DEF EngineInv, Staging, Waiting, Transferring, TimedOut
    <3> QED
      BY <2>2, <3>1, <3>4 DEF UpdateInv, SuccessInv, FileInv
  <2>4. CASE ~(timeouts > 0)
    <3>1. /\ pc' = "transfer_start" /\ taken' = <<>> /\ NoSuccess'
          /\ UNCHANGED <<scenario, attempts, timeouts>>
      BY <1>2, <2>1, <2>4 DEF WaitBootloader, UpdateInv, EngineInv, Waiting
    <3>2. scenario # "boot_timeout"
      BY <1>2, <2>4 DEF WaitBootloader, UpdateInv, UpdateTypes, EngineInv, Waiting
    <3>3. EngineInv'
      BY <3>1, <3>2 DEF EngineInv, Staging, Waiting, Transferring, TimedOut
    <3> QED
      BY <2>2, <3>1, <3>3 DEF UpdateInv, SuccessInv, FileInv
  <2> QED
    BY <2>3, <2>4
<1>3. CASE TransferStart
  <2>1. events' \in Seq(Messages) /\ (NoSuccess => NoSuccess')
    BY <1>0, <1>3, OneFact DEF UpdateInv, TransferStart
  <2>2. UpdateTypes'
    BY <1>3, <2>1 DEF UpdateInv, UpdateTypes, TransferStart, Pcs
  <2>3. taken' = Sent(0)
    <3>1. taken = <<>> /\ taken' = Append(taken, "start")
      BY <1>3 DEF TransferStart, UpdateInv, EngineInv
    <3> QED
      BY <3>1, SentSteps
  <2>4. EngineInv' /\ SuccessInv' /\ FileInv'
    BY <1>3, <2>1, <2>3 DEF UpdateInv, EngineInv, SuccessInv, FileInv, TransferStart,
                            Staging, Waiting, Transferring, TimedOut
  <2> QED
    BY <2>2, <2>4 DEF UpdateInv
<1>4. CASE SendChunk
  <2>1. chunk \in Nat /\ chunks \in Nat \ {0} /\ chunk + 1 \in 0 .. chunks
        /\ chunk' = chunk + 1
    BY <1>4 DEF SendChunk, UpdateInv, UpdateTypes
  <2>2. 30 + (55 * chunk') \div chunks \in 0 .. 100
    <3>1. (55 * (chunk + 1)) \div chunks \in 0 .. 55
      BY <2>1, ShareOfChunks
    <3> QED
      BY <2>1, <3>1
  <2>3. events' \in Seq(Messages) /\ (NoSuccess => NoSuccess')
    BY <1>0, <1>4, <2>2, OneFact DEF UpdateInv, SendChunk
  <2>4. UpdateTypes'
    BY <1>4, <2>1, <2>3 DEF UpdateInv, UpdateTypes, SendChunk, Pcs
  <2>5. taken' = Sent(chunk')
    <3>1. taken = Sent(chunk) /\ taken' = Append(taken, chunk')
      BY <1>4 DEF SendChunk, UpdateInv, EngineInv
    <3> QED
      BY <2>1, <3>1, SentSteps
  <2>6. EngineInv' /\ SuccessInv' /\ FileInv'
    BY <1>4, <2>3, <2>5 DEF UpdateInv, EngineInv, SuccessInv, FileInv, SendChunk,
                            Staging, Waiting, Transferring, TimedOut
  <2> QED
    BY <2>4, <2>6 DEF UpdateInv
<1>5. CASE TransferComplete
  <2>1. events' \in Seq(Messages) /\ (NoSuccess => NoSuccess')
    BY <1>0, <1>5, OneFact DEF UpdateInv, TransferComplete
  <2>2. UpdateTypes'
    BY <1>5, <2>1 DEF UpdateInv, UpdateTypes, TransferComplete, Pcs, Errors
  <2>3. CASE scenario \in {"integrity", "incomplete"}
    BY <1>5, <2>1, <2>2, <2>3
       DEF UpdateInv, EngineInv, SuccessInv, FileInv, TransferComplete,
           Staging, Waiting, Transferring, TimedOut
  <2>4. CASE scenario \notin {"integrity", "incomplete"}
    <3>1. pc' = "post_verify" /\ taken' = Append(taken, "complete") /\ NoSuccess'
          /\ UNCHANGED scenario /\ scenario # "boot_timeout"
      BY <1>5, <2>1, <2>4 DEF TransferComplete, UpdateInv, EngineInv, Transferring
    <3>2. taken' = Transfer
      <4>1. taken = Sent(chunks) /\ chunks \in Nat
        BY <1>5 DEF TransferComplete, UpdateInv, UpdateTypes, EngineInv
      <4> QED
        BY <3>1, <4>1, SentSteps
    <3>3. Transfer' = Transfer
      BY <1>5 DEF TransferComplete, Transfer
    <3>4. EngineInv' /\ SuccessInv' /\ FileInv'
      BY <2>4, <3>1, <3>2, <3>3
         DEF EngineInv, SuccessInv, FileInv, Staging, Waiting, Transferring, TimedOut
    <3> QED
      BY <2>2, <3>4 DEF UpdateInv
  <2> QED
    BY <2>3, <2>4
<1>6. CASE PostVerify
  <2>1. CASE scenario = "post_verify"
    <3>1. Emit(95, {"post_verify"})
      BY <1>6, <2>1 DEF PostVerify
    <3>2. events' \in Seq(Messages) /\ (NoSuccess => NoSuccess')
      BY <1>0, <3>1, OneFact DEF UpdateInv
    <3>3. UpdateTypes'
      BY <1>6, <2>1, <3>2 DEF UpdateInv, UpdateTypes, PostVerify, Pcs, Errors
    <3>4. EngineInv' /\ SuccessInv' /\ FileInv'
      BY <1>6, <2>1, <3>2
         DEF UpdateInv, EngineInv, SuccessInv, FileInv, PostVerify,
             Staging, Waiting, Transferring, TimedOut
    <3> QED
      BY <3>3, <3>4 DEF UpdateInv
  <2>2. CASE scenario # "post_verify"
    <3>1. events' \in Seq(Messages)
      <4>1. Message(95, {"post_verify"}) \in Messages /\ Message(100, {}) \in Messages
        BY <1>0 DEF Message, Messages
      <4>2. events \in Seq(Messages)
        BY DEF UpdateInv, UpdateTypes
      <4>3. <<Message(95, {"post_verify"}), Message(100, {})>> \in Seq(Messages)
        BY <4>1
      <4>4. events' = events \o <<Message(95, {"post_verify"}), Message(100, {})>>
        BY <1>6, <2>2 DEF PostVerify
      <4> HIDE DEF Messages, Message
      <4> QED
        BY <4>2, <4>3, <4>4
    <3>2. UpdateTypes'
      BY <1>6, <2>2, <3>1 DEF UpdateInv, UpdateTypes, PostVerify, Pcs
    <3>3. pc = "post_verify" /\ pc' = "done"
          /\ UNCHANGED <<chunks, scenario, taken>>
      BY <1>6, <2>2 DEF PostVerify
    <3>4. Earned'
      <4>1. taken = Transfer /\ scenario = "plain"
        BY <2>2, <3>3
           DEF UpdateInv, UpdateTypes, EngineInv, Transferring, Scenarios
      <4>2. queries' = {"GET_USB_VERSION", "GET_REV"}
        BY <1>6 DEF PostVerify, UpdateInv, UpdateTypes
      <4> QED
        BY <3>3, <4>1, <4>2 DEF Earned, Transfer
    <3>5. EngineInv' /\ SuccessInv' /\ FileInv'
      BY <3>3, <3>4
         DEF EngineInv, SuccessInv, FileInv, Staging, Waiting, Transferring, TimedOut
    <3> QED
      BY <3>2, <3>5 DEF UpdateInv
  <2> QED
    BY <2>1, <2>2
<1> QED
  BY <1>1, <1>2, <1>3, <1>4, <1>5, <1>6 DEF Engine

LEMMA ResultStep ==
  ASSUME UpdateInv, Succeed \/ Retry \/ GiveUp
  PROVE  UpdateInv'
<1> USE DEF request, engineIo, Goes
<1>1. CASE Succeed
  <2>1. events' \in Seq(Messages)
    <3> DEFINE last == Message(99, {"post_verify"} \cup queries)
    <3>1. last \in Messages /\ Message(100, {}) \in Messages
      BY DEF UpdateInv, UpdateTypes, Message, Messages, Facts
    <3>2. events \in Seq(Messages) /\ events' = events \o <<last, Message(100, {})>>
      BY <1>1 DEF Succeed, UpdateInv, UpdateTypes
    <3> HIDE DEF Messages, Message, last
    <3>3. <<last, Message(100, {})>> \in Seq(Messages)
      BY <3>1
    <3> QED
      BY <3>2, <3>3
  <2>2. UpdateTypes'
    BY <1>1, <2>1 DEF UpdateInv, UpdateTypes, Succeed, Pcs
  <2>3. pc' = "ended" /\ file' = "absent"
    BY <1>1 DEF Succeed
  <2>4. Earned'
    BY <1>1 DEF Succeed, UpdateInv, SuccessInv, Earned, Transfer
  <2>5. EngineInv' /\ SuccessInv' /\ FileInv'
    BY <2>3, <2>4
       DEF EngineInv, SuccessInv, FileInv, Staging, Waiting, Transferring, TimedOut
  <2> QED
    BY <2>2, <2>5 DEF UpdateInv
<1>2. CASE Retry
  <2> DEFINE err == {"wait_bootloader", "retry"}
  <2>1. err \in SUBSET Facts /\ err # {}
    BY DEF Facts
  <2>2. Emit(20, err)
    BY <1>2 DEF Retry
  <2>3. events' \in Seq(Messages) /\ (NoSuccess => NoSuccess')
    <3> HIDE DEF err
    <3> QED
      BY <2>1, <2>2, OneMessage DEF UpdateInv
  <2>4. UpdateTypes'
    BY <1>2, <2>3 DEF UpdateInv, UpdateTypes, Retry, Pcs
  <2>5. /\ pc' = "enter_bootloader" /\ attempts' = 1 /\ taken' = <<>> /\ NoSuccess'
        /\ scenario' = "boot_timeout" => timeouts' = 1
    BY <1>2, <2>3 DEF Retry, UpdateInv, EngineInv, TimedOut
  <2>6. EngineInv' /\ SuccessInv' /\ FileInv'
    BY <2>5 DEF EngineInv, SuccessInv, FileInv, Staging, Waiting, Transferring, TimedOut
  <2> QED
    BY <2>4, <2>6 DEF UpdateInv
<1>3. CASE GiveUp
  <2> DEFINE err == {error} \cup {g \in {"guidance"} : error \in Guidance}
  <2>1. err \in SUBSET Facts /\ err # {}
    <3>1. error \in Facts /\ "guidance" \in Facts
      BY DEF UpdateInv, UpdateTypes, Facts
    <3> QED
      BY <3>1
  <2>2. Emit(100, err)
    BY <1>3 DEF GiveUp
  <2>3. events' \in Seq(Messages) /\ (NoSuccess => NoSuccess')
    <3> HIDE DEF err
    <3> QED
      BY <2>1, <2>2, OneMessage DEF UpdateInv
  <2>4. UpdateTypes'
    BY <1>3, <2>3 DEF UpdateInv, UpdateTypes, GiveUp, Pcs
  <2>5. pc' = "ended" /\ file' = "absent" /\ NoSuccess'
    BY <1>3, <2>3 DEF GiveUp, UpdateInv, EngineInv
  <2>6. EngineInv' /\ SuccessInv' /\ FileInv'
    BY <2>5 DEF EngineInv, SuccessInv, FileInv, Staging, Waiting, Transferring, TimedOut
  <2> QED
    BY <2>4, <2>6 DEF UpdateInv
<1> QED
  BY <1>1, <1>2, <1>3

LEMMA UpdateInvStep == UpdateInv /\ [Next]_vars => UpdateInv'
<1> SUFFICES ASSUME UpdateInv, [Next]_vars PROVE UpdateInv'
  OBVIOUS
<1>1. CASE Next
  BY <1>1, StagingStep, EngineStep, ResultStep DEF Next
<1>2. CASE UNCHANGED vars
  <2>1. UpdateTypes'
    BY <1>2 DEF vars, UpdateInv, UpdateTypes
  <2>2. EngineInv' /\ SuccessInv'
    BY <1>2 DEF vars, UpdateInv, EngineInv, SuccessInv, NoSuccess, Earned, Transfer,
                Staging, Waiting, Transferring, TimedOut
  <2>3. FileInv'
    BY <1>2 DEF vars, UpdateInv, FileInv
  <2> QED
    BY <2>1, <2>2, <2>3 DEF UpdateInv
<1> QED
  BY <1>1, <1>2

LEMMA UpdatesInv == Spec => []UpdateInv
  BY UpdateInvInit, UpdateInvStep, PTL DEF Spec

\* The types of stream_progress and its engine, the progress of each message
\* and the number of retries among them.
THEOREM UpdateTypeCorrect == Spec => []TypeOK
<1>1. UpdateInv => TypeOK
  <2> SUFFICES ASSUME UpdateInv PROVE TypeOK
    OBVIOUS
  <2>1. \A i \in DOMAIN events : events[i].progress \in 0 .. 100
    <3>1. \A i \in DOMAIN events : events[i] \in Messages
      <4> HIDE DEF Messages
      <4> QED
        BY DEF UpdateInv, UpdateTypes
    <3> QED
      BY <3>1 DEF Messages
  <2> QED
    BY <2>1 DEF UpdateInv, UpdateTypes, TypeOK
<1> QED
  BY <1>1, UpdatesInv, PTL

\* A stream of upgradeOTAGATT that says success has earned it: the image went
\* over whole, once and in order, and was verified (execute,
\* execute_engine_with_retry).
THEOREM SuccessIsEarnedAlways == Spec => []SuccessIsEarned
<1>1. UpdateInv => SuccessIsEarned
  <2> SUFFICES ASSUME UpdateInv, Success \in ToSet(events)
               PROVE  Earned
    BY DEF SuccessIsEarned, Earned
  <2>1. PICK i \in DOMAIN events : events[i] = Success
    BY DEF ToSet
  <2>2. events[i].err = {} /\ i \in 1 .. Len(events)
    BY <2>1 DEF Success, Message, UpdateInv, UpdateTypes
  <2>3. ~NoSuccess
    BY <2>2 DEF NoSuccess
  <2> QED
    BY <2>3 DEF UpdateInv, EngineInv, SuccessInv
<1> QED
  BY <1>1, UpdatesInv, PTL

\* The payload of upgradeOTAGATT does not stay under /tmp unless writing it
\* failed (write_payload_to_tmp, the removals in stream_progress).
THEOREM PayloadIsRemoved == Spec => []PayloadRemoved
<1>1. UpdateInv => PayloadRemoved
  BY DEF UpdateInv, FileInv, PayloadRemoved
<1> QED
  BY <1>1, UpdatesInv, PTL

-----------------------------------------------------------------------------
(* The retry.                                                              *)

\* The messages that say the bootloader is waited for.
Waits == {i \in 1 .. Len(events) : events[i].err = {"wait_bootloader"}}
Count == Cardinality(Waits)

\* Each run of the engine waits once; there is a second run only when the
\* bootloader never comes, and then nothing else can fail.
RetryInv ==
  /\ IsFiniteSet(Waits)
  /\ pc \in Staging \cup Waiting => Count = attempts
  /\ pc \in Transferring \cup {"done", "failing"} => Count = attempts + 1
  /\ pc = "ended" => Count <= 2
  /\ attempts = 1 => scenario = "boot_timeout"
  /\ scenario # "boot_timeout" => timeouts = 0
  /\ pc = "done" => scenario # "boot_timeout"
  /\ pc = "failing" => (scenario = "boot_timeout" <=> error = "bootloader_timeout")
  /\ pc = "ended" /\ Count = 2 => Last(events).err = {"bootloader_timeout", "guidance"}

LEMMA RetryInvInit == Init => RetryInv
<1> SUFFICES ASSUME Init PROVE RetryInv
  OBVIOUS
<1>1. Waits = {}
  BY DEF Init, Waits
<1>2. IsFiniteSet(Waits) /\ Count = 0
  BY <1>1, FS_EmptySet DEF Count
<1> QED
  BY <1>2 DEF Init, RetryInv, Staging, Waiting, Transferring

\* One more message, and two more of which neither says so.
LEMMA WaitsGrow ==
  ASSUME UpdateTypes, IsFiniteSet(Waits), NEW progress, NEW err, Emit(progress, err)
  PROVE  /\ IsFiniteSet(Waits')
         /\ Count' = IF err = {"wait_bootloader"} THEN Count + 1 ELSE Count
         /\ Last(events').err = err
<1> DEFINE new == Len(events) + 1
<1>1. /\ events' = Append(events, Message(progress, err))
      /\ Message(progress, err).err = err
  BY DEF Emit, Message
<1>2. events \in Seq(Messages)
  BY DEF UpdateTypes
<1> HIDE DEF Messages, Message
<1>3. /\ Len(events') = new /\ new \in Nat
      /\ events'[new] = Message(progress, err)
      /\ \A i \in 1 .. Len(events) : events'[i] = events[i]
      /\ events' # <<>>
  BY <1>1, <1>2
<1>4. \A i : i \in 1 .. Len(events') <=> i \in 1 .. Len(events) \/ i = new
  BY <1>2, <1>3
<1>5. CASE err = {"wait_bootloader"}
  <2>1. Waits' = Waits \cup {new}
    BY <1>1, <1>3, <1>4, <1>5 DEF Waits
  <2>2. new \notin Waits
    BY <1>2 DEF Waits
  <2> QED
    BY <1>1, <1>3, <1>5, <2>1, <2>2, FS_AddElement DEF Count, Last
<1>6. CASE err # {"wait_bootloader"}
  <2>1. Waits' = Waits
    BY <1>1, <1>3, <1>4, <1>6 DEF Waits
  <2> QED
    BY <1>1, <1>3, <1>6, <2>1 DEF Count, Last
<1> QED
  BY <1>5, <1>6

LEMMA WaitsStay ==
  ASSUME UpdateTypes, NEW a \in Messages, NEW b \in Messages,
         a.err # {"wait_bootloader"}, b.err # {"wait_bootloader"},
         events' = events \o <<a, b>>
  PROVE  Waits' = Waits
<1>1. events \in Seq(Messages)
  BY DEF UpdateTypes
<1> HIDE DEF Messages
<1>2. /\ Len(events') = Len(events) + 2
      /\ events'[Len(events) + 1] = a /\ events'[Len(events) + 2] = b
      /\ \A i \in 1 .. Len(events) : events'[i] = events[i]
  BY <1>1
<1>3. \A i \in 1 .. Len(events') :
        i \in 1 .. Len(events) \/ i = Len(events) + 1 \/ i = Len(events) + 2
  BY <1>1, <1>2
<1>4. \A i \in 1 .. Len(events) : i \in 1 .. Len(events')
  BY <1>1, <1>2
<1> QED
  BY <1>2, <1>3, <1>4 DEF Waits

\* Messages that do not name the wait alone.
LEMMA OtherFacts ==
  /\ \A fact : fact # "wait_bootloader" => {fact} # {"wait_bootloader"}
  /\ {"wait_bootloader", "retry"} # {"wait_bootloader"}
  /\ \A S : {"post_verify"} \cup S # {"wait_bootloader"}
  /\ {} # {"wait_bootloader"}
<1>1. \A S : "post_verify" \in {"post_verify"} \cup S
  OBVIOUS
<1>2. "post_verify" \notin {"wait_bootloader"}
  OBVIOUS
<1>3. "retry" \in {"wait_bootloader", "retry"} /\ "retry" \notin {"wait_bootloader"}
  OBVIOUS
<1>4. "wait_bootloader" \in {"wait_bootloader"}
  OBVIOUS
<1> QED
  BY <1>1, <1>2, <1>3, <1>4, Zenon

\* A step that says nothing of the wait, and keeps the run.
LEMMA SilentStep ==
  ASSUME RetryInv, Waits' = Waits, UNCHANGED <<scenario, attempts>>,
         scenario # "boot_timeout" => timeouts' = 0,
         \/ pc \in Staging /\ pc' \in Staging \cup Waiting \cup {"refused"}
         \/ pc \in Staging /\ attempts = 0 /\ pc' = "ended"
         \/ pc \in Waiting /\ pc' \in Waiting
         \/ /\ pc \in Transferring /\ pc' \in Transferring \cup {"failing", "done"}
            /\ scenario # "boot_timeout"
            /\ pc' = "failing" => error' # "bootloader_timeout"
         \/ pc = "done" /\ pc' = "ended" /\ attempts = 0
  PROVE  RetryInv'
<1>1. IsFiniteSet(Waits)' /\ Count' = Count
  BY DEF RetryInv, Count
<1> QED
  BY <1>1 DEF RetryInv, Staging, Waiting, Transferring

LEMMA RetryInvStep ==
  ASSUME UpdateInv, RetryInv, [Next]_vars
  PROVE  RetryInv'
<1> USE DEF request, engineIo, Goes, Fails
<1>1. UpdateTypes /\ IsFiniteSet(Waits) /\ (pc \in Staging => attempts = 0)
  BY DEF UpdateInv, EngineInv, RetryInv
<1>2. ASSUME NEW progress, NEW err, Emit(progress, err), err # {"wait_bootloader"}
      PROVE  Waits' = Waits
  <2>1. events \in Seq(Messages)
    BY <1>1 DEF UpdateTypes
  <2>2. events' = Append(events, Message(progress, err))
        /\ Message(progress, err).err = err
    BY <1>2 DEF Emit, Message
  <2> HIDE DEF Messages, Message
  <2>3. /\ Len(events') = Len(events) + 1
        /\ events'[Len(events) + 1] = Message(progress, err)
        /\ \A i \in 1 .. Len(events) : events'[i] = events[i]
    BY <2>1, <2>2
  <2>4. \A i : i \in 1 .. Len(events') <=> i \in 1 .. Len(events) \/ i = Len(events) + 1
    BY <2>1, <2>3
  <2> QED
    BY <1>2, <2>2, <2>3, <2>4 DEF Waits
<1>3. CASE Refuse \/ Accept \/ CreateFile \/ WriteFile
  <2>1. Waits' = Waits
    BY <1>3 DEF Refuse, Accept, CreateFile, WriteFile, Waits
  <2> QED
    BY <1>3, <2>1, SilentStep
       DEF Refuse, Accept, CreateFile, WriteFile, RetryInv, Staging
<1>4. CASE EmptyPayload \/ StagingFails \/ PreflightFails
  <2>1. \/ Emit(0, {"empty_payload"}) \/ Emit(0, {"not_staged"})
        \/ Emit(0, {"preflight_failed"})
    BY <1>4 DEF EmptyPayload, StagingFails, PreflightFails
  <2>2. Waits' = Waits
    BY <1>2, <2>1, OtherFacts
  <2>3. pc \in Staging /\ pc' = "ended" /\ UNCHANGED <<scenario, attempts, timeouts>>
    BY <1>4 DEF EmptyPayload, StagingFails, PreflightFails, Staging
  <2> QED
    BY <1>1, <2>2, <2>3, SilentStep DEF RetryInv
<1>5. CASE PreflightOk
  <2>1. Waits' = Waits
    BY <1>2, <1>5, OtherFacts DEF PreflightOk
  <2> QED
    BY <1>5, <2>1, SilentStep DEF PreflightOk, Timeouts, Staging, Waiting
<1>6. CASE EnterBootloader
  <2>1. Waits' = Waits
    BY <1>2, <1>6, OtherFacts DEF EnterBootloader
  <2> QED
    BY <1>6, <2>1, SilentStep DEF EnterBootloader, RetryInv, Waiting
<1>7. CASE WaitBootloader
  <2>1. IsFiniteSet(Waits') /\ Count' = Count + 1
    BY <1>1, <1>7, WaitsGrow DEF WaitBootloader
  <2>2. Count = attempts /\ pc' \in {"failing", "transfer_start"}
        /\ UNCHANGED <<scenario, attempts>>
    BY <1>7 DEF WaitBootloader, RetryInv, Waiting
  <2>3. scenario # "boot_timeout" => timeouts' = 0
    BY <1>7 DEF WaitBootloader, RetryInv
  <2>4. pc' = "failing" => error' = "bootloader_timeout" /\ scenario = "boot_timeout"
    BY <1>1, <1>7 DEF WaitBootloader, RetryInv, UpdateTypes
  <2> QED
    BY <2>1, <2>2, <2>3, <2>4 DEF RetryInv, Staging, Waiting, Transferring
<1>8. CASE TransferStart \/ SendChunk \/ TransferComplete
  <2>1. PICK progress, err : Emit(progress, {err}) /\ err # "wait_bootloader"
    BY <1>8 DEF TransferStart, SendChunk, TransferComplete
  <2>2. Waits' = Waits
    BY <1>2, <2>1, OtherFacts
  <2>3. pc \in Transferring /\ pc' \in Transferring \cup {"failing"}
        /\ UNCHANGED <<scenario, attempts, timeouts>>
        /\ (pc' = "failing" => error' # "bootloader_timeout")
    BY <1>8 DEF TransferStart, SendChunk, TransferComplete, Transferring
  <2>4. scenario # "boot_timeout"
    BY <2>3 DEF UpdateInv, EngineInv
  <2> QED
    BY <2>2, <2>3, <2>4, SilentStep DEF RetryInv
<1>9. CASE PostVerify
  <2>1. Waits' = Waits
    <3>1. CASE scenario = "post_verify"
      BY <1>2, <1>9, <3>1, OtherFacts DEF PostVerify
    <3>2. CASE scenario # "post_verify"
      <4> DEFINE a == Message(95, {"post_verify"})
                 b == Message(100, {})
      <4>1. a \in Messages /\ b \in Messages
        BY DEF Message, Messages, Facts
      <4>2. a.err = {"post_verify"} /\ b.err = {}
        BY DEF Message
      <4>3. events' = events \o <<a, b>>
        BY <1>9, <3>2 DEF PostVerify
      <4> HIDE DEF a, b, Messages
      <4> QED
        BY <1>1, <4>1, <4>2, <4>3, OtherFacts, WaitsStay
    <3> QED
      BY <3>1, <3>2
  <2>2. pc \in Transferring /\ pc' \in {"failing", "done"}
        /\ UNCHANGED <<scenario, attempts, timeouts>>
        /\ (pc' = "failing" => error' # "bootloader_timeout")
    BY <1>9 DEF PostVerify, Transferring
  <2>3. scenario # "boot_timeout"
    BY <2>2 DEF UpdateInv, EngineInv
  <2> QED
    BY <2>1, <2>2, <2>3, SilentStep DEF RetryInv
<1>10. CASE Succeed
  <2>1. Waits' = Waits
    <3> DEFINE a == Message(99, {"post_verify"} \cup queries)
               b == Message(100, {})
    <3>1. a \in Messages /\ b \in Messages
      BY <1>1 DEF Message, Messages, Facts, UpdateTypes
    <3>2. a.err = {"post_verify"} \cup queries /\ b.err = {}
      BY DEF Message
    <3>3. events' = events \o <<a, b>>
      BY <1>10 DEF Succeed
    <3> HIDE DEF a, b, Messages
    <3> QED
      BY <1>1, <3>1, <3>2, <3>3, OtherFacts, WaitsStay
  <2>2. pc = "done" /\ pc' = "ended" /\ UNCHANGED <<scenario, attempts, timeouts>>
    BY <1>10 DEF Succeed
  <2>3. attempts = 0
    BY <1>1, <2>2 DEF RetryInv, UpdateTypes
  <2> QED
    BY <2>1, <2>2, <2>3, SilentStep DEF RetryInv
<1>11. CASE Retry
  <2>1. Waits' = Waits
    BY <1>2, <1>11, OtherFacts DEF Retry
  <2>2. IsFiniteSet(Waits') /\ Count' = Count
    BY <1>1, <2>1 DEF Count
  <2>3. /\ pc = "failing" /\ pc' = "enter_bootloader" /\ attempts = 0 /\ attempts' = 1
        /\ error = "bootloader_timeout" /\ UNCHANGED <<scenario, timeouts>>
    BY <1>11 DEF Retry
  <2>4. scenario = "boot_timeout"
    BY <2>3 DEF RetryInv
  <2> QED
    BY <2>2, <2>3, <2>4 DEF RetryInv, Staging, Waiting, Transferring
<1>12. CASE GiveUp
  <2> DEFINE err == {error} \cup {g \in {"guidance"} : error \in Guidance}
  <2>1. pc = "failing" /\ pc' = "ended" /\ UNCHANGED <<scenario, attempts, timeouts>>
        /\ Emit(100, err) /\ ~(error = "bootloader_timeout" /\ attempts = 0)
    BY <1>12 DEF GiveUp
  <2>2. err # {"wait_bootloader"}
    <3>1. error \in err /\ error # "wait_bootloader"
      BY <1>1 DEF UpdateTypes, Errors
    <3> HIDE DEF err
    <3> QED
      BY <3>1
  <2>3. IsFiniteSet(Waits') /\ Count' = Count /\ Last(events').err = err
    <3> HIDE DEF err
    <3> QED
      BY <1>1, <2>1, <2>2, WaitsGrow
  <2>4. Count = attempts + 1 /\ attempts \in 0 .. 1
    BY <1>1, <2>1 DEF RetryInv, UpdateTypes
  <2>5. Count = 2 => err = {"bootloader_timeout", "guidance"}
    <3> SUFFICES ASSUME Count = 2 PROVE err = {"bootloader_timeout", "guidance"}
      OBVIOUS
    <3>1. attempts = 1
      BY <2>4
    <3>2. error = "bootloader_timeout"
      BY <2>1, <3>1 DEF RetryInv
    <3>3. "bootloader_timeout" \in Guidance
      BY DEF Guidance
    <3> QED
      BY <3>2, <3>3
  <2>6. scenario # "boot_timeout" => timeouts' = 0
    BY <2>1 DEF RetryInv
  <2>7. attempts' = 1 => scenario' = "boot_timeout"
    BY <2>1 DEF RetryInv
  <2> HIDE DEF err
  <2> QED
    BY <2>1, <2>3, <2>4, <2>5, <2>6, <2>7 DEF RetryInv, Staging, Waiting, Transferring
<1>13. CASE UNCHANGED vars
  BY <1>13 DEF vars, RetryInv, Count, Waits
<1> QED
  BY <1>3, <1>4, <1>5, <1>6, <1>7, <1>8, <1>9, <1>10, <1>11, <1>12, <1>13 DEF Next, Engine

\* upgradeOTAGATT waits for the bootloader at most twice, and when it did twice
\* the stream ends with the timeout and how to recover
\* (execute_engine_with_retry).
THEOREM OneRetry == Spec => []RetryIsBounded
<1>1. UpdateInv /\ RetryInv => RetryIsBounded
  <2> SUFFICES ASSUME UpdateInv, RetryInv PROVE RetryIsBounded
    OBVIOUS
  <2>1. Waits = {i \in DOMAIN events : events[i].err = {"wait_bootloader"}}
    BY DEF Waits, UpdateInv, UpdateTypes
  <2>2. Count <= 2
    <3>1. attempts \in 0 .. 1 /\ pc \in Pcs
      BY DEF UpdateInv, UpdateTypes
    <3> QED
      BY <3>1 DEF RetryInv, Staging, Waiting, Transferring, Pcs
  <2> QED
    BY <2>1, <2>2 DEF RetryIsBounded, Count, RetryInv
<1>2. UpdateInv /\ RetryInv /\ [Next]_vars => RetryInv'
  BY RetryInvStep
<1> QED
  BY <1>1, <1>2, RetryInvInit, UpdatesInv, PTL DEF Spec
=============================================================================
