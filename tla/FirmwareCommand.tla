-------------------------- MODULE FirmwareCommand --------------------------
(***************************************************************************)
(* `monsgeek-cli firmware version`, `validate` and `flash`, run one after  *)
(* the other by a user who has picked a keyboard: the version is asked of  *)
(* the keyboard through the driver, the image comes from the vendor's      *)
(* server or from a local file, and run_preflight decides.  Neither        *)
(* command writes to the keyboard: flash ends with "not implemented yet"   *)
(* after the approval, which is the decision the guards are there for.     *)
(*                                                                         *)
(* The vendor's server and the disk are the environment.  Meanwhile the    *)
(* keyboard on the port may be replaced or updated, and the vendor may     *)
(* publish another version.                                                *)
(***************************************************************************)
EXTENDS Integers, Sequences, FiniteSetsExt

CONSTANTS
  None,
  Models,       \* the keyboards that may be on the port: records [id, version]
  Offers,       \* what the vendor may answer: records [parts, path, sized]
  Hex,          \* the parts that are hexadecimal, with their values
  Invocations,  \* records [command, file, allow_unofficial, yes, risk, phrase]
  MaxRuns       \* bound: commands the user gives

ASSUME FirmwareAssumption ==
  /\ None \notin Int
  /\ \A h \in DOMAIN Hex : Hex[h] \in Int
  /\ \A m \in Models : m.version \in Int
  /\ \A o \in Offers : o.parts \in Seq(STRING)
  /\ \A i \in Invocations : i.command \in {"version", "validate", "flash"}

VARIABLES
  step,
  invocation,
  keyboard,     \* on the port
  vendor,       \* the vendor's answer
  disk,         \* the file under firmware/downloads
  current,      \* DeviceFirmwareState
  usb,          \* server_usb_version
  verdict,      \* how the command ended
  previous,     \* history: the verdict of the command before
  runs,         \* history: commands given
  changed       \* history: the keyboard changed while this command runs

commandVars == <<step, invocation, keyboard, vendor, disk, current, usb,
                 verdict, previous, runs, changed>>
world == <<keyboard, vendor>>
session == <<invocation, previous, runs, changed>>

CommandInit ==
  /\ step = "query_version"
  /\ invocation \in Invocations
  /\ keyboard \in Models
  /\ vendor \in Offers
  /\ disk = "absent"
  /\ current = None
  /\ usb = None
  /\ verdict = None
  /\ previous = None
  /\ runs = 1
  /\ changed = FALSE

\* The command returns; what it saw is kept for the properties.
Ends(result) ==
  /\ step' = "ended"
  /\ verdict' = [result |-> result, current |-> current, usb |-> usb,
                 image |-> disk, invocation |-> invocation]

-----------------------------------------------------------------------------
(* read_device_firmware_state.                                             *)

\* UsbVersionInfo::parse: at least nine bytes, the first one the command's.
UsbVersion(reply) == IF reply = "own" THEN keyboard ELSE None

\* GET_USB_VERSION is sent and its answer read: the driver may fail either
\* call, hand out the answer to another client's query, or an empty one.
QueryVersion ==
  /\ step = "query_version"
  /\ UNCHANGED <<world, session, disk, usb>>
  /\ \E reply \in {"error", "own", "other", "short"} :
       IF UsbVersion(reply) = None
       THEN Ends("no_version") /\ UNCHANGED current
       ELSE /\ current' = UsbVersion(reply)
            /\ step' = "query_revision"
            /\ UNCHANGED verdict

\* GET_REV: only the call that sends it may fail the command; the revision is
\* printed and nothing depends on it.
QueryRevision ==
  /\ step = "query_revision"
  /\ \/ Ends("no_revision")
     \/ invocation.command = "version" /\ Ends("printed")
     \/ /\ invocation.command # "version"
        /\ step' = "resolve"
        /\ UNCHANGED verdict
  /\ UNCHANGED <<world, session, disk, current, usb>>

-----------------------------------------------------------------------------
(* resolve_firmware_input.                                                 *)

\* --file, which needs --allow-unofficial.
LocalFile ==
  /\ step = "resolve"
  /\ invocation.file # "none"
  /\ IF invocation.allow_unofficial
     THEN step' = "decide" /\ UNCHANGED verdict
     ELSE Ends("unofficial")
  /\ UNCHANGED <<world, session, disk, current, usb>>

\* FirmwareVersions::parse: the parts between the underscores are taken in
\* pairs from the first; of several versions for usb the last counts, and one
\* that is not hexadecimal is passed over.
ParseUsb(parts) ==
  LET pairs == {i \in 1 .. Len(parts) - 1 :
                  i % 2 = 1 /\ parts[i] = "usb" /\ parts[i + 1] \in DOMAIN Hex}
  IN  IF pairs = {} THEN None ELSE Hex[parts[Max(pairs) + 1]]

\* check_vendor_firmware fails (no connection, an HTTP status, a body that is
\* no JSON, an errCode), or the answer has no path, or the directory for the
\* download cannot be made.
AskVendor ==
  /\ step = "resolve"
  /\ invocation.file = "none"
  /\ UNCHANGED <<world, session, disk, current>>
  /\ \/ Ends("no_offer") /\ UNCHANGED usb
     \/ /\ vendor.path
        /\ usb' = ParseUsb(vendor.parts)
        /\ step' = "download"
        /\ UNCHANGED verdict

\* Mutant of Download: a body that was cut counts as the whole, whatever length
\* the server gave.
DownloadCutShort ==
  /\ step = "download"
  /\ UNCHANGED <<world, session, current, usb>>
  /\ \/ Ends("not_downloaded") /\ UNCHANGED disk
     \/ /\ disk' \in {"empty", "part", "whole"}
        /\ step' = "decide"
        /\ UNCHANGED verdict

\* The file is created, or emptied, once the server has answered, and stays as
\* far as it got.  That the connection was cut is an error if the server said
\* how long the body is; without, the body seems to end there.
Download ==
  /\ step = "download"
  /\ UNCHANGED <<world, session, current, usb>>
  /\ \/ Ends("not_downloaded") /\ UNCHANGED disk
     \/ /\ disk' \in {"empty", "part"}
        /\ Ends("not_downloaded")
     \/ /\ disk' \in {"whole"} \cup (IF vendor.sized THEN {} ELSE {"empty", "part"})
        /\ step' = "decide"
        /\ UNCHANGED verdict

-----------------------------------------------------------------------------
(* The decision.                                                           *)

\* The image the preflight reads: the file named, or the one downloaded.
Image == CASE invocation.file = "own" -> "whole"
           [] OTHER -> disk

Readable == Image \in {"part", "whole"}

REQUIRED_TYPED_PHRASE == "FLASH M5W"

\* run_preflight's acknowledgements: validate makes them itself.
Acknowledged ==
  \/ invocation.command = "validate"
  \/ invocation.yes /\ invocation.risk
  \/ ~invocation.yes /\ invocation.phrase = REQUIRED_TYPED_PHRASE

\* flash alone turns down what is not newer, and only if the vendor said what
\* version the image is.
Outdated == usb # None /\ usb <= current.version

\* Mutant of UpdateAvailable: the same version is an update.
UpdateOrSame == usb >= current.version

\* What validate prints of it, if the vendor said.
UpdateAvailable == usb > current.version

Answer == IF usb = None THEN "valid"
          ELSE IF UpdateAvailable THEN "update_available" ELSE "no_update"

\* run_preflight: the manifest is made from the target the request is about, so
\* the metadata always fit, and no backup is ever attempted.
Decide ==
  /\ step = "decide"
  /\ IF invocation.command = "flash" /\ Outdated THEN Ends("up_to_date")
     ELSE IF ~Readable \/ ~Acknowledged THEN Ends("refused")
     ELSE IF invocation.command = "validate" THEN Ends(Answer)
     ELSE Ends("approved")
  /\ UNCHANGED <<world, session, disk, current, usb>>

-----------------------------------------------------------------------------
(* The user and the world.                                                 *)

\* The next command; the file under firmware/downloads is what the last left.
GiveCommand ==
  /\ step = "ended"
  /\ runs < MaxRuns
  /\ runs' = runs + 1
  /\ previous' = verdict
  /\ invocation' \in Invocations
  /\ step' = "query_version"
  /\ current' = None
  /\ usb' = None
  /\ verdict' = None
  /\ changed' = FALSE
  /\ UNCHANGED <<world, disk>>

\* Another keyboard on the port, or another firmware in it (bound: once while
\* a command runs).
KeyboardChanges ==
  /\ step \notin {"off", "ended"}
  /\ ~changed
  /\ keyboard' \in Models \ {keyboard}
  /\ changed' = TRUE
  /\ UNCHANGED <<step, invocation, vendor, disk, current, usb, verdict, previous, runs>>

\* It matters to the command up to the moment it asks.
VendorPublishes ==
  /\ step = "resolve"
  /\ invocation.file = "none"
  /\ vendor' \in Offers \ {vendor}
  /\ UNCHANGED <<step, session, keyboard, disk, current, usb, verdict>>

CommandNext ==
  \/ QueryVersion \/ QueryRevision
  \/ LocalFile \/ AskVendor \/ Download
  \/ Decide
  \/ GiveCommand \/ KeyboardChanges \/ VendorPublishes

CommandSpec == CommandInit /\ [][CommandNext]_commandVars

-----------------------------------------------------------------------------
(* Properties.                                                             *)

Verdict == IF verdict = None THEN "none" ELSE verdict.result

\* "compare current USB firmware vs target USB firmware before flash approval",
\* "treated as unofficial and requires --allow-unofficial", "require both
\* flags" (docs/firmware-update.md): an approval was given by the user in one
\* of the two ways; the image is a file the user insisted on or the vendor's,
\* and whole, unless the server that sent this one gave no length for it; and
\* when the vendor says which version it is, it is newer than what the keyboard
\* runs, unless that changed meanwhile.
FlashApprovalIsEarned ==
  Verdict = "approved" =>
    /\ IF invocation.yes THEN invocation.risk ELSE invocation.phrase = REQUIRED_TYPED_PHRASE
    /\ IF invocation.file = "none"
       THEN disk = "whole" \/ (disk = "part" /\ ~vendor.sized)
       ELSE invocation.allow_unofficial /\ usb = None
    /\ usb # None /\ ~changed => keyboard.version < usb

\* validate says what flash will do: with the same image, the same version in
\* the keyboard and the same answer of the vendor, a flash that is
\* acknowledged is approved after "update_available" and "valid", turned down
\* after "no_update", and refused when validate was.
AsksTheSame(v, w) ==
  /\ v.invocation.file = w.invocation.file
  /\ v.image = w.image /\ v.current = w.current /\ v.usb = w.usb
Foretold(result) ==
  CASE result = "no_update" -> {"up_to_date"}
    [] result \in {"valid", "update_available"} -> {"approved"}
    [] result = "refused" -> {"refused", "up_to_date"}
    [] OTHER -> {}
ValidateForetellsFlash ==
  (/\ Verdict \in {"approved", "up_to_date", "refused"}
   /\ invocation.command = "flash" /\ Acknowledged
   /\ previous # None
   /\ previous.invocation.command = "validate"
   /\ AsksTheSame(verdict, previous)
   /\ Foretold(previous.result) # {})
  => Verdict \in Foretold(previous.result)
=============================================================================
