----------------------------- MODULE MCFirmware -----------------------------
(* The two ways firmware is dealt with, one per behaviour: an update sent by *)
(* the web application to the bridge, or the command line's commands.        *)
EXTENDS FirmwareUpdate, FirmwareCommand, TLC

CommandOff ==
  /\ step = "off" /\ runs = 0
  /\ invocation = None /\ keyboard = None /\ vendor = None /\ disk = "absent"
  /\ current = None /\ usb = None /\ verdict = None /\ previous = None
  /\ changed = FALSE

FirmwareInit ==
  /\ Init
  /\ \/ CommandOff
     \/ chunks = 0 /\ ~ota_enabled /\ CommandInit

FirmwareNext ==
  \/ step = "off" /\ Next /\ UNCHANGED commandVars
  \/ step # "off" /\ CommandNext /\ UNCHANGED vars

FirmwareSpec == FirmwareInit /\ [][FirmwareNext]_<<vars, commandVars>>

\* The keyboard picked with an older and a newer firmware, and another model.
McModels == {[id |-> 1, version |-> 272], [id |-> 1, version |-> 273],
             [id |-> 2, version |-> 288]}
McHex == "110" :> 272 @@ "111" :> 273 @@ "0" :> 0
McOffer(parts) == [parts |-> parts, path |-> TRUE, sized |-> TRUE]
McOffers ==
  {McOffer(<<"usb", "111", "rfv", "110">>), McOffer(<<"usb", "x">>),
   McOffer(<<"v2", "usb", "110">>), [McOffer(<<"">>) EXCEPT !.path = FALSE],
   [McOffer(<<"rfv", "111", "usb", "110">>) EXCEPT !.sized = FALSE]}

\* A command without flags, and what a user may add to it.
McInvocation(command) ==
  [command |-> command, file |-> "none", allow_unofficial |-> FALSE,
   yes |-> FALSE, risk |-> FALSE, phrase |-> None]
McInvocations ==
  LET flash == McInvocation("flash")
      acknowledged == {flash, [flash EXCEPT !.yes = TRUE],
                       [flash EXCEPT !.phrase = "flash m5w"],
                       [flash EXCEPT !.phrase = REQUIRED_TYPED_PHRASE],
                       [flash EXCEPT !.yes = TRUE, !.risk = TRUE]}
  IN  {McInvocation("version")}
      \cup {[i EXCEPT !.file = f, !.allow_unofficial = b] :
               i \in acknowledged \cup {McInvocation("validate")},
               f \in {"none", "downloaded", "own"}, b \in BOOLEAN}
=============================================================================
