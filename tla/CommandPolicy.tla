---------------------------- MODULE CommandPolicy ---------------------------
(***************************************************************************)
(* The policy for commands that leave the driver: what class a command     *)
(* has, whether it may reach the keyboard, how its read is completed, and  *)
(* how its payload is rewritten on the way.  The firmware does not check   *)
(* indices, so what the policy lets through is all that stands between a   *)
(* client and a write outside the keyboard's tables.                       *)
(*                                                                         *)
(* A command is a sequence of bytes, cmd[1] its command byte.  The bytes   *)
(* are the real ones, because the two families give them different         *)
(* meanings (0x09 is SET_KBOPTION on one, SET_KEYMATRIX on the other).     *)
(***************************************************************************)
EXTENDS DeviceDefinitions

CONSTANTS
  Definitions, \* of the keyboards sessions are opened for
  Commands     \* commands clients send

Byte == 0 .. 255

\* The bounds a JSON file gives are numbers, or left out.
Bounded(def) == {def.layer, def.key_count, def.fn_sys} \subseteq Nat \cup {None}

ASSUME PolicyAssumption ==
  /\ None \notin Int
  /\ Commands \subseteq Seq(Byte)
  /\ \A def \in Definitions : Bounded(def)

VARIABLES
  definition, \* of the keyboard the session was opened for
  command,    \* the last command sent
  decision,   \* what the policy made of it
  frame       \* what the keyboard took of it, <<>> if nothing

vars == <<definition, command, decision, frame>>

-----------------------------------------------------------------------------
(* The command bytes.                                                      *)

SET_FN == 16
SharedWrites == {3, 7, 8, 12, 13, 14, 16, 18, 23, 27, 28, 29, 30, 101, 122, 232, 246, 248}
MAGNETIC_WRITE_CMDS == {27, 28, 29, 30, 101}
MAX_MACRO_INDEX == 49
MAX_CHUNK_PAGE == 9

\* Mutant of ClassifyCommand: the simple commands are left out.
ClassifyWithoutSimple(def, byte) ==
  LET t == TableOf(def)
  IN  IF byte \in {t[f] : f \in Setters \ {"set_keymatrix_simple", "set_fn_simple"}}
                    \cup SharedWrites
      THEN "write" ELSE "query"

\* Whatever is not known to be a write is a query.
ClassifyCommand(def, byte) ==
  LET t == TableOf(def)
  IN  IF byte \in {t[f] : f \in Setters} \cup SharedWrites THEN "write" ELSE "query"

-----------------------------------------------------------------------------
(* The bounds.                                                             *)

\* The first profile that is too high; a keyboard of no layers keeps profile 0.
Profiles(def) == IF def.layer = 0 THEN 1 ELSE def.layer
FnSystems(def) == IF def.fn_sys = 0 THEN 1 ELSE def.fn_sys

\* "ok", or how the command is rejected.
Check(holds, otherwise) == IF holds THEN "ok" ELSE otherwise

ProfileCheck(def, profile) ==
  IF def.layer = None THEN "failed_precondition"
  ELSE Check(profile < Profiles(def), "invalid_argument")

\* Mutant of KeyCheck: the last key plus one passes.
KeyCheckOffByOne(def, key, layer) ==
  Check(def.key_count # None /\ def.layer # None /\ key <= def.key_count /\ layer < def.layer,
        "invalid_argument")

KeyCheck(def, key, layer) ==
  Check(def.key_count # None /\ def.layer # None /\ key < def.key_count /\ layer < def.layer,
        "invalid_argument")

Then(first, second) == IF first = "ok" THEN second ELSE first

\* SET_FN: the system, then the profile, then the key.
FnCheck(def, fnSys, profile, key) ==
  IF def.fn_sys = None THEN "failed_precondition"
  ELSE IF def.layer = None THEN "failed_precondition"
  ELSE Then(Check(fnSys < FnSystems(def), "invalid_argument"),
       Then(ProfileCheck(def, profile), KeyCheck(def, key, 0)))

\* Each command byte in turn; the length is checked before any byte of the
\* payload is looked at.
PayloadCheck(def, cmd) ==
  LET t == TableOf(def)
      On(bytes, n, check) ==
        IF cmd[1] \notin bytes THEN "ok"
        ELSE IF Len(cmd) < n THEN "invalid_argument" ELSE check
  IN  Then(On({t.set_profile}, 2, ProfileCheck(def, cmd[2])),
      Then(On({t.set_keymatrix}, 7,
              Then(ProfileCheck(def, cmd[2]), KeyCheck(def, cmd[3], cmd[7]))),
      Then(On({t.set_keymatrix_simple, t.set_fn_simple}, 3,
              Then(ProfileCheck(def, cmd[2]), KeyCheck(def, cmd[3], 0))),
      Then(On({t.set_macro}, 3,
              Check(cmd[2] <= MAX_MACRO_INDEX /\ cmd[3] <= MAX_CHUNK_PAGE,
                    "invalid_argument")),
           On({SET_FN}, 4, FnCheck(def, cmd[2], cmd[3], cmd[4]))))))

-----------------------------------------------------------------------------
(* evaluate_outbound_command and normalize_outbound_command.               *)

Decision(class, forwarded, read, error) ==
  [class |-> class, forwarded |-> forwarded, read |-> read, error |-> error]

Forward(class) ==
  Decision(class, TRUE, IF class = "write" THEN "synthetic" ELSE "device", "ok")

EvaluateOutboundCommand(def, cmd) ==
  IF cmd = <<>> THEN Forward("query")
  ELSE LET class == ClassifyCommand(def, cmd[1])
           check == PayloadCheck(def, cmd)
       IN  CASE check # "ok" -> Decision(class, FALSE, "synthetic", check)
             [] check = "ok" /\ cmd[1] \in MAGNETIC_WRITE_CMDS /\ ~HasMagnetism(def) ->
                  Decision(class, FALSE, "synthetic", "ok")
             [] OTHER -> Forward(class)

\* Mutant of NormalizeOutboundCommand: only the keymatrix command is rewritten.
NormalizeKeymatrixOnly(def, cmd) ==
  IF /\ Len(cmd) >= 12
     /\ cmd[1] = TableOf(def).set_keymatrix_simple
     /\ cmd[9] = 0 /\ cmd[10] = 0 /\ cmd[11] # 0 /\ cmd[12] = 0
  THEN [cmd EXCEPT ![10] = cmd[11], ![11] = 0]
  ELSE cmd

\* The web application's reset pattern [0, 0, keycode, 0] in a simple command
\* becomes [0, keycode, 0, 0].
NormalizeOutboundCommand(def, cmd) ==
  IF /\ Len(cmd) >= 12
     /\ cmd[1] \in {TableOf(def).set_keymatrix_simple, TableOf(def).set_fn_simple}
     /\ cmd[9] = 0 /\ cmd[10] = 0 /\ cmd[11] # 0 /\ cmd[12] = 0
  THEN [cmd EXCEPT ![10] = cmd[11], ![11] = 0]
  ELSE cmd

\* A session is opened; nothing has been sent on it.
Init ==
  /\ definition \in Definitions
  /\ command = <<>>
  /\ decision = Forward("query")
  /\ frame = <<>>

\* send_command_rpc with a device that is connected.  Bound: one command for a
\* session, as the policy keeps nothing from one command to the next.
Send(cmd) ==
  /\ command = <<>>
  /\ command' = cmd
  /\ decision' = EvaluateOutboundCommand(definition, cmd)
  /\ frame' = IF decision'.forwarded THEN NormalizeOutboundCommand(definition, cmd) ELSE <<>>
  /\ UNCHANGED definition

Next == \E cmd \in Commands : Send(cmd)

Spec == Init /\ [][Next]_vars

-----------------------------------------------------------------------------
(* The firmware's side: which tables a frame writes to, and where.         *)

\* validate_write_request, the transport's own check of a key and a layer.
ValidateWriteRequest(def, key, layer) ==
  /\ def.key_count # None
  /\ def.layer # None
  /\ ~(key >= def.key_count \/ layer >= def.layer)

\* The transport pads a frame with zeros.
ByteAt(i) == IF i <= Len(frame) THEN frame[i] ELSE 0

Takes(byte) == frame # <<>> /\ frame[1] = byte /\ byte # None

KeyWrites ==
  LET t == TableOf(definition)
  IN  IF frame = <<>> THEN {} ELSE
      {[key |-> ByteAt(3), layer |-> ByteAt(7)] : x \in {b \in {t.set_keymatrix} : Takes(b)}}
      \cup {[key |-> ByteAt(3), layer |-> 0] :
              x \in {b \in {t.set_keymatrix_simple, t.set_fn_simple} : Takes(b)}}
      \cup {[key |-> ByteAt(4), layer |-> 0] : x \in {b \in {SET_FN} : Takes(b)}}

-----------------------------------------------------------------------------
(* Properties.                                                             *)

\* No frame makes the firmware write outside the key tables, the macros or the
\* profiles of the keyboard, whichever of its family's commands it uses and
\* however short the client made it (doc of transport bounds.rs: this must be
\* checked "before any SET_KEYMATRIX write to prevent firmware out-of-bounds
\* memory corruption").
WritesInBounds ==
  /\ \A w \in KeyWrites : ValidateWriteRequest(definition, w.key, w.layer)
  /\ Takes(TableOf(definition).set_macro) => ByteAt(2) < 50 /\ ByteAt(3) < 10
  /\ Takes(TableOf(definition).set_profile) =>
       definition.layer # None /\ ByteAt(2) < Profiles(definition)

\* The keyboard is never asked to answer a command that writes to its tables,
\* in whichever family: a read after it would fetch somebody else's answer.
WritesAreNotAwaited == KeyWrites # {} => decision.read = "synthetic"

\* No simple command with its whole config reaches the firmware in the form it
\* misreads: a keycode alone in config[2].  One that leaves out the last byte of
\* its config is not rewritten, and the transport's padding completes it.
KeycodesAreWhereTheyBelong ==
  LET t == TableOf(definition)
  IN  (Takes(t.set_keymatrix_simple) \/ Takes(t.set_fn_simple)) /\ Len(frame) >= 12 =>
        ~(ByteAt(9) = 0 /\ ByteAt(10) = 0 /\ ByteAt(11) # 0 /\ ByteAt(12) = 0)
=============================================================================
