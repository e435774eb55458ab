-------------------------- MODULE DeviceDefinitions -------------------------
(***************************************************************************)
(* What the driver, the command line client and discovery know about a     *)
(* keyboard's model: the definitions loaded from the JSON files, the       *)
(* command bytes that follow from one, and how a keyboard found on the bus *)
(* is matched with one (monsgeek-protocol device.rs, protocol.rs and       *)
(* registry.rs, monsgeek-transport discovery.rs).                          *)
(*                                                                         *)
(* A definition is a record with the fields                                *)
(*   id, vid, pid, runtime_pids, name, display_name, company, magnetism,   *)
(*   no_magnetic_switch, layer, key_count, fn_sys, command_overrides;      *)
(* name is the prefix that tells the protocol family, fn_sys the larger of *)
(* the two numbers in fnSysLayer.                                          *)
(***************************************************************************)
EXTENDS Integers, Sequences, SequencesExt, TLC

CONSTANT None \* a field a JSON file leaves out; no definition; no keyboard

-----------------------------------------------------------------------------
(* The command bytes of a definition.                                      *)

RY5088_COMMANDS ==
  [set_reset |-> 1, set_profile |-> 4, set_debounce |-> 6, set_keymatrix |-> 10,
   set_macro |-> 11, set_keymatrix_simple |-> None, set_fn_simple |-> None,
   set_report |-> 3, set_kboption |-> 9, set_sleeptime |-> 17,
   get_profile |-> 132, get_debounce |-> 134, get_keymatrix |-> 138,
   get_report |-> 131]

YICHIP_COMMANDS ==
  [set_reset |-> 2, set_profile |-> 5, set_debounce |-> 17, set_keymatrix |-> 9,
   set_macro |-> 8, set_keymatrix_simple |-> 19, set_fn_simple |-> 21,
   set_report |-> None, set_kboption |-> None, set_sleeptime |-> None,
   get_profile |-> 133, get_debounce |-> 145, get_keymatrix |-> 137,
   get_report |-> None]

\* The fields of CommandTable that write; the others read.
Setters == {"set_reset", "set_profile", "set_debounce", "set_keymatrix", "set_macro",
            "set_keymatrix_simple", "set_fn_simple", "set_report", "set_kboption",
            "set_sleeptime"}

\* ProtocolFamily::detect: the name decides, then PIDs 0x40xx.
ProtocolFamily(def) ==
  IF def.name \in {"ry5088", "ry1086"} THEN "Ry5088"
  ELSE IF def.name \in {"yc500", "yc300", "yc3121", "yc3123"} THEN "YiChip"
  ELSE IF def.pid \div 256 = 64 THEN "YiChip" ELSE "Ry5088"

\* DeviceDefinition::commands: a byte the definition overrides replaces the
\* family's.
TableOf(def) ==
  def.command_overrides @@
    (IF ProtocolFamily(def) = "Ry5088" THEN RY5088_COMMANDS ELSE YICHIP_COMMANDS)

HasMagnetism(def) ==
  IF def.magnetism # None THEN def.magnetism
  ELSE def.no_magnetic_switch # None /\ ~def.no_magnetic_switch

-----------------------------------------------------------------------------
(* DeviceRegistry, a function from ids to definitions.                     *)

SupportsRuntimePid(def, pid) == def.pid = pid \/ pid \in def.runtime_pids

\* A file that does not parse (None) fails the load, and the program with it.
\* Files are added in turn: the last one of an id replaces the others.
LoadFromDirectory(files) ==
  LET Of(id) == {n \in DOMAIN files : files[n].id = id}
  IN  IF None \in ToSet(files) THEN None
      ELSE [i \in {def.id : def \in ToSet(files)} |-> files[Max(Of(i))]]

FindById(catalogue, id) == IF id \in DOMAIN catalogue THEN catalogue[id] ELSE None

FindByRuntimeVidPid(catalogue, vid, pid) ==
  {catalogue[i] : i \in {j \in DOMAIN catalogue :
      catalogue[j].vid = vid /\ SupportsRuntimePid(catalogue[j], pid)}}

SupportsRuntimeVidPid(catalogue, vid, pid) == FindByRuntimeVidPid(catalogue, vid, pid) # {}

-----------------------------------------------------------------------------
(* Discovery's match of a keyboard [vid, pid, firmware_id].                *)

\* Mutant of ProbeOutcomes: a shared VID/PID is settled by the descriptor.
ProbeByDescriptor(catalogue, keyboard) ==
  FindByRuntimeVidPid(catalogue, keyboard.vid, keyboard.pid) \cup {None}

\* probe_candidate_identity, as the set of its outcomes: a VID/PID of its own
\* identifies the keyboard; a shared one makes discovery ask the firmware,
\* which may fail, and take the definition of the id it answers, whether that
\* definition names the VID/PID or not.
ProbeOutcomes(catalogue, keyboard) ==
  LET matches == FindByRuntimeVidPid(catalogue, keyboard.vid, keyboard.pid)
  IN  IF matches = {} THEN {None}
      ELSE IF Cardinality(matches) = 1 THEN matches
      ELSE {FindById(catalogue, keyboard.firmware_id), None}
=============================================================================
