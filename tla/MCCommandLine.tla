---------------------------- MODULE MCCommandLine ---------------------------
(* The instance of CommandLine: the web application's commands of           *)
(* MCCommandPolicy, and a CLI with two ports, a catalogue of both families  *)
(* in which two models share a VID/PID, and keyboards of those models, of   *)
(* an unknown one and of one that shows a VID/PID its definition leaves out.*)
EXTENDS CommandLine, MCCommandPolicy

CONSTANTS p1, p2

NoOverrides == [f \in {} |-> None]

Model(id, pid, runtime, name, display, overrides) ==
  [id |-> id, vid |-> 12625, pid |-> pid, runtime_pids |-> runtime, name |-> name,
   display_name |-> display, company |-> IF id = 3 THEN None ELSE "MonsGeek",
   magnetism |-> None, no_magnetic_switch |-> TRUE, layer |-> 4, key_count |-> 20,
   fn_sys |-> 2, command_overrides |-> overrides]

\* m5w.json, a model that shares its VID/PID, one that has its own, and an
\* older file of that one, which the later file replaces.
Files ==
  << Model(3, 16405, {}, "ry5088", "M3W", NoOverrides),
     Model(1308, 16405, {16401}, "yc3121", "M5W",
           [set_debounce |-> 17, get_debounce |-> 145, set_macro |-> 11,
            set_kboption |-> 6, set_sleeptime |-> 18]),
     Model(2, 16405, {}, "yc500", "M7W", NoOverrides),
     Model(3, 20528, {}, "ry5088", "FUN60", NoOverrides) >>

Keyboard(pid, id) == [vid |-> 12625, pid |-> pid, firmware_id |-> id]
Plugged == {Keyboard(16405, 1308), Keyboard(16401, 1308), Keyboard(16405, 2),
            Keyboard(20528, 3), Keyboard(16405, 99), Keyboard(16405, 3)}

Selector(path, location, id, model) ==
  [path |-> path, usb_location |-> location, device_id |-> id, model |-> model]
CliSelectors ==
  {Selector(None, None, None, None), Selector(p1, None, 2, None), Selector(None, p2, None, None),
   Selector(None, None, 1308, None), Selector(None, None, None, <<"MonsGeek", "M7W">>)}

KeymapSet(profile, key, layer) ==
  [op |-> "keymap_set", profile |-> profile, key_index |-> key, layer |-> layer,
   config |-> <<0, 0, 4, 0>>]

CliRequests ==
  { [op |-> "info"], [op |-> "led_get"], [op |-> "debounce_get"], [op |-> "poll_get"],
    [op |-> "profile_get"], [op |-> "raw_read"],
    [op |-> "led_set", mode |-> 1, speed |-> 7, brightness |-> 4, dazzle |-> TRUE,
     r |-> 10, g |-> 20, b |-> 30],
    [op |-> "debounce_set", value |-> 5], [op |-> "poll_set", value |-> 1],
    [op |-> "profile_set", value |-> 3], [op |-> "profile_set", value |-> 4],
    [op |-> "keymap_get", profile |-> 0, key_index |-> 17],
    KeymapSet(3, 19, 3), KeymapSet(0, 20, 0), KeymapSet(0, 0, 4),
    [op |-> "macro_get", macro_index |-> 0, page |-> 0],
    [op |-> "macro_set", macro_index |-> 49, page |-> 9, is_last |-> 1, data |-> <<1, 2>>],
    [op |-> "macro_set", macro_index |-> 50, page |-> 0, is_last |-> 1, data |-> <<>>],
    [op |-> "raw_send", bytes |-> <<9, 0, 20>>, unsafe |-> TRUE],
    [op |-> "raw_send", bytes |-> <<9, 0, 20>>, unsafe |-> FALSE],
    [op |-> "raw_send", bytes |-> <<>>, unsafe |-> TRUE],
    [op |-> "raw_send", bytes |-> <<143>>, unsafe |-> FALSE] }
=============================================================================
