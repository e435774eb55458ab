--------------------------- MODULE MCCommandPolicy --------------------------
(* Instances of CommandPolicy: keyboards of both families with fields       *)
(* missing, zero and small, and commands of every length and every command  *)
(* byte that the policy tells apart, with payloads around the bounds.       *)
EXTENDS CommandPolicy

Fields == {None, 0, 2}

\* A keyboard of each family, and magnetism told by either field.
Models ==
  {[name |-> name, magnetism |-> None, no_magnetic_switch |-> no, pid |-> 16405,
    command_overrides |-> [f \in {} |-> None], layer |-> layer, key_count |-> keys, fn_sys |-> fnSys] :
     name \in {"ry5088", "other"}, no \in BOOLEAN, layer \in Fields,
     keys \in {None, 2}, fnSys \in Fields}

\* Each command byte of either family's table, SET_FN, a magnetic write, and a
\* query; 0x0A and 0x0B are SET_KEYMATRIX and SET_MACRO in one family only.
CommandBytes == {1, 3, 4, 5, 8, 9, 10, 11, 16, 17, 19, 21, 27, 143}

Bytes   == {0, 1, 2, 3}
Macros  == {9, 10, 49, 50}
Configs == {<<0, 0, 4, 0>>, <<0, 4, 0, 0>>, <<1, 0, 4, 0>>, <<0, 0, 0, 0>>}

Payloads ==
  {<<>>}
  \cup {<<a>> : a \in Bytes}
  \cup {<<a, b>> : a, b \in Bytes \cup Macros}
  \cup {<<a, b, c>> : a, b, c \in Bytes}
  \cup {<<a, b, 0, 0, 0, l>> : a, b, l \in Bytes}
  \cup {<<a, b, 0, 0, 0, 0, 0>> \o config : a, b \in Bytes,
        config \in Configs \cup {<<0, 0, 4>>}}

ClientCommands == {<<>>} \cup {<<byte>> \o payload : byte \in CommandBytes, payload \in Payloads}
=============================================================================
