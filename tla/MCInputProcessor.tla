-------------------------- MODULE MCInputProcessor --------------------------
(* A small instance of InputProcessor: one modifier, a letter, two codes   *)
(* that share a keycode and one that has none.                             *)
EXTENDS InputProcessor

CONSTANTS letter, backslash, non_us_hash, error_roll_over, KEY_A, KEY_BACKSLASH

Keymap ==
  [c \in {letter, backslash, non_us_hash, error_roll_over} |->
     CASE c = letter -> KEY_A
       [] c \in {backslash, non_us_hash} -> KEY_BACKSLASH
       [] c = error_roll_over -> Unmapped]
=============================================================================
