---------------------------- MODULE MCReadPairing ---------------------------
(* Small instances of ReadPairing for TLC.                                 *)
EXTENDS ReadPairing, TLC

CONSTANTS c1, c2, c3

ClientSymmetry == Permutations({c1, c2})
=============================================================================
