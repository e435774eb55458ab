--------------------------- MODULE MCDriverService --------------------------
(* Small instances of DriverService for TLC.                               *)
EXTENDS DriverServiceProperties, TLC

CONSTANTS o1, o2

OpenerSymmetry == Permutations({o1, o2})
=============================================================================
