--------------------------- MODULE MCInputDaemon ----------------------------
(* A small instance of InputDaemon: two ports, with keyboards of different *)
(* models.                                                                 *)
EXTENDS InputDaemon, TLC

CONSTANTS p1, p2

Workers == 1 .. MaxAddresses
TwoModels == p1 :> 1 @@ p2 :> 2
=============================================================================
