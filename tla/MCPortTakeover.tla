--------------------------- MODULE MCPortTakeover ---------------------------
(* A small instance of PortTakeover: the service of systemd, which is       *)
(* restarted at most twice, and two drivers started by hand.                *)
EXTENDS PortTakeover

CONSTANTS s1, s2, s3, h1, h2

Restarts == [p \in {s1, s2} |-> IF p = s1 THEN s2 ELSE s3]
=============================================================================
