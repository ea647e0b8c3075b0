---------------------------- MODULE MCSessionRun ----------------------------
(* Instances of SessionRun for TLC. *)
EXTENDS SessionRun

CONSTANTS i1, i2, c1, c2, f1, f2

=============================================================================
