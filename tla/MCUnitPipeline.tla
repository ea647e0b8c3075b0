--------------------------- MODULE MCUnitPipeline ---------------------------
(* Instances of UnitPipeline for TLC. *)
EXTENDS UnitPipeline, TLC

\* Processes are interchangeable; turns are not (one asks for a reviewer).
Symm == Permutations(Instances)
=============================================================================
