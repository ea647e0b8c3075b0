--------------------------- MODULE MCInvestigation ---------------------------
(* Instances of Investigation for TLC. *)
EXTENDS Investigation, TLC

CONSTANTS p1, p2, miss

\* Both signals ask the same question.
OneQuestion == [s \in Signals |-> miss]

Symm == Permutations(Instances)
=============================================================================
