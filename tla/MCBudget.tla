------------------------------ MODULE MCBudget ------------------------------
(* Instances of Budget for TLC. *)
EXTENDS Budget, TLC

CONSTANTS s1, s2, t1, t2, t3

Symm == Permutations(Signals) \cup Permutations(Threads)
=============================================================================
