---------------------------- MODULE MCTaskStore ----------------------------
(* Instances of TaskStore for TLC. *)
EXTENDS TaskStore, TLC

CONSTANTS p1, p2, e1, e2, e3,
          conflict, maintenance, feedback, hauler, selector, recall

\* Two workflow signals, which may be merged, and an investigation's.
Flow == (e1 :> hauler) @@ (e2 :> hauler) @@ (e3 :> recall)
\* One row that either loop may be given.
Either == (e1 :> conflict) @@ (e2 :> hauler)
OneHauler == e1 :> hauler

Symm == Permutations(Instances)
=============================================================================
