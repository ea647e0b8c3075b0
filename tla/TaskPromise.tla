---------------------------- MODULE TaskPromise ----------------------------
(***************************************************************************)
(* What the durable task machine promises, without processes, leases,      *)
(* tokens or crashes: every task the store has accepted ends at most once, *)
(* either done with its effect in the durable memory exactly once, or dead *)
(* with no effect at all.  Only a workflow task may lose a product that a  *)
(* model has already produced for it; a semantic task keeps it.            *)
(***************************************************************************)
EXTENDS Naturals

CONSTANT Tasks

VARIABLES
  phase,     \* of each task: unknown, accepted, judged, done or dead
  workflow,  \* the task is of a workflow kind
  effects    \* times its effect is part of the durable memory

vars == <<phase, workflow, effects>>

Init ==
  /\ phase = [id \in Tasks |-> "unknown"]
  /\ workflow \in [Tasks -> BOOLEAN]
  /\ effects = [id \in Tasks |-> 0]

\* The moves of one task.
Accept(id) == phase[id] = "unknown" /\ phase'[id] = "accepted"
Judge(id) == phase[id] = "accepted" /\ phase'[id] = "judged"
Reopen(id) == phase[id] = "judged" /\ workflow[id] /\ phase'[id] = "accepted"
Finish(id) == phase[id] = "judged" /\ phase'[id] = "done"
Die(id) == phase[id] \in {"accepted", "judged"} /\ phase'[id] = "dead"
Move(id) == Accept(id) \/ Judge(id) \/ Reopen(id) \/ Finish(id) \/ Die(id)

\* A step moves any number of tasks; only finishing one touches the memory,
\* and the kind of a task is settled when it is accepted.
Next ==
  \A id \in Tasks :
    /\ phase'[id] = phase[id] \/ Move(id)
    /\ effects'[id] = IF Finish(id) THEN effects[id] + 1 ELSE effects[id]
    /\ workflow'[id] = workflow[id] \/ Accept(id)

Spec == Init /\ [][Next]_vars
=============================================================================
