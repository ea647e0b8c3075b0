--------------------------- MODULE SessionPromise ---------------------------
(***************************************************************************)
(* What an agent session promises, without callers, fibers, interrupts or  *)
(* crashes.  An input that was admitted is shown to the model at most once *)
(* and in its turn: of the inputs with the same delivery, those admitted   *)
(* before it come first.  The model is asked only when every tool call so  *)
(* far has an outcome, new calls appear only in its answer, and an outcome *)
(* never changes.                                                          *)
(***************************************************************************)
EXTENDS Naturals

CONSTANTS Inputs, Calls

VARIABLES
  place,     \* of each input: its place in the order of admission, 0 before
  delivery,  \* how it asked to be delivered: steer or queue
  shown,     \* inputs that are part of the conversation
  call,      \* of each tool call: none, running, success or failed
  asking     \* a request to the model is being answered

vars == <<place, delivery, shown, call, asking>>

Init ==
  /\ place = [i \in Inputs |-> 0]
  /\ delivery \in [Inputs -> {"steer", "queue"}]
  /\ shown = {}
  /\ call = [t \in Calls |-> "none"]
  /\ asking = FALSE

Admit(i) ==
  /\ place[i] = 0
  /\ place'[i] \in Nat
  /\ \A j \in Inputs : place[j] < place'[i]
  /\ \A j \in Inputs \ {i} : /\ place'[j] = place[j]
                            /\ delivery'[j] = delivery[j]
  /\ delivery'[i] \in {"steer", "queue"}
  /\ UNCHANGED <<shown, call, asking>>

Show(i) ==
  /\ place[i] > 0 /\ i \notin shown
  /\ \A j \in Inputs :
       /\ delivery[j] = delivery[i]
       /\ place[j] > 0
       /\ place[j] < place[i]
       => j \in shown
  /\ shown' = shown \cup {i}
  /\ UNCHANGED <<place, delivery, call, asking>>

Ask ==
  /\ ~asking /\ asking'
  /\ \A t \in Calls : call[t] # "running"
  /\ UNCHANGED <<place, delivery, shown, call>>

\* Any number of calls move at once; none appears outside an answer.
Work ==
  /\ \A t \in Calls :
       \/ call'[t] = call[t]
       \/ call[t] = "none" /\ asking /\ call'[t] \in {"running", "failed"}
       \/ call[t] = "running" /\ call'[t] \in {"success", "failed"}
  /\ call' \in [Calls -> {"none", "running", "success", "failed"}]
  /\ asking' \in {asking, FALSE}
  /\ UNCHANGED <<place, delivery, shown>>

Next == (\E i \in Inputs : Admit(i) \/ Show(i)) \/ Ask \/ Work

Spec == Init /\ [][Next]_vars
=============================================================================
