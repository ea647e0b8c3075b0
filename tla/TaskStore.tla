----------------------------- MODULE TaskStore -----------------------------
(***************************************************************************)
(* The durable task machine of the memory sidecar (store/tasks.py) and the *)
(* two background loops that drive it (dispatch/worker.py): the semantic   *)
(* loop run_semantic_tasks and the workflow loop DispatchWorker.           *)
(*                                                                         *)
(* Several sidecar processes may hold the same state directory open for a  *)
(* while (a restarted process beside one that has not died yet); each has  *)
(* its own copy of the engine in memory and the revision it was loaded at. *)
(* Tasks, their products and the engine checkpoint share one SQLite file;  *)
(* every transaction of it is one action here.                             *)
(*                                                                         *)
(* Time is abstracted to the two comparisons the code makes with it: a     *)
(* lease that is still running (field live) may run out at any moment and  *)
(* a backoff (field due) may elapse at any moment.  The engine state is    *)
(* abstracted to how many times the effect of each task is part of it.     *)
(*                                                                         *)
(* A definition whose name ends in _Faulty is a plausible wrong version of *)
(* the definition after it.  Nothing uses it: it is there to be put in its *)
(* place, to see that the properties notice the mistake.                   *)
(***************************************************************************)
EXTENDS Naturals, FiniteSets

CONSTANTS
  Families,      \* the background loops each process runs
  Instances,     \* sidecar processes that open the state directory
  Events,        \* signals: each is emitted at most once
  KeyOf,         \* the (kind, task_key) under which a signal is enqueued
  SemanticKeys,  \* keys of the kinds run_semantic_tasks consumes
  WorkflowKeys,  \* keys of the kinds DispatchWorker consumes
  OtherKeys,     \* keys of kinds no loop here consumes: those of module
                 \* Investigation, and rows a start under the other pipeline
                 \* left behind; all they do here is take up room
  Unkeyed,       \* kinds emitted without a task key: never merged
  Replacing,     \* kinds whose merge keeps only the newer payload
  Capacity,      \* TaskStore.capacity
  MaxAttempts,   \* KindPolicy.max_attempts
  MaxApply,      \* KindPolicy.max_apply_attempts
  MaxTasks,      \* bound: rows of the table
  MaxRevision    \* bound: checkpoint revisions that Save may produce

Workers == Instances \X Families
Keys == SemanticKeys \cup WorkflowKeys \cup OtherKeys
TaskIds == 1 .. MaxTasks

ASSUME ConstantsAssumption ==
  /\ Families \subseteq {"semantic", "workflow"}
  /\ KeyOf \in [Events -> Keys]
  /\ Keys # {} /\ SemanticKeys \cap WorkflowKeys = {}
  /\ OtherKeys \cap (SemanticKeys \cup WorkflowKeys) = {}
  /\ Unkeyed \subseteq Keys /\ Replacing \subseteq Keys
  /\ Capacity \in Nat \ {0}
  /\ MaxAttempts \in Nat \ {0} /\ MaxApply \in Nat \ {0}
  /\ MaxTasks \in Nat /\ MaxRevision \in Nat

VARIABLES
  task,      \* the tasks table, by id
  lastId,    \* the last row id handed out
  accepted,  \* signals that some committed transaction enqueued
  revision,  \* revision of the durable checkpoint, 0 when there is none
  disk,      \* engine state in the durable checkpoint
  up,        \* the process is running
  fault,     \* service._checkpoint_fault
  rev,       \* service._checkpoint_revision
  mem,       \* engine state in the process
  pc,        \* where each background loop stands
  batch,     \* rows listed and not reached yet: <<id, version>>
  claim      \* the row each loop holds, as returned by claim()

table == <<task, lastId, accepted>>
checkpoint == <<revision, disk>>
service == <<up, fault, rev, mem>>
loops == <<pc, batch, claim>>
vars == <<task, lastId, accepted, revision, disk, up, fault, rev, mem,
          pc, batch, claim>>

NoResult == [input |-> {}, seal |-> 0]
NoClaim == [id |-> 0, version |-> 0, token |-> 0, input |-> {}]

States == {"none", "pending", "running", "ready", "applying", "done", "dead"}
Results == [input : SUBSET Events, seal : Nat]
Rows == [state : States, key : Keys, payload : SUBSET Events, version : Nat,
         attempts : Nat, applies : Nat, token : Nat, live : BOOLEAN,
         due : BOOLEAN, seal : Nat, result : Results]
EngineStates == [TaskIds -> Nat]
Steps == {"idle", "list", "batch", "model", "call", "reclaim", "apply"}

TypeOK ==
  /\ task \in [TaskIds -> Rows]
  /\ lastId \in 0 .. MaxTasks
  /\ accepted \subseteq Events
  /\ revision \in Nat
  /\ disk \in EngineStates
  /\ up \in [Instances -> BOOLEAN]
  /\ fault \in [Instances -> BOOLEAN]
  /\ rev \in [Instances -> Nat]
  /\ mem \in [Instances -> EngineStates]
  /\ pc \in [Workers -> Steps]
  /\ batch \in [Workers -> SUBSET (TaskIds \X Nat)]
  /\ claim \in [Workers -> [id : 0 .. MaxTasks, version : Nat, token : Nat,
                            input : SUBSET Events]]

Process(w) == w[1]
Family(w) == w[2]
FamilyKeys(w) == IF Family(w) = "semantic" THEN SemanticKeys ELSE WorkflowKeys

Blank == [state |-> "none", key |-> CHOOSE k \in Keys : TRUE, payload |-> {},
          version |-> 0, attempts |-> 0, applies |-> 0, token |-> 0,
          live |-> FALSE, due |-> FALSE, seal |-> 0, result |-> NoResult]

Init ==
  /\ task = [id \in TaskIds |-> Blank]
  /\ lastId = 0
  /\ accepted = {}
  /\ revision = 0
  /\ disk = [id \in TaskIds |-> 0]
  /\ up = [i \in Instances |-> FALSE]
  /\ fault = [i \in Instances |-> FALSE]
  /\ rev = [i \in Instances |-> 0]
  /\ mem = [i \in Instances |-> [id \in TaskIds |-> 0]]
  /\ pc = [w \in Workers |-> "idle"]
  /\ batch = [w \in Workers |-> {}]
  /\ claim = [w \in Workers |-> NoClaim]

-----------------------------------------------------------------------------
(* The tasks table                                                         *)

Unfinished == {"pending", "running", "ready", "applying"}
Open(t) == {id \in TaskIds : t[id].state \in Unfinished}

\* A claimed row still takes in new signals.
Mergeable_Faulty(t, k) ==
  {id \in Open(t) : k \notin Unkeyed /\ t[id].key = k}

\* Rows a new signal under key k is merged into: pending and never claimed.
Mergeable(t, k) ==
  {id \in TaskIds : /\ k \notin Unkeyed
                    /\ t[id].key = k
                    /\ t[id].state = "pending"
                    /\ t[id].attempts = 0}

QueueFull_Faulty(t, e) ==
  Mergeable(t, KeyOf[e]) = {} /\ Cardinality(Open(t)) > Capacity

QueueFull(t, e) ==
  Mergeable(t, KeyOf[e]) = {} /\ Cardinality(Open(t)) >= Capacity

Merged_Faulty(k, old, new) == new

Merged(k, old, new) == IF k \in Replacing THEN new ELSE old \cup new

\* _enqueue, inside the caller's transaction: t is the table so far.
Enqueue(t, e) ==
  LET k == KeyOf[e] IN
  /\ ~QueueFull(t, e)
  /\ accepted' = accepted \cup {e}
  /\ \/ \E id \in Mergeable(t, k) :
          /\ task' = [t EXCEPT ![id].payload = Merged(k, @, {e}),
                               ![id].version = @ + 1]
          /\ UNCHANGED lastId
     \/ /\ Mergeable(t, k) = {}
        /\ lastId < MaxTasks
        /\ lastId' = lastId + 1
        /\ task' = [t EXCEPT ![lastId + 1] =
                      [Blank EXCEPT !.state = "pending", !.key = k,
                                    !.payload = {e}, !.due = TRUE]]

\* The row and the version are still the ones that were listed, and due.
Claimable(id, version) ==
  /\ task[id].state \in {"pending", "ready"}
  /\ task[id].due
  /\ task[id].version = version

\* claim(): a token is unique to the claim, so the number of the claim is one.
ClaimRow(w, id) ==
  LET row == task[id]
      token == row.attempts + row.applies + 1
      applying == row.state = "ready"
  IN /\ task' = [task EXCEPT ![id].state = IF applying THEN "applying" ELSE "running",
                             ![id].attempts = IF applying THEN @ ELSE @ + 1,
                             ![id].applies = IF applying THEN @ + 1 ELSE @,
                             ![id].token = token,
                             ![id].live = TRUE]
     /\ claim' = [claim EXCEPT ![w] = [id |-> id, version |-> row.version,
                                       token |-> token, input |-> row.payload]]
     /\ pc' = [pc EXCEPT ![w] = IF applying THEN "apply" ELSE "model"]

\* Any live claim of the row will do.
Owned_Faulty(w, states) ==
  /\ claim[w].id \in TaskIds
  /\ task[claim[w].id].state \in states
  /\ task[claim[w].id].live

\* _owned(): the claim is current and its lease has not run out.
Owned(w, states) ==
  LET row == task[claim[w].id] IN
  /\ claim[w].id \in TaskIds
  /\ row.state \in states
  /\ row.token = claim[w].token
  /\ row.live

Exhausted(row) ==
  IF row.state = "applying" THEN row.applies >= MaxApply
                            ELSE row.attempts >= MaxAttempts

\* Retrying starts the count of attempts again.
Retried_Faulty(row, remodel) ==
  [row EXCEPT !.state = IF row.state = "applying" THEN "ready" ELSE "pending",
              !.attempts = IF row.state = "applying" THEN @ ELSE 0,
              !.token = 0, !.live = FALSE, !.due = FALSE]

\* The row after retry(..., retry_model = remodel) by its owner.
Retried(row, remodel) ==
  LET dead == Exhausted(row) IN
  [row EXCEPT !.state = IF dead THEN "dead"
                        ELSE IF row.state = "applying" /\ ~remodel THEN "ready"
                        ELSE "pending",
              !.result = IF remodel /\ ~dead THEN NoResult ELSE @,
              !.token = 0, !.live = FALSE, !.due = FALSE]

\* A lost claim is wound up only when the row has used up what it had.
Expired_Faulty(row) ==
  IF row.state \in {"running", "applying"} /\ ~row.live /\ Exhausted(row)
  THEN [row EXCEPT !.state = "dead", !.token = 0, !.due = TRUE]
  ELSE row

\* A row after the first half of recover_expired: expired leases.
Expired(row) ==
  IF row.state \in {"running", "applying"} /\ ~row.live
  THEN [row EXCEPT !.state = IF Exhausted(row) THEN "dead"
                             ELSE IF row.state = "applying" THEN "ready"
                             ELSE "pending",
                   !.token = 0, !.due = TRUE]
  ELSE row

\* With the name of the policy as the state.
RecoveredState_Faulty(row) ==
  IF Expired(row).state = "dead" THEN [row EXCEPT !.state = "requeue"] ELSE Expired(row)

\* ... and after the second half: rows that have used up their attempts.
Recovered(row) ==
  LET r == Expired(row) IN
  IF \/ r.state = "pending" /\ r.attempts >= MaxAttempts
     \/ r.state = "ready" /\ r.applies >= MaxApply
  THEN [r EXCEPT !.state = "dead"]
  ELSE r

-----------------------------------------------------------------------------
(* A background loop: one pass over the due rows of its kinds              *)

Healthy(w) == up[Process(w)] /\ ~fault[Process(w)]

\* The semantic loop is only entered, and only claims, on a healthy service;
\* DispatchWorker.process_once does not look at the fault.
MayClaim(w) == up[Process(w)] /\ (Family(w) = "semantic" => ~fault[Process(w)])

\* The loop is through with its row.
NextItem(w) ==
  /\ pc' = [pc EXCEPT ![w] = "batch"]
  /\ claim' = [claim EXCEPT ![w] = NoClaim]

\* recover_expired(kinds)
RecoverExpired(w) ==
  /\ MayClaim(w)
  /\ pc[w] = "idle"
  /\ task' = [id \in TaskIds |-> IF task[id].key \in FamilyKeys(w)
                                 THEN Recovered(task[id]) ELSE task[id]]
  /\ pc' = [pc EXCEPT ![w] = "list"]
  /\ UNCHANGED <<lastId, accepted, checkpoint, service, batch, claim>>

\* list_tasks(states, kinds, due_before)
List(w) ==
  /\ up[Process(w)]
  /\ pc[w] = "list"
  /\ batch' = [batch EXCEPT ![w] =
       {<<id, task[id].version>> : id \in
          {id \in TaskIds : /\ task[id].key \in FamilyKeys(w)
                            /\ Claimable(id, task[id].version)}}]
  /\ pc' = [pc EXCEPT ![w] = "batch"]
  /\ UNCHANGED <<table, checkpoint, service, claim>>

\* The next listed row, lowest id first, is claimed or, when it is no longer
\* as listed, passed over.
ClaimNext(w) ==
  /\ MayClaim(w)
  /\ pc[w] = "batch"
  /\ \E item \in batch[w] :
       /\ \A other \in batch[w] : item[1] <= other[1]
       /\ batch' = [batch EXCEPT ![w] = @ \ {item}]
       /\ \/ /\ Claimable(item[1], item[2])
             /\ ClaimRow(w, item[1])
          \/ /\ ~Claimable(item[1], item[2])
             /\ UNCHANGED <<task, claim, pc>>
  /\ UNCHANGED <<lastId, accepted, checkpoint, service>>

\* The pass is over, or the semantic loop found the service faulted.
EndPass(w) ==
  /\ up[Process(w)]
  /\ pc[w] = "batch"
  /\ batch[w] = {} \/ ~MayClaim(w)
  /\ batch' = [batch EXCEPT ![w] = {}]
  /\ pc' = [pc EXCEPT ![w] = "idle"]
  /\ UNCHANGED <<table, checkpoint, service, claim>>

\* store_call_context: the input of the coming model call is sealed.
SealContext(w) ==
  /\ up[Process(w)]
  /\ pc[w] = "model"
  /\ Owned(w, {"running"})
  /\ task' = [task EXCEPT ![claim[w].id].seal = claim[w].token]
  /\ pc' = [pc EXCEPT ![w] = "call"]
  /\ UNCHANGED <<lastId, accepted, checkpoint, service, batch, claim>>

\* The model has answered, outside every lock; store_result.
StoreResult(w) ==
  /\ up[Process(w)]
  /\ pc[w] = "call"
  /\ Owned(w, {"running"})
  /\ task' = [task EXCEPT ![claim[w].id].result =
                            [input |-> claim[w].input, seal |-> claim[w].token],
                          ![claim[w].id].state = "ready",
                          ![claim[w].id].token = 0,
                          ![claim[w].id].live = FALSE,
                          ![claim[w].id].due = TRUE]
  /\ pc' = [pc EXCEPT ![w] = "reclaim"]
  /\ UNCHANGED <<lastId, accepted, checkpoint, service, batch, claim>>

\* The second claim of the pass, for the application of the stored product.
Reclaim(w) ==
  /\ MayClaim(w)
  /\ pc[w] = "reclaim"
  /\ IF Claimable(claim[w].id, claim[w].version)
     THEN ClaimRow(w, claim[w].id)
     ELSE NextItem(w) /\ UNCHANGED task
  /\ UNCHANGED <<lastId, accepted, checkpoint, service, batch>>

\* _ensure_healthy raises before the second claim; the retry with the spent
\* token finds no lease and changes nothing.
ReclaimRefused(w) ==
  /\ up[Process(w)] /\ ~MayClaim(w)
  /\ pc[w] = "reclaim"
  /\ NextItem(w)
  /\ UNCHANGED <<table, checkpoint, service, batch>>

\* Without the check of the token; and reopening the round in both loops.
RetryUnowned_Faulty(w) ==
  /\ task' = [task EXCEPT ![claim[w].id] = Retried(@, FALSE)]
  /\ NextItem(w)
RetryRemodels_Faulty(w) ==
  /\ task' = IF Owned(w, {"running", "applying"})
             THEN [task EXCEPT ![claim[w].id] = Retried(@, TRUE)]
             ELSE task
  /\ NextItem(w)

\* The handler of every exception of the pass: retry() by the token of the
\* claim.  TaskLeaseLost is swallowed.  A ValueError reopens the whole round
\* in the workflow loop; the semantic loop never does that.
Retry(w) ==
  /\ \E remodel \in {FALSE, Family(w) = "workflow"} :
       task' = IF Owned(w, {"running", "applying"})
               THEN [task EXCEPT ![claim[w].id] = Retried(@, remodel)]
               ELSE task
  /\ NextItem(w)

\* Building the payload, sealing it, the model call or store_result fails.
ModelFails(w) ==
  /\ up[Process(w)]
  /\ pc[w] \in {"model", "call"}
  /\ Retry(w)
  /\ UNCHANGED <<lastId, accepted, checkpoint, service, batch>>

\* complete(): effect, follow-up signal, checkpoint, receipt and the state
\* done in one transaction.  The slot of the finished row is free before the
\* follow-up is enqueued.  When the commit happens but its acknowledgement is
\* lost, the memory is rolled back and the service stops itself.
Complete(w) ==
  LET i == Process(w)
      id == claim[w].id
      done == [task EXCEPT ![id].state = "done", ![id].token = 0,
                           ![id].live = FALSE]
      effect == [mem[i] EXCEPT ![id] = @ + 1]
  IN
  /\ Healthy(w)
  /\ pc[w] = "apply"
  /\ Owned(w, {"applying"})
  /\ task[id].result # NoResult
  /\ rev[i] = revision
  /\ \/ task' = done /\ UNCHANGED <<lastId, accepted>>
     \/ \E e \in Events \ accepted : Enqueue(done, e)
  /\ revision' = revision + 1
  /\ disk' = effect
  /\ \E acknowledged \in BOOLEAN :
       IF acknowledged
       THEN /\ rev' = [rev EXCEPT ![i] = revision + 1]
            /\ mem' = [mem EXCEPT ![i] = effect]
            /\ UNCHANGED fault
       ELSE /\ fault' = [fault EXCEPT ![i] = TRUE]
            /\ UNCHANGED <<rev, mem>>
  /\ NextItem(w)
  /\ UNCHANGED <<up, batch>>

\* Preparing or applying the effect fails (bad product, stale checkpoint, lost
\* lease, full queue, faulted service): the transaction and the memory are
\* rolled back, a checkpoint that has moved on faults the service, and the
\* row is retried.
ApplyFails(w) ==
  LET i == Process(w) IN
  /\ up[i]
  /\ pc[w] = "apply"
  /\ fault' \in {fault, [fault EXCEPT ![i] = @ \/ rev[i] # revision]}
  /\ Retry(w)
  /\ UNCHANGED <<lastId, accepted, checkpoint, up, rev, mem, batch>>

-----------------------------------------------------------------------------
(* The service around the loops                                            *)

\* The signal is committed without the checkpoint.
AcceptSignal_Faulty(i, e) ==
  /\ up[i] /\ ~fault[i]
  /\ e \notin accepted
  /\ Enqueue(task, e)
  /\ UNCHANGED <<checkpoint, service, loops>>

\* effect_transaction or apply_unit: an engine change that emits a signal.
AcceptSignal(i, e) ==
  /\ up[i] /\ ~fault[i]
  /\ rev[i] = revision
  /\ e \notin accepted
  /\ Enqueue(task, e)
  /\ revision' = revision + 1
  /\ disk' = mem[i]
  /\ \/ rev' = [rev EXCEPT ![i] = revision + 1] /\ UNCHANGED fault
     \/ fault' = [fault EXCEPT ![i] = TRUE] /\ UNCHANGED rev
  /\ UNCHANGED <<up, mem, loops>>

\* Without comparing the revision.
Save_Faulty(i) ==
  /\ up[i] /\ ~fault[i]
  /\ revision \in 1 .. MaxRevision - 1
  /\ revision' = revision + 1
  /\ disk' = mem[i]
  /\ rev' = [rev EXCEPT ![i] = revision + 1]
  /\ UNCHANGED <<table, up, fault, mem, loops>>

\* lifecycle.save
Save(i) ==
  /\ up[i] /\ ~fault[i]
  /\ rev[i] = revision
  /\ revision \in 1 .. MaxRevision - 1
  /\ revision' = revision + 1
  /\ disk' = mem[i]
  /\ \/ rev' = [rev EXCEPT ![i] = revision + 1] /\ UNCHANGED fault
     \/ fault' = [fault EXCEPT ![i] = TRUE] /\ UNCHANGED rev
  /\ UNCHANGED <<table, up, mem, loops>>

\* Any of the two by a process that another one has overtaken.
StaleCommit(i) ==
  /\ up[i]
  /\ rev[i] # revision
  /\ fault' = [fault EXCEPT ![i] = TRUE]
  /\ UNCHANGED <<table, checkpoint, up, rev, mem, loops>>

\* checkpoint() refuses to start beside tasks that were claimed, or receipts
\* that were written, without a durable checkpoint.
StartRefused == revision = 0 /\ \E id \in TaskIds : task[id].attempts > 0

\* The snapshot file is read instead of the checkpoint.
Start_Faulty(i) ==
  /\ ~up[i]
  /\ up' = [up EXCEPT ![i] = TRUE]
  /\ rev' = [rev EXCEPT ![i] = revision]
  /\ UNCHANGED <<table, checkpoint, fault, mem, loops>>

\* recover_or_init
Start(i) ==
  /\ ~up[i]
  /\ ~StartRefused
  /\ up' = [up EXCEPT ![i] = TRUE]
  /\ rev' = [rev EXCEPT ![i] = revision]
  /\ mem' = [mem EXCEPT ![i] = disk]
  /\ UNCHANGED <<table, checkpoint, fault, loops>>

\* The process exits between any two transactions.
Crash(i) ==
  /\ up[i]
  /\ up' = [up EXCEPT ![i] = FALSE]
  /\ pc' = [w \in Workers |-> IF Process(w) = i THEN "idle" ELSE pc[w]]
  /\ batch' = [w \in Workers |-> IF Process(w) = i THEN {} ELSE batch[w]]
  /\ claim' = [w \in Workers |-> IF Process(w) = i THEN NoClaim ELSE claim[w]]
  /\ fault' = [fault EXCEPT ![i] = FALSE]
  /\ rev' = [rev EXCEPT ![i] = 0]
  /\ mem' = [mem EXCEPT ![i] = [id \in TaskIds |-> 0]]
  /\ UNCHANGED <<table, checkpoint>>

LeaseRunsOut(id) ==
  /\ task[id].live
  /\ task' = [task EXCEPT ![id].live = FALSE]
  /\ UNCHANGED <<lastId, accepted, checkpoint, service, loops>>

BackoffElapses(id) ==
  /\ task[id].state \in {"pending", "ready"} /\ ~task[id].due
  /\ task' = [task EXCEPT ![id].due = TRUE]
  /\ UNCHANGED <<lastId, accepted, checkpoint, service, loops>>

LoopStep(w) ==
  \/ RecoverExpired(w) \/ List(w) \/ ClaimNext(w) \/ EndPass(w)
  \/ SealContext(w) \/ StoreResult(w) \/ Reclaim(w) \/ ReclaimRefused(w)
  \/ ModelFails(w) \/ Complete(w) \/ ApplyFails(w)

Next ==
  \/ \E w \in Workers : LoopStep(w)
  \/ \E i \in Instances :
       \/ \E e \in Events : AcceptSignal(i, e)
       \/ Save(i) \/ StaleCommit(i) \/ Start(i) \/ Crash(i)
  \/ \E id \in TaskIds : LeaseRunsOut(id) \/ BackoffElapses(id)

Spec == Init /\ [][Next]_vars

-----------------------------------------------------------------------------
(* Safety                                                                  *)

\* The durable engine state holds the effect of a task exactly once when the
\* task is done and not at all otherwise, whatever processes crashed, lost an
\* acknowledgement or were overtaken by another process: complete() commits
\* effect, checkpoint and state together and only at the current revision.
EffectExactlyOnce ==
  \A id \in TaskIds : disk[id] = IF task[id].state = "done" THEN 1 ELSE 0

\* A process whose revision is the durable one holds the durable engine state:
\* the rollback of _rollback_effect is exact and a checkpoint is never written
\* from a memory that lags behind it.
CoherentMemory ==
  \A i \in Instances : up[i] /\ rev[i] = revision => mem[i] = disk

\* A stored product was computed from the payload the row still has: no signal
\* is merged into a row after a model was asked about it.
ProductCoversPayload ==
  \A id \in TaskIds :
    task[id].result # NoResult => task[id].result.input = task[id].payload

\* The latest sealed context of a row with a product is the context of the very
\* model call that produced it, which is what call_context() hands to the
\* validators; a late call can neither seal nor store.
ProductMatchesSeal ==
  \A id \in TaskIds :
    task[id].result # NoResult => task[id].result.seal = task[id].seal

\* No two never-claimed rows carry the same key (the partial unique index
\* tasks_mergeable would turn a second one into an error).
OneUnclaimedPerKey ==
  \A k \in Keys \ Unkeyed : Cardinality(Mergeable(task, k)) <= 1

\* Every accepted signal is in the payload of exactly one row, except those a
\* replacing merge has superseded.
SignalsKept ==
  \A e \in accepted :
    Cardinality({id \in TaskIds : e \in task[id].payload})
      \in (IF KeyOf[e] \in Replacing THEN 0 .. 1 ELSE {1})

\* The queue never holds more unfinished rows than its capacity, although a
\* completing task enqueues follow-ups.
WithinCapacity == Cardinality(Open(task)) <= Capacity

\* The state directory can always be opened again: no crash leaves a claimed
\* task behind without the checkpoint that start-up insists on.
NeverBricked == ~StartRefused

\* A loop that no longer owns its row changes neither the table nor the
\* checkpoint: a late answer is dropped.
LateLoopHarmless ==
  [][\A w \in Workers :
       /\ pc[w] \in {"model", "call", "apply"}
       /\ ~Owned(w, {"running", "applying"})
       /\ pc'[w] # pc[w] /\ up'[Process(w)]
       => UNCHANGED <<task, checkpoint>>]_vars

\* The task machine as its callers see it (module TaskPromise): the phase of a
\* row is told by its state and by whether it has a product.
Phase(row) ==
  CASE row.state = "none" -> "unknown"
    [] row.state \in {"done", "dead"} -> row.state
    [] row.state \in Unfinished /\ row.result = NoResult -> "accepted"
    [] OTHER -> "judged"

Promise == INSTANCE TaskPromise WITH
  Tasks <- TaskIds,
  phase <- [id \in TaskIds |-> Phase(task[id])],
  workflow <- [id \in TaskIds |-> task[id].key \in WorkflowKeys],
  effects <- disk

\* Every row lives through its phases once and in order, its effect becomes
\* durable in the very step that finishes it, and a semantic row never loses
\* the product stored for it, whatever the processes do or fail to do.
KeepsPromise == Promise!Spec

\* durable-tasks.md:21 draws the dead state as "exhausted, product and error
\* kept": the product of the last model call a row may have is not thrown away,
\* for no other call can replace it and the row can only die without one.
ExhaustedKeepsProduct ==
  [][\A id \in TaskIds :
       /\ task[id].result # NoResult
       /\ task[id].attempts >= MaxAttempts
       => task'[id].result # NoResult]_vars

-----------------------------------------------------------------------------
(* Liveness                                                                *)

\* The loops run, a process is started when it is down and restarted when it
\* has faulted (durable-tasks.md asks the operator for that), and time passes.
FairSpec ==
  /\ Spec
  /\ \A w \in Workers : WF_vars(LoopStep(w))
  /\ \A i \in Instances : WF_vars(Start(i)) /\ WF_vars(fault[i] /\ Crash(i))
  /\ \A id \in TaskIds : WF_vars(LeaseRunsOut(id)) /\ WF_vars(BackoffElapses(id))

HealthyCrash == \E i \in Instances : ~fault[i] /\ Crash(i)

\* The row waits for nothing, and has not been asked of the model, nor applied,
\* more often than its policy allows.
Settled(row) ==
  /\ row.state \notin Unfinished
  /\ row.attempts <= MaxAttempts /\ row.applies <= MaxApply

\* Unless the process is killed over and over, every accepted signal and every
\* follow-up of a kind the loops consume is dealt with, within its allowance:
\* time and again no such row is claimed, ready or pending (and done and dead
\* rows never wake), although claims are lost, models fail and commits go
\* unacknowledged, after which a row is retried, modelled anew or wound up.
EverySignalSettles ==
  \/ []<><<HealthyCrash>>_vars
  \/ []<>(\A id \in TaskIds : task[id].key \in OtherKeys \/ Settled(task[id]))
=============================================================================
