--------------------------- MODULE Investigation ---------------------------
(***************************************************************************)
(* The investigation worker of the memory sidecar (legacy/loop.py) over    *)
(* its rows of the durable task table (store/tasks.py), together with the  *)
(* tool calls of the model agent it waits for (service/operate.py) and the *)
(* other sidecar processes that may have the state directory open.         *)
(*                                                                         *)
(* Unlike a semantic or workflow task, whose effect is one transaction, an *)
(* investigation is a set of operations (proposals, verdicts, a            *)
(* diagnosis), each with a transaction and a receipt of its own.  The      *)
(* agent may have applied some of them through its tools before it         *)
(* answers, the product it answers with lists them again, and a product    *)
(* may have to be applied a second time.                                   *)
(*                                                                         *)
(* Time is abstracted to the comparisons the code makes with it: a lease   *)
(* may run out, a backoff elapse, a finished investigation stop being      *)
(* recent and the date change at any moment.  The revision of a process is *)
(* abstracted to its comparison with the durable one, the engine state to  *)
(* how many times each operation is part of it; the capacity of the queue  *)
(* is in module TaskStore.  A definition whose name ends in _Faulty is a   *)
(* plausible wrong version of the one after it, and nothing uses it.       *)
(***************************************************************************)
EXTENDS Naturals, FiniteSets, FiniteSetsExt

CONSTANTS
  Instances,    \* sidecar processes, each with one investigation worker
  Signals,      \* recall_miss and extract_due signals, told by their time t
  KeyOf,        \* the task key under which a signal is enqueued
  Ops,          \* operations of one investigation, in the order of _apply
  Verdicts,     \* the operations that may be refused as a CausalViolation
  DailyCap,     \* MemoryAgent.daily_cap
  MaxAttempts,  \* MemoryAgent.max_attempts
  MaxApply,     \* MemoryAgent.max_apply_attempts
  Finished,     \* rows that are done when the model begins
  MaxTasks,     \* bound: rows of the table
  MaxDay        \* bound: days that pass

TaskIds == 1 .. MaxTasks
Days == 1 .. MaxDay
Keys == {KeyOf[s] : s \in Signals}

ASSUME ConstantsAssumption ==
  /\ Signals \subseteq Nat \ {0} /\ Signals # {} /\ IsFiniteSet(Signals)
  /\ Ops \subseteq Nat \ {0} /\ IsFiniteSet(Ops)
  /\ Verdicts \subseteq Ops
  /\ DailyCap \in Nat
  /\ MaxAttempts \in Nat \ {0} /\ MaxApply \in Nat \ {0}
  /\ \E n \in 0 .. MaxTasks : Finished = 1 .. n
  /\ MaxTasks \in Nat /\ MaxDay \in Nat \ {0}

VARIABLES
  task,      \* the rows of the two kinds, by id
  receipts,  \* table operations: the operations of each row with a receipt
  emitted,   \* signals that were enqueued
  today,     \* the date
  runs,      \* table daily_runs
  disk,      \* engine state in the durable checkpoint
  up,        \* the process is running
  fault,     \* service._checkpoint_fault
  current,   \* service._checkpoint_revision is that of the durable checkpoint
  mem,       \* engine state in the process
  pc,        \* where the worker of the process stands
  batch,     \* rows listed and not reached yet: <<id, listed state>>
  look,      \* what _claim read before its transaction
  claim      \* the row the worker holds, the operations left to apply and
             \* (a history, for DoneMeansApplied) those this claim saw refused

table == <<task, receipts, emitted>>
calendar == <<today, runs>>
engine == <<disk, up, fault, current, mem>>
worker == <<pc, batch, look, claim>>
vars == <<task, receipts, emitted, today, runs, disk,
          up, fault, current, mem, pc, batch, look, claim>>

States == {"none", "pending", "running", "ready", "applying",
           "done", "dead", "skipped"}
Rows == [state : States, key : Keys, t : Nat, version : Nat, attempts : Nat,
         applies : Nat, token : Nat, live : BOOLEAN, due : BOOLEAN,
         dedupe : 0 .. MaxTasks, recent : BOOLEAN, before : Nat,
         product : SUBSET Ops]
EngineStates == [TaskIds -> [Ops -> Nat]]
NoEffects == [id \in TaskIds |-> [op \in Ops |-> 0]]
NoLook == [id |-> 0, version |-> 0, before |-> 0, day |-> 0]
NoClaim == [id |-> 0, token |-> 0, ops |-> {}, refused |-> {}]

TypeOK ==
  /\ task \in [TaskIds -> Rows]
  /\ receipts \in [TaskIds -> SUBSET Ops]
  /\ emitted \subseteq Signals
  /\ today \in Days
  /\ runs \in [Days -> Nat]
  /\ disk \in EngineStates
  /\ up \in [Instances -> BOOLEAN]
  /\ fault \in [Instances -> BOOLEAN]
  /\ current \in [Instances -> BOOLEAN]
  /\ mem \in [Instances -> EngineStates]
  /\ pc \in [Instances -> {"idle", "list", "batch", "claim", "model",
                           "store", "reclaim", "apply"}]
  /\ batch \in [Instances -> SUBSET (TaskIds \X {"pending", "ready"})]
  /\ look \in [Instances -> [id : 0 .. MaxTasks, version : Nat,
                             before : Nat, day : 0 .. MaxDay]]
  /\ claim \in [Instances -> [id : 0 .. MaxTasks, token : Nat,
                              ops : SUBSET Ops, refused : SUBSET Ops]]

Blank == [state |-> "none", key |-> CHOOSE k \in Keys : TRUE, t |-> 0,
          version |-> 0, attempts |-> 0, applies |-> 0, token |-> 0,
          live |-> FALSE, due |-> FALSE, dedupe |-> 0, recent |-> FALSE,
          before |-> 0, product |-> {}]

\* A row of an earlier day, whose product was empty.
Earlier == [Blank EXCEPT !.state = "done", !.attempts = 1, !.applies = 1,
                         !.before = 1, !.recent = TRUE]

Init ==
  /\ task = [id \in TaskIds |-> IF id \in Finished THEN Earlier ELSE Blank]
  /\ receipts = [id \in TaskIds |-> {}]
  /\ emitted = {}
  /\ today = 1
  /\ runs = [d \in Days |-> 0]
  /\ disk = NoEffects
  /\ up = [i \in Instances |-> FALSE]
  /\ fault = [i \in Instances |-> FALSE]
  /\ current = [i \in Instances |-> FALSE]
  /\ mem = [i \in Instances |-> NoEffects]
  /\ pc = [i \in Instances |-> "idle"]
  /\ batch = [i \in Instances |-> {}]
  /\ look = [i \in Instances |-> NoLook]
  /\ claim = [i \in Instances |-> NoClaim]

-----------------------------------------------------------------------------
(* The tasks table                                                         *)

Mergeable(k) ==
  {id \in TaskIds : /\ task[id].key = k
                    /\ task[id].state = "pending" /\ task[id].attempts = 0}

\* Rows of the key that are done; _enqueue remembers the latest of them (any
\* one here: finishing times are not kept).
Answered(k) == {id \in TaskIds : task[id].key = k /\ task[id].state = "done"}

\* The row the next insertion takes.
Fresh(id) ==
  /\ task[id].state = "none"
  /\ \A other \in TaskIds : other < id => task[other].state # "none"

\* _enqueue of a signal, which may come late: t never goes back.
Emit(i, s) ==
  LET k == KeyOf[s] IN
  /\ up[i] /\ ~fault[i]
  /\ s \notin emitted
  /\ emitted' = emitted \cup {s}
  /\ \/ \E id \in Mergeable(k) :
          task' = [task EXCEPT ![id].t = Max({@, s}), ![id].version = @ + 1]
     \/ /\ Mergeable(k) = {}
        /\ \E id \in TaskIds,
              dedupe \in IF Answered(k) = {} THEN {0} ELSE Answered(k) :
             /\ Fresh(id)
             /\ task' = [task EXCEPT ![id] =
                  [Blank EXCEPT !.state = "pending", !.key = k, !.t = s,
                                !.due = TRUE, !.dedupe = dedupe]]
  /\ UNCHANGED <<receipts, calendar, engine, worker>>

\* _owned(): the claim is current and its lease has not run out.
Owned(i, states) ==
  LET row == task[claim[i].id] IN
  /\ claim[i].id \in TaskIds
  /\ row.state \in states
  /\ row.token = claim[i].token
  /\ row.live

Exhausted(row) ==
  IF row.state = "applying" THEN row.applies >= MaxApply
                            ELSE row.attempts >= MaxAttempts

\* The row when its claim ends without success: retry(), or recover_expired
\* for an expired lease, which leaves next_run_at alone.
Released(row, due) ==
  [row EXCEPT !.state = IF Exhausted(row) THEN "dead"
                        ELSE IF row.state = "applying" THEN "ready"
                        ELSE "pending",
              !.token = 0, !.live = FALSE, !.due = due]

Recovered(row) ==
  LET r == IF row.state \in {"running", "applying"} /\ ~row.live
           THEN Released(row, row.due) ELSE row
  IN IF \/ r.state = "pending" /\ r.attempts >= MaxAttempts
        \/ r.state = "ready" /\ r.applies >= MaxApply
     THEN [r EXCEPT !.state = "dead"]
     ELSE r

\* skip_recent: a row nobody was asked about, whose question was answered.
Recent(id) ==
  /\ task[id].state = "pending" /\ task[id].attempts = 0
  /\ task[id].dedupe \in TaskIds
  /\ task[task[id].dedupe].recent

-----------------------------------------------------------------------------
(* A pass of the worker over the rows (process_once)                       *)

Pass(i, step) ==
  /\ pc' = [pc EXCEPT ![i] = step]
  /\ claim' = [claim EXCEPT ![i] = NoClaim]

\* A transaction fails: _check_checkpoint_error, when it is asked, faults a
\* process that another one has overtaken, and a faulted one stays so.
MayFault(i) == fault' \in {fault, [fault EXCEPT ![i] = @ \/ ~current[i]]}

\* A transaction of process i that writes the checkpoint: effects is the engine
\* state it saves.  The commit may happen and its acknowledgement be lost; the
\* memory is then rolled back, or was never ahead, and the service is faulted.
Commit(i, effects, acknowledged) ==
  /\ current[i]
  /\ disk' = effects
  /\ current' = [j \in Instances |-> j = i /\ acknowledged]
  /\ IF acknowledged
     THEN mem' = [mem EXCEPT ![i] = effects] /\ UNCHANGED fault
     ELSE fault' = [fault EXCEPT ![i] = TRUE] /\ UNCHANGED mem
  /\ UNCHANGED up

\* recover_expired, for both kinds
RecoverExpired(i) ==
  /\ up[i] /\ pc[i] = "idle"
  /\ task' = [id \in TaskIds |-> Recovered(task[id])]
  /\ pc' = [pc EXCEPT ![i] = "list"]
  /\ UNCHANGED <<receipts, emitted, calendar, engine, batch, look, claim>>

\* list_tasks: due or not
List(i) ==
  /\ up[i] /\ pc[i] = "list"
  /\ batch' = [batch EXCEPT ![i] =
       {<<id, task[id].state>> : id \in
          {id \in TaskIds : task[id].state \in {"pending", "ready"}}}]
  /\ pc' = [pc EXCEPT ![i] = "batch"]
  /\ UNCHANGED <<table, calendar, engine, look, claim>>

\* The rows are taken in the order of their ids.
Turn(i, item) ==
  /\ up[i] /\ pc[i] = "batch"
  /\ item \in batch[i]
  /\ \A other \in batch[i] : item[1] <= other[1]
  /\ batch' = [batch EXCEPT ![i] = @ \ {item}]

SkipRecent(i) ==
  /\ \E item \in batch[i] :
       /\ Turn(i, item)
       /\ Recent(item[1])
       /\ task' = [task EXCEPT ![item[1]].state = "skipped"]
  /\ UNCHANGED <<receipts, emitted, calendar, engine, pc, look, claim>>

\* The row is passed over when the allowance of the day is used up and it was
\* ready to be investigated when it was listed.
Deferred(item) == item[2] = "pending" /\ runs[today] >= DailyCap

Defer(i) ==
  /\ \E item \in batch[i] :
       Turn(i, item) /\ ~Recent(item[1]) /\ Deferred(item)
  /\ UNCHANGED <<table, calendar, engine, pc, look, claim>>

\* What _claim reads before its transaction: the row and the date.
Reading(id) ==
  [id |-> id, version |-> task[id].version, day |-> today,
   before |-> IF task[id].before # 0 THEN task[id].before ELSE task[id].t + 1]

Look(i) ==
  /\ \E item \in batch[i] :
       /\ Turn(i, item) /\ ~Recent(item[1]) /\ ~Deferred(item)
       /\ look' = [look EXCEPT ![i] = Reading(item[1])]
  /\ pc' = [pc EXCEPT ![i] = "claim"]
  /\ UNCHANGED <<table, calendar, engine, claim>>

\* The row just investigated is claimed again, to apply its product.
LookAgain(i) ==
  /\ up[i] /\ pc[i] = "reclaim"
  /\ look' = [look EXCEPT ![i] = Reading(claim[i].id)]
  /\ Pass(i, "claim")
  /\ UNCHANGED <<table, calendar, engine, batch>>

\* The version that was read is not compared.
Claimable_Faulty(i) ==
  LET row == task[look[i].id] IN
  /\ row.state \in {"pending", "ready"} /\ row.due
  /\ row.state = "pending" => runs[look[i].day] < DailyCap

\* What claim() checks in its transaction.
Claimable(i) ==
  LET row == task[look[i].id] IN
  /\ row.state \in {"pending", "ready"} /\ row.due
  /\ row.version = look[i].version
  /\ row.state = "pending" => runs[look[i].day] < DailyCap

\* Running or applying, with a new token (the number of the claim is one).
Claimed(row, before) ==
  LET applying == row.state = "ready" IN
  [row EXCEPT !.state = IF applying THEN "applying" ELSE "running",
              !.attempts = IF applying THEN @ ELSE @ + 1,
              !.applies = IF applying THEN @ + 1 ELSE @,
              !.token = row.attempts + row.applies + 1,
              !.live = TRUE,
              !.before = IF @ = 0 THEN before ELSE @]

\* claim(), with the checkpoint and the count of the day.  When the
\* acknowledgement is lost the worker does not know it holds the row.
Claim(i) ==
  LET id == look[i].id
      row == Claimed(task[id], look[i].before)
  IN
  /\ up[i] /\ pc[i] = "claim"
  /\ Claimable(i)
  /\ task' = [task EXCEPT ![id] = row]
  /\ runs' = IF row.state = "running" THEN [runs EXCEPT ![look[i].day] = @ + 1]
                                      ELSE runs
  /\ \E acknowledged \in BOOLEAN :
       /\ Commit(i, mem[i], acknowledged)
       /\ IF acknowledged
          THEN /\ pc' = [pc EXCEPT ![i] = IF row.state = "running"
                                          THEN "model" ELSE "apply"]
               /\ claim' = [claim EXCEPT ![i] =
                    [id |-> id, token |-> row.token, ops |-> row.product,
                     refused |-> {}]]
          ELSE Pass(i, "batch")
  /\ look' = [look EXCEPT ![i] = NoLook]
  /\ UNCHANGED <<receipts, emitted, today, batch>>

\* claim() returns None, or fails: another process has committed, or any error.
ClaimRefused(i) ==
  /\ up[i] /\ pc[i] = "claim"
  /\ MayFault(i)
  /\ Pass(i, "batch")
  /\ look' = [look EXCEPT ![i] = NoLook]
  /\ UNCHANGED <<table, calendar, disk, up, current, mem, batch>>

EndPass(i) ==
  /\ up[i] /\ pc[i] = "batch" /\ batch[i] = {}
  /\ pc' = [pc EXCEPT ![i] = "idle"]
  /\ UNCHANGED <<table, calendar, engine, batch, look, claim>>

\* The worker was told to stop: the rest of the batch, and a product that was
\* just stored, are left to the next start.
Stop(i) ==
  /\ up[i] /\ pc[i] \in {"batch", "reclaim"}
  /\ batch' = [batch EXCEPT ![i] = {}]
  /\ Pass(i, "idle")
  /\ UNCHANGED <<table, calendar, engine, look>>

\* The attempt that failed is given back.
Retry_Faulty(i) ==
  /\ task' = IF Owned(i, {"running", "applying"})
             THEN [task EXCEPT ![claim[i].id] =
                     [Released(@, FALSE) EXCEPT !.attempts = @ - 1]]
             ELSE task
  /\ Pass(i, "batch")

\* The handler of every exception after the claim; TaskLeaseLost is swallowed.
Retry(i) ==
  /\ task' = IF Owned(i, {"running", "applying"})
             THEN [task EXCEPT ![claim[i].id] = Released(@, FALSE)]
             ELSE task
  /\ Pass(i, "batch")

-----------------------------------------------------------------------------
(* One operation, by a tool call of the agent or by the worker             *)

\* The receipt is written and never looked up.
ApplyOperation_Faulty(i, op) ==
  LET id == claim[i].id IN
  /\ ~fault[i]
  /\ current[i]
  /\ receipts' = [receipts EXCEPT ![id] = @ \cup {op}]
  /\ \E acknowledged \in BOOLEAN :
       Commit(i, [mem[i] EXCEPT ![id][op] = @ + 1], acknowledged)

\* _task_once and apply_operation, for the owner of the row: the receipt
\* answers for an operation that was applied before, without a commit;
\* otherwise effect, checkpoint and receipt are committed together.
ApplyOperation(i, op) ==
  LET id == claim[i].id IN
  /\ ~fault[i]
  /\ current[i]
  /\ \/ /\ op \in receipts[id]
        /\ UNCHANGED <<receipts, engine>>
     \/ /\ op \notin receipts[id]
        /\ receipts' = [receipts EXCEPT ![id] = @ \cup {op}]
        /\ \E acknowledged \in BOOLEAN :
             Commit(i, [mem[i] EXCEPT ![id][op] = @ + 1], acknowledged)

\* The open budget is taken for the right to write.
Tool_Faulty(i, op) ==
  /\ up[i] /\ pc[i] = "model"
  /\ ApplyOperation(i, op)
  /\ UNCHANGED <<task, emitted, calendar, worker>>

\* propose, resolve or diagnose through the budget of the signal, which is open
\* from the claim to the answer: the lease is checked on admission and in the
\* transaction, and the service lock is held from one to the other.
Tool(i, op) ==
  /\ up[i] /\ pc[i] = "model"
  /\ Owned(i, {"running", "applying"})
  /\ ApplyOperation(i, op)
  /\ UNCHANGED <<task, emitted, calendar, worker>>

\* A tool call of a process that another one has overtaken.
StaleTool(i) ==
  /\ up[i] /\ ~fault[i] /\ pc[i] = "model"
  /\ Owned(i, {"running", "applying"})
  /\ ~current[i]
  /\ fault' = [fault EXCEPT ![i] = TRUE]
  /\ UNCHANGED <<table, calendar, disk, up, current, mem, worker>>

\* The agent answers with the operations it wants, or has, applied; the budget
\* is closed before the answer is stored.
Answer(i, ops) ==
  /\ up[i] /\ pc[i] = "model"
  /\ claim' = [claim EXCEPT ![i].ops = ops]
  /\ pc' = [pc EXCEPT ![i] = "store"]
  /\ UNCHANGED <<table, calendar, engine, batch, look>>

\* store_result, with the checkpoint the product refers to.
StoreResult(i) ==
  LET id == claim[i].id IN
  /\ up[i] /\ pc[i] = "store"
  /\ Owned(i, {"running"})
  /\ task' = [task EXCEPT ![id].product = claim[i].ops, ![id].state = "ready",
                          ![id].token = 0, ![id].live = FALSE, ![id].due = TRUE]
  /\ \E acknowledged \in BOOLEAN :
       /\ Commit(i, mem[i], acknowledged)
       /\ IF acknowledged
          THEN pc' = [pc EXCEPT ![i] = "reclaim"] /\ UNCHANGED claim
          ELSE Pass(i, "batch")
  /\ UNCHANGED <<receipts, emitted, calendar, batch, look>>

\* The agent fails or its answer is none; store_result fails, finds the lease
\* gone or the checkpoint moved on.
InvestigateFails(i) ==
  /\ up[i]
  /\ \/ pc[i] = "model" /\ UNCHANGED fault
     \/ pc[i] = "store" /\ MayFault(i)
  /\ Retry(i)
  /\ UNCHANGED <<receipts, emitted, calendar, disk, up, current, mem, batch, look>>

\* The next operation of the product: proposals, verdicts, diagnosis.  When its
\* acknowledgement is lost the row is given back by the owner.
NextOp(i, op) == op \in claim[i].ops /\ \A other \in claim[i].ops : op <= other

Apply(i) ==
  /\ up[i] /\ pc[i] = "apply"
  /\ Owned(i, {"running", "applying"})
  /\ \E op \in Ops :
       /\ NextOp(i, op)
       /\ ApplyOperation(i, op)
       /\ IF fault'[i]
          THEN Retry(i)
          ELSE /\ claim' = [claim EXCEPT ![i].ops = @ \ {op}]
               /\ UNCHANGED <<task, pc>>
  /\ UNCHANGED <<emitted, calendar, batch, look>>

\* The operations after a refused verdict are dropped with it.
RefuseVerdict_Faulty(i) ==
  /\ up[i] /\ ~fault[i] /\ pc[i] = "apply"
  /\ Owned(i, {"running", "applying"})
  /\ current[i]
  /\ \E op \in Verdicts \ receipts[claim[i].id] :
       /\ NextOp(i, op)
       /\ claim' = [claim EXCEPT ![i].ops = {}, ![i].refused = @ \cup {op}]
  /\ UNCHANGED <<table, calendar, engine, pc, batch, look>>

\* A verdict on memories beyond the causal bound is rolled back and left out,
\* and the operations after it are taken up.
RefuseVerdict(i) ==
  /\ up[i] /\ ~fault[i] /\ pc[i] = "apply"
  /\ Owned(i, {"running", "applying"})
  /\ current[i]
  /\ \E op \in Verdicts \ receipts[claim[i].id] :
       /\ NextOp(i, op)
       /\ claim' = [claim EXCEPT ![i].ops = @ \ {op}, ![i].refused = @ \cup {op}]
  /\ UNCHANGED <<table, calendar, engine, pc, batch, look>>

\* An operation or finish fails.
ApplyFails(i) ==
  /\ up[i] /\ pc[i] = "apply"
  /\ MayFault(i)
  /\ Retry(i)
  /\ UNCHANGED <<receipts, emitted, calendar, disk, up, current, mem, batch, look>>

\* finish() looks at the claim only, not at the checkpoint.
Finish(i) ==
  /\ up[i] /\ pc[i] = "apply" /\ claim[i].ops = {}
  /\ Owned(i, {"applying"})
  /\ task' = [task EXCEPT ![claim[i].id].state = "done",
                          ![claim[i].id].recent = TRUE,
                          ![claim[i].id].token = 0, ![claim[i].id].live = FALSE]
  /\ Pass(i, "batch")
  /\ UNCHANGED <<receipts, emitted, calendar, engine, batch, look>>

-----------------------------------------------------------------------------
(* The processes and time                                                  *)

\* recover_or_init; checkpoint() refuses claimed rows without a checkpoint.
Start(i) ==
  /\ ~up[i]
  /\ up' = [up EXCEPT ![i] = TRUE]
  /\ current' = [current EXCEPT ![i] = TRUE]
  /\ mem' = [mem EXCEPT ![i] = disk]
  /\ UNCHANGED <<table, calendar, disk, fault, worker>>

\* The process, or its worker, ends between any two transactions.
Crash(i) ==
  /\ up[i]
  /\ up' = [up EXCEPT ![i] = FALSE]
  /\ fault' = [fault EXCEPT ![i] = FALSE]
  /\ current' = [current EXCEPT ![i] = FALSE]
  /\ mem' = [mem EXCEPT ![i] = NoEffects]
  /\ batch' = [batch EXCEPT ![i] = {}]
  /\ look' = [look EXCEPT ![i] = NoLook]
  /\ Pass(i, "idle")
  /\ UNCHANGED <<table, calendar, disk>>

\* Any other commit of the service: a save, a captured unit, another effect.
OtherCommit(i) ==
  /\ up[i] /\ ~fault[i]
  /\ \E acknowledged \in BOOLEAN : Commit(i, mem[i], acknowledged)
  /\ UNCHANGED <<table, calendar, worker>>

LeaseRunsOut(id) ==
  /\ task[id].live
  /\ task' = [task EXCEPT ![id].live = FALSE]
  /\ UNCHANGED <<receipts, emitted, calendar, engine, worker>>

BackoffElapses(id) ==
  /\ task[id].state \in {"pending", "ready"} /\ ~task[id].due
  /\ task' = [task EXCEPT ![id].due = TRUE]
  /\ UNCHANGED <<receipts, emitted, calendar, engine, worker>>

\* dedupe_ttl_s after the row was finished
TTLElapses(id) ==
  /\ task[id].recent
  /\ task' = [task EXCEPT ![id].recent = FALSE]
  /\ UNCHANGED <<receipts, emitted, calendar, engine, worker>>

NewDay ==
  /\ today < MaxDay
  /\ today' = today + 1
  /\ UNCHANGED <<table, runs, engine, worker>>

Next ==
  \/ \E i \in Instances :
       \/ \E s \in Signals : Emit(i, s)
       \/ RecoverExpired(i) \/ List(i) \/ SkipRecent(i) \/ Defer(i) \/ Look(i)
       \/ LookAgain(i) \/ Claim(i) \/ ClaimRefused(i) \/ EndPass(i) \/ Stop(i)
       \/ \E op \in Ops : Tool(i, op)
       \/ StaleTool(i)
       \/ \E ops \in SUBSET Ops : Answer(i, ops)
       \/ StoreResult(i) \/ InvestigateFails(i)
       \/ Apply(i) \/ RefuseVerdict(i) \/ ApplyFails(i) \/ Finish(i)
       \/ OtherCommit(i) \/ Start(i) \/ Crash(i)
  \/ \E id \in TaskIds : LeaseRunsOut(id) \/ BackoffElapses(id) \/ TTLElapses(id)
  \/ NewDay

Spec == Init /\ [][Next]_vars

-----------------------------------------------------------------------------
(* Safety                                                                  *)

\* The durable engine state holds an operation of a row exactly once when the
\* row has a receipt for it and not at all otherwise, whether a tool call, the
\* worker or both applied it, in whichever claims of the row, with crashes, lost
\* acknowledgements and other processes between them.
OperationExactlyOnce ==
  \A id \in TaskIds, op \in Ops :
    disk[id][op] = IF op \in receipts[id] THEN 1 ELSE 0

\* A row is closed only by the holder of its claim, and when each operation of
\* its product has a receipt, from whichever claim, or was refused as a verdict
\* in this very claim: a refused verdict does not take the ones after it along,
\* and a failure between two operations loses none.
DoneMeansApplied ==
  [][\A id \in TaskIds :
       task[id].state # "done" /\ task'[id].state = "done" =>
         \E i \in Instances :
           /\ claim[i].id = id /\ claim[i].token = task[id].token
           /\ task[id].product \subseteq receipts[id] \cup claim[i].refused]_vars

\* One mark for each count of a table of counters.
Marks(f) == UNION {{x} \X (1 .. f[x]) : x \in DOMAIN f}

\* Every claim of a row for investigation, and nothing else, is counted against
\* a day, lost acknowledgements, retries and crashes included, and no day goes
\* beyond its allowance, though process_once and _claim read it before.
RunsCounted ==
  /\ \A d \in Days : runs[d] <= DailyCap
  /\ Cardinality(Marks(runs))
       = Cardinality(Marks([id \in TaskIds \ Finished |-> task[id].attempts]))

\* A row that was handed to an agent is investigated under the causal bound of
\* the latest signal merged into it: none is merged between the reading of the
\* row and its claim, or after it.
BoundFitsPayload ==
  \A id \in TaskIds : task[id].attempts > 0 => task[id].before = task[id].t + 1

\* Only the holder of a row has an operation of it applied: its agent while the
\* model is asked, and, from the moment a product is stored, nothing but that
\* product; tool calls of an agent whose lease is gone change nothing.
NoStrayOperation ==
  [][\A id \in TaskIds :
       receipts'[id] # receipts[id] =>
         /\ task[id].live
         /\ \/ task[id].state = "running"
            \/ /\ task[id].state = "applying"
               /\ receipts'[id] \ receipts[id] \subseteq task[id].product]_vars

=============================================================================
