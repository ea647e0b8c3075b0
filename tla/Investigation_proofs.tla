------------------------ MODULE Investigation_proofs ------------------------
(***************************************************************************)
(* Proofs about the investigation worker, for any number of processes,     *)
(* rows, signals, operations and days and for every limit: its type        *)
(* invariant, that every operation takes effect exactly once, that a row   *)
(* becomes done with its product applied, that an agent works under the    *)
(* causal bound of its payload, that nobody but the holder of a row has an *)
(* operation of it applied, and that every claim for investigation, and    *)
(* nothing else, is counted against the allowance of its day.              *)
(*                                                                         *)
(* The inductive invariant relates a row to the workers that claimed it,   *)
(* which are told by their tokens: a worker whose token is the token of    *)
(* the row is the last one that claimed it, so the state of the row is the *)
(* one this worker brought it to.  How a row may change under a worker     *)
(* that does not hold it is stated once (Evolves) and shown of every       *)
(* change to the table.                                                    *)
(***************************************************************************)
EXTENDS Investigation, FiniteSetTheorems, TLAPS

\* One row by itself.
RowOK(r) ==
  /\ r.state = "none" => r.applies = 0 /\ r.attempts = 0
  /\ r.state \in {"running", "ready", "applying", "done"} => r.attempts > 0
  /\ r.attempts = 0 => r.before = 0
  /\ r.attempts > 0 => r.before = r.t + 1
  /\ r.token \in {0, r.attempts + r.applies}
  /\ r.token # 0 => r.state \in {"running", "applying"}

RowsOK == \A id \in TaskIds : RowOK(task[id])

\* The row r may become s while a worker does not look.
Evolves(r, s) ==
  r.state # "none" =>
    /\ s.state # "none"
    /\ s.version >= r.version
    /\ s.version = r.version /\ s.attempts = 0 => r.attempts = 0 /\ s.t = r.t
    /\ s.attempts + s.applies >= r.attempts + r.applies
    /\ s.token \in {0, r.token} \/ s.token > r.attempts + r.applies
    /\ s.token # 0 /\ s.token = r.token => s.state = r.state /\ s.product = r.product

\* What a worker has listed, read and claimed.
BatchOK(i) == \A item \in batch[i] : task[item[1]].state # "none"

LookOK(i) ==
  LET row == task[look[i].id] IN
  pc[i] = "claim" =>
    /\ look[i].id \in TaskIds
    /\ row.state # "none"
    /\ look[i].version <= row.version
    /\ look[i].version = row.version /\ row.attempts = 0 => look[i].before = row.t + 1

HeldOK(i) ==
  LET row == task[claim[i].id]
      ops == claim[i].ops
      mine == row.token = claim[i].token
  IN
  /\ pc[i] \in {"model", "store", "reclaim", "apply"} =>
       /\ claim[i].id \in TaskIds
       /\ claim[i].token \in 1 .. row.attempts + row.applies
  /\ pc[i] \in {"model", "store"} /\ mine => row.state = "running"
  /\ pc[i] = "apply" /\ mine =>
       /\ row.state = "applying"
       /\ ops \subseteq row.product
       /\ row.product \ ops \subseteq receipts[claim[i].id] \cup claim[i].refused

WorkerOK(i) == BatchOK(i) /\ LookOK(i) /\ HeldOK(i)
WorkersOK == \A i \in Instances : WorkerOK(i)

\* A process at the durable revision holds the durable engine state.
Coherent == \A i \in Instances : current[i] => mem[i] = disk

IInv ==
  /\ TypeOK
  /\ RowsOK
  /\ WorkersOK
  /\ Coherent
  /\ OperationExactlyOnce

-----------------------------------------------------------------------------
(* Rows                                                                    *)

LEMMA MaxOfTwo ==
  ASSUME NEW a \in Nat, NEW b \in Nat
  PROVE  Max({a, b}) \in Nat
<1>1. \E x \in {a, b} : \A y \in {a, b} : x >= y
  OBVIOUS
<1>2. Max({a, b}) \in {a, b}
  BY <1>1 DEF Max
<1> QED
  BY <1>2

LEMMA BlankType == Blank \in Rows /\ \A s \in Signals : KeyOf[s] \in Keys
<1>1. Keys # {}
  BY ConstantsAssumption DEF Keys
<1>2. (CHOOSE k \in Keys : TRUE) \in Keys
  BY <1>1
<1>3. MaxTasks \in Nat
  BY ConstantsAssumption
<1> QED
  BY <1>2, <1>3 DEF Blank, Rows, States, Keys

\* A row that is given back keeps what its next claim relies on.
LEMMA ReleasedRow ==
  ASSUME NEW r \in Rows, RowOK(r), r.state \in {"running", "applying"},
         NEW due \in BOOLEAN
  PROVE  LET s == Released(r, due) IN
         /\ s \in Rows /\ RowOK(s) /\ Evolves(r, s)
         /\ s.state \in {"dead", "ready", "pending"} /\ s.token = 0
<1> DEFINE s == Released(r, due)
           st == IF Exhausted(r) THEN "dead"
                 ELSE IF r.state = "applying" THEN "ready" ELSE "pending"
<1>1. s = [r EXCEPT !.state = st, !.token = 0, !.live = FALSE, !.due = due]
  BY DEF Released
<1>2. st \in {"dead", "ready", "pending"} /\ st \in States
  BY DEF States
<1> HIDE DEF s, st
<1>3. s \in Rows
  BY <1>1, <1>2 DEF Rows
<1>4. /\ s.state = st /\ s.token = 0 /\ s.attempts = r.attempts
      /\ s.applies = r.applies /\ s.before = r.before /\ s.t = r.t
      /\ s.version = r.version
  BY <1>1 DEF Rows
<1>5. r.attempts \in Nat /\ r.applies \in Nat /\ r.version \in Nat
  BY DEF Rows
<1> QED
  BY <1>2, <1>3, <1>4, <1>5 DEF RowOK, Evolves, s

LEMMA EvolvesSame ==
  ASSUME NEW r \in Rows
  PROVE  Evolves(r, r)
<1>1. r.attempts \in Nat /\ r.applies \in Nat /\ r.version \in Nat
  BY DEF Rows
<1> QED
  BY <1>1 DEF Evolves

\* recover_expired keeps every row in order.
LEMMA RecoveredRow ==
  ASSUME NEW r \in Rows, RowOK(r)
  PROVE  LET s == Recovered(r) IN
         /\ s \in Rows /\ RowOK(s) /\ Evolves(r, s)
         /\ s.state = "done" => s = r
<1> DEFINE m == IF r.state \in {"running", "applying"} /\ ~r.live
                THEN Released(r, r.due) ELSE r
           s == Recovered(r)
<1>1. /\ m \in Rows /\ RowOK(m) /\ Evolves(r, m)
      /\ m.state = "done" => m = r
      /\ m # r => m.token = 0
  BY ReleasedRow, EvolvesSame DEF Rows
<1>2. CASE \/ m.state = "pending" /\ m.attempts >= MaxAttempts
           \/ m.state = "ready" /\ m.applies >= MaxApply
  <2>1. s = [m EXCEPT !.state = "dead"]
    BY <1>2 DEF Recovered
  <2>2. s \in Rows
    BY <1>1, <2>1 DEF Rows, States
  <2> HIDE DEF m, s
  <2>3. /\ s.state = "dead" /\ s.token = m.token /\ s.attempts = m.attempts
        /\ s.applies = m.applies /\ s.before = m.before /\ s.t = m.t
        /\ s.version = m.version /\ s.product = m.product
    BY <1>1, <2>1 DEF Rows
  <2>4. /\ m.attempts \in Nat /\ m.applies \in Nat /\ m.version \in Nat
        /\ m.attempts # 0 \/ m.applies # 0
    BY <1>1, <1>2, ConstantsAssumption DEF Rows
  <2> QED
    BY <1>1, <1>2, <2>2, <2>3, <2>4 DEF RowOK, Evolves, s
<1>3. CASE ~(\/ m.state = "pending" /\ m.attempts >= MaxAttempts
             \/ m.state = "ready" /\ m.applies >= MaxApply)
  <2>1. s = m
    BY <1>3 DEF Recovered
  <2> QED
    BY <1>1, <2>1
<1> QED
  BY <1>2, <1>3

\* A claim of a row brings a token no worker has had.
LEMMA ClaimedRow ==
  ASSUME NEW r \in Rows, RowOK(r), r.state \in {"pending", "ready"},
         NEW before \in Nat, r.attempts = 0 => before = r.t + 1
  PROVE  LET s == Claimed(r, before) IN
         /\ s \in Rows /\ RowOK(s) /\ Evolves(r, s)
         /\ s.token = r.attempts + r.applies + 1
         /\ s.token = s.attempts + s.applies
         /\ s.product = r.product
         /\ s.state = IF r.state = "ready" THEN "applying" ELSE "running"
<1> DEFINE s == Claimed(r, before)
           st == IF r.state = "ready" THEN "applying" ELSE "running"
           at == IF r.state = "ready" THEN r.attempts ELSE r.attempts + 1
           ap == IF r.state = "ready" THEN r.applies + 1 ELSE r.applies
           tk == r.attempts + r.applies + 1
           bf == IF r.before = 0 THEN before ELSE r.before
<1>1. s = [r EXCEPT !.state = st, !.attempts = at, !.applies = ap,
                    !.token = tk, !.live = TRUE, !.before = bf]
  BY DEF Claimed, Rows
<1>2. /\ r.attempts \in Nat /\ r.applies \in Nat /\ r.version \in Nat
      /\ r.before \in Nat /\ r.t \in Nat
  BY DEF Rows
<1>3. st \in States /\ at \in Nat /\ ap \in Nat /\ tk \in Nat /\ bf \in Nat
  BY <1>2 DEF States
<1>4. /\ at + ap = tk /\ at > 0
      /\ bf = r.t + 1
  BY <1>2 DEF RowOK
<1>5. st = "applying" \/ st = "running"
  OBVIOUS
<1>6. st = IF r.state = "ready" THEN "applying" ELSE "running"
  OBVIOUS
<1>7. tk = r.attempts + r.applies + 1
  OBVIOUS
<1> HIDE DEF s, st, at, ap, tk, bf
<1>8. s \in Rows
  BY <1>1, <1>3 DEF Rows
<1>9. /\ s.state = st /\ s.attempts = at /\ s.applies = ap /\ s.token = tk
      /\ s.before = bf /\ s.t = r.t /\ s.version = r.version
      /\ s.product = r.product
  BY <1>1 DEF Rows
<1>10. RowOK(s)
  BY <1>2, <1>3, <1>4, <1>5, <1>9 DEF RowOK
<1>11. r.token <= r.attempts + r.applies
  BY <1>2 DEF RowOK
<1>12. Evolves(r, s)
  BY <1>2, <1>3, <1>4, <1>5, <1>7, <1>9, <1>11 DEF Evolves
<1> QED
  BY <1>4, <1>6, <1>7, <1>8, <1>9, <1>10, <1>12 DEF s

\* A row whose owner stores its product, finishes it, or that is passed over.
LEMMA StoredRow ==
  ASSUME NEW r \in Rows, RowOK(r), r.state = "running", NEW ops \in SUBSET Ops
  PROVE  LET s == [r EXCEPT !.product = ops, !.state = "ready", !.token = 0,
                            !.live = FALSE, !.due = TRUE] IN
         /\ s \in Rows /\ RowOK(s) /\ Evolves(r, s)
         /\ s.state = "ready" /\ s.token = 0
<1> DEFINE s == [r EXCEPT !.product = ops, !.state = "ready", !.token = 0,
                          !.live = FALSE, !.due = TRUE]
<1>1. /\ s.state = "ready" /\ s.token = 0 /\ s.attempts = r.attempts
      /\ s.applies = r.applies /\ s.before = r.before /\ s.t = r.t
      /\ s.version = r.version
  BY DEF Rows
<1>2. r.attempts \in Nat /\ r.applies \in Nat /\ r.version \in Nat
  BY DEF Rows
<1>3. s \in Rows
  BY DEF Rows, States
<1> HIDE DEF s
<1>4. RowOK(s) /\ Evolves(r, s)
  BY <1>1, <1>2 DEF RowOK, Evolves
<1> QED
  BY <1>1, <1>3, <1>4 DEF s

LEMMA FinishedRow ==
  ASSUME NEW r \in Rows, RowOK(r), r.state = "applying"
  PROVE  LET s == [r EXCEPT !.state = "done", !.recent = TRUE, !.token = 0,
                            !.live = FALSE] IN
         /\ s \in Rows /\ RowOK(s) /\ Evolves(r, s)
         /\ s.product = r.product
<1> DEFINE s == [r EXCEPT !.state = "done", !.recent = TRUE, !.token = 0,
                          !.live = FALSE]
<1>1. /\ s.state = "done" /\ s.token = 0 /\ s.attempts = r.attempts
      /\ s.applies = r.applies /\ s.before = r.before /\ s.t = r.t
      /\ s.version = r.version /\ s.product = r.product
  BY DEF Rows
<1>2. r.attempts \in Nat /\ r.applies \in Nat /\ r.version \in Nat
  BY DEF Rows
<1>3. s \in Rows
  BY DEF Rows, States
<1> HIDE DEF s
<1>4. RowOK(s) /\ Evolves(r, s)
  BY <1>1, <1>2 DEF RowOK, Evolves
<1> QED
  BY <1>1, <1>3, <1>4 DEF s

LEMMA SkippedRow ==
  ASSUME NEW r \in Rows, RowOK(r), r.state = "pending", r.attempts = 0
  PROVE  LET s == [r EXCEPT !.state = "skipped"] IN
         s \in Rows /\ RowOK(s) /\ Evolves(r, s) /\ s.state = "skipped"
<1> DEFINE s == [r EXCEPT !.state = "skipped"]
<1>1. /\ s.state = "skipped" /\ s.token = r.token /\ s.attempts = r.attempts
      /\ s.applies = r.applies /\ s.before = r.before /\ s.t = r.t
      /\ s.version = r.version
  BY DEF Rows
<1>2. /\ r.attempts \in Nat /\ r.applies \in Nat /\ r.version \in Nat
      /\ r.token = 0
  BY DEF Rows, RowOK
<1>3. s \in Rows
  BY DEF Rows, States
<1> HIDE DEF s
<1>4. RowOK(s) /\ Evolves(r, s)
  BY <1>1, <1>2 DEF RowOK, Evolves
<1> QED
  BY <1>1, <1>3, <1>4 DEF s

LEMMA MergedRow ==
  ASSUME NEW r \in Rows, RowOK(r), r.state = "pending", r.attempts = 0,
         NEW t \in Nat
  PROVE  LET s == [r EXCEPT !.t = t, !.version = @ + 1] IN
         s \in Rows /\ RowOK(s) /\ Evolves(r, s) /\ s.state = "pending"
<1> DEFINE s == [r EXCEPT !.t = t, !.version = @ + 1]
<1>1. /\ s.state = "pending" /\ s.token = r.token /\ s.attempts = r.attempts
      /\ s.applies = r.applies /\ s.before = r.before /\ s.t = t
      /\ s.version = r.version + 1
  BY DEF Rows
<1>2. /\ r.attempts \in Nat /\ r.applies \in Nat /\ r.version \in Nat
      /\ r.token = 0
  BY DEF Rows, RowOK
<1>3. s \in Rows
  <2>1. s = [r EXCEPT !.t = t, !.version = r.version + 1]
    BY DEF Rows
  <2>2. r.version + 1 \in Nat
    BY <1>2
  <2> DEFINE v == r.version + 1
  <2> HIDE DEF s, v
  <2>3. s = [r EXCEPT !.t = t, !.version = v] /\ v \in Nat
    BY <2>1, <2>2 DEF v
  <2> QED
    BY <2>3 DEF Rows
<1> HIDE DEF s
<1>4. RowOK(s) /\ Evolves(r, s)
  BY <1>1, <1>2 DEF RowOK, Evolves
<1> QED
  BY <1>1, <1>3, <1>4 DEF s

\* The lease, the backoff and the memory of the answer are about time only.
LEMMA ElapsedRow ==
  ASSUME NEW r \in Rows, RowOK(r),
         NEW s \in {[r EXCEPT !.live = FALSE], [r EXCEPT !.due = TRUE],
                    [r EXCEPT !.recent = FALSE]}
  PROVE  /\ s \in Rows /\ RowOK(s) /\ Evolves(r, s)
         /\ s.state = r.state /\ s.product = r.product
<1>1. /\ s.state = r.state /\ s.token = r.token /\ s.attempts = r.attempts
      /\ s.applies = r.applies /\ s.before = r.before /\ s.t = r.t
      /\ s.version = r.version /\ s.product = r.product
  BY DEF Rows
<1>2. r.attempts \in Nat /\ r.applies \in Nat /\ r.version \in Nat
  BY DEF Rows
<1>3. s \in Rows
  <2>1. CASE s = [r EXCEPT !.live = FALSE]
    BY <2>1 DEF Rows
  <2>2. CASE s = [r EXCEPT !.due = TRUE]
    BY <2>2 DEF Rows
  <2>3. CASE s = [r EXCEPT !.recent = FALSE]
    BY <2>3 DEF Rows
  <2> QED
    BY <2>1, <2>2, <2>3
<1>4. RowOK(s) /\ Evolves(r, s)
  BY <1>1, <1>2 DEF RowOK, Evolves
<1> QED
  BY <1>1, <1>3, <1>4
-----------------------------------------------------------------------------
(* Workers and the engine                                                  *)

\* What is common to every step: no row goes back, no receipt is lost.
Grows ==
  /\ \A id \in TaskIds : Evolves(task[id], task'[id])
  /\ \A id \in TaskIds : receipts[id] \subseteq receipts'[id]

LEMMA GrowsSame ==
  ASSUME TypeOK, UNCHANGED <<task, receipts>>
  PROVE  Grows
<1>1. \A id \in TaskIds : task[id] \in Rows
  BY DEF TypeOK
<1> QED
  BY <1>1, EvolvesSame DEF Grows

\* A row that a worker has claimed is in use.
LEMMA HeldRow ==
  ASSUME TypeOK, RowsOK, NEW i \in Instances, HeldOK(i),
         pc[i] \in {"model", "store", "reclaim", "apply"}
  PROVE  /\ claim[i].id \in TaskIds
         /\ task[claim[i].id] \in Rows
         /\ task[claim[i].id].state # "none"
         /\ claim[i].token \in 1 .. task[claim[i].id].attempts + task[claim[i].id].applies
<1>1. /\ claim[i].id \in TaskIds
      /\ claim[i].token \in 1 .. task[claim[i].id].attempts + task[claim[i].id].applies
  BY DEF HeldOK
<1>2. task[claim[i].id] \in Rows /\ RowOK(task[claim[i].id])
  BY <1>1 DEF TypeOK, RowsOK
<1> QED
  BY <1>1, <1>2 DEF RowOK

LEMMA BatchKept ==
  ASSUME TypeOK, NEW i \in Instances, BatchOK(i), Grows,
         batch'[i] \subseteq batch[i]
  PROVE  BatchOK(i)'
<1> SUFFICES ASSUME NEW item \in batch'[i]
             PROVE  task'[item[1]].state # "none"
  BY DEF BatchOK
<1>1. item \in batch[i] /\ item[1] \in TaskIds
  BY DEF TypeOK
<1> QED
  BY <1>1 DEF BatchOK, Grows, Evolves

\* Steps of others leave a worker in order.
LEMMA WorkerKept ==
  ASSUME TypeOK, TypeOK', RowsOK, NEW i \in Instances, WorkerOK(i), Grows,
         pc'[i] = pc[i], batch'[i] = batch[i], look'[i] = look[i],
         claim'[i] = claim[i]
  PROVE  WorkerOK(i)'
<1>1. BatchOK(i)'
  BY BatchKept DEF WorkerOK
<1>2. LookOK(i)'
  <2> SUFFICES ASSUME pc[i] = "claim"
               PROVE  LookOK(i)'
    BY DEF LookOK
  <2> DEFINE r == task[look[i].id]
             s == task'[look[i].id]
  <2>1. /\ look[i].id \in TaskIds
        /\ r.state # "none"
        /\ look[i].version <= r.version
        /\ look[i].version = r.version /\ r.attempts = 0 => look[i].before = r.t + 1
    BY DEF WorkerOK, LookOK
  <2>2. /\ r \in Rows /\ s \in Rows /\ Evolves(r, s)
        /\ look[i].version \in Nat
    BY <2>1 DEF TypeOK, Grows
  <2>3. r.version \in Nat /\ s.version \in Nat
    BY <2>2 DEF Rows
  <2>4. /\ s.state # "none"
        /\ s.version >= r.version
        /\ s.version = r.version /\ s.attempts = 0 => r.attempts = 0 /\ s.t = r.t
    BY <2>1, <2>2 DEF Evolves
  <2>5. /\ look[i].version <= s.version
        /\ look[i].version = s.version /\ s.attempts = 0 => look[i].before = s.t + 1
    <3> HIDE DEF r, s
    <3>1. look[i].version <= s.version
      BY <2>1, <2>2, <2>3, <2>4
    <3>2. look[i].version = s.version => s.version = r.version
      BY <2>1, <2>2, <2>3, <2>4
    <3> QED
      BY <2>1, <2>4, <3>1, <3>2
  <2> QED
    BY <2>1, <2>4, <2>5 DEF LookOK
<1>3. HeldOK(i)'
  <2> SUFFICES ASSUME pc[i] \in {"model", "store", "reclaim", "apply"}
               PROVE  HeldOK(i)'
    BY DEF HeldOK
  <2> DEFINE id == claim[i].id
             r == task[id]
             s == task'[id]
  <2>1. HeldOK(i)
    BY DEF WorkerOK
  <2>2. id \in TaskIds /\ r \in Rows /\ r.state # "none"
        /\ claim[i].token \in 1 .. r.attempts + r.applies
    BY <2>1, HeldRow
  <2>3. s \in Rows /\ Evolves(r, s) /\ receipts[id] \subseteq receipts'[id]
    BY <2>2 DEF TypeOK, Grows
  <2>4. /\ r.attempts \in Nat /\ r.applies \in Nat /\ r.token \in Nat
        /\ s.attempts \in Nat /\ s.applies \in Nat /\ s.token \in Nat
    BY <2>2, <2>3 DEF Rows
  <2>5. claim[i].token \in 1 .. s.attempts + s.applies
    BY <2>2, <2>3, <2>4 DEF Evolves
  <2>6. s.token = claim[i].token =>
          r.token = claim[i].token /\ s.state = r.state /\ s.product = r.product
    BY <2>2, <2>3, <2>4 DEF Evolves
  <2> HIDE DEF r, s, id
  <2>7. pc[i] \in {"model", "store"} /\ s.token = claim[i].token => s.state = "running"
    BY <2>1, <2>6 DEF HeldOK, r, s, id
  <2>8. pc[i] = "apply" /\ s.token = claim[i].token =>
          /\ s.state = "applying"
          /\ claim[i].ops \subseteq s.product
          /\ s.product \ claim[i].ops \subseteq receipts'[id] \cup claim[i].refused
    <3>1. pc[i] = "apply" /\ r.token = claim[i].token =>
            /\ r.state = "applying"
            /\ claim[i].ops \subseteq r.product
            /\ r.product \ claim[i].ops \subseteq receipts[id] \cup claim[i].refused
      BY <2>1 DEF HeldOK, r, id
    <3> QED
      BY <2>3, <2>6, <3>1
  <2> QED
    BY <2>2, <2>5, <2>7, <2>8 DEF HeldOK, r, s, id
<1> QED
  BY <1>1, <1>2, <1>3 DEF WorkerOK

\* A worker that holds nothing and is about to read nothing.
LEMMA WorkerFree ==
  ASSUME TypeOK, NEW i \in Instances, WorkerOK(i), Grows,
         pc'[i] \in {"idle", "list", "batch"}, batch'[i] \subseteq batch[i]
  PROVE  WorkerOK(i)'
<1>1. BatchOK(i)'
  BY BatchKept DEF WorkerOK
<1>2. LookOK(i)' /\ HeldOK(i)'
  BY DEF LookOK, HeldOK
<1> QED
  BY <1>1, <1>2 DEF WorkerOK

\* A step of one worker, or of none.
LEMMA WorkersKept ==
  ASSUME TypeOK, TypeOK', RowsOK, WorkersOK, Grows, NEW i \in Instances,
         WorkerOK(i)',
         \A j \in Instances \ {i} : /\ pc'[j] = pc[j] /\ batch'[j] = batch[j]
                                    /\ look'[j] = look[j] /\ claim'[j] = claim[j]
  PROVE  WorkersOK'
<1> SUFFICES ASSUME NEW j \in Instances, j # i
             PROVE  WorkerOK(j)'
  BY DEF WorkersOK
<1>1. WorkerOK(j)
  BY DEF WorkersOK
<1> QED
  BY <1>1, WorkerKept

LEMMA WorkersSame ==
  ASSUME TypeOK, TypeOK', RowsOK, WorkersOK, Grows, UNCHANGED worker
  PROVE  WorkersOK'
<1> SUFFICES ASSUME NEW j \in Instances
             PROVE  WorkerOK(j)'
  BY DEF WorkersOK
<1>1. WorkerOK(j)
  BY DEF WorkersOK
<1> QED
  BY <1>1, WorkerKept DEF worker

EngineType ==
  /\ disk \in EngineStates
  /\ up \in [Instances -> BOOLEAN]
  /\ fault \in [Instances -> BOOLEAN]
  /\ current \in [Instances -> BOOLEAN]
  /\ mem \in [Instances -> EngineStates]

\* A commit leaves at most its own process at the durable revision, and that
\* one with the state it has just saved.
LEMMA CommitOK ==
  ASSUME EngineType, NEW i \in Instances, NEW effects \in EngineStates,
         NEW acknowledged \in BOOLEAN, Commit(i, effects, acknowledged)
  PROVE  EngineType' /\ Coherent' /\ disk' = effects
<1>1. EngineType'
  BY DEF Commit, EngineType
<1>2. Coherent'
  BY DEF Commit, EngineType, Coherent
<1> QED
  BY <1>1, <1>2 DEF Commit

-----------------------------------------------------------------------------
(* Parts of steps                                                          *)

TableOK == task \in [TaskIds -> Rows] /\ RowsOK

LEMMA RowChanged ==
  ASSUME TypeOK, TableOK, NEW id \in TaskIds, NEW s \in Rows, RowOK(s),
         Evolves(task[id], s), task' = [task EXCEPT ![id] = s],
         UNCHANGED receipts
  PROVE  TableOK' /\ Grows
<1>1. /\ task' \in [TaskIds -> Rows]
      /\ task'[id] = s
      /\ \A other \in TaskIds \ {id} : task'[other] = task[other]
  BY DEF TableOK
<1>2. RowsOK'
  BY <1>1 DEF TableOK, RowsOK
<1>3. Grows
  BY <1>1, EvolvesSame DEF TableOK, Grows
<1> QED
  BY <1>1, <1>2, <1>3 DEF TableOK

LEMMA TableSame ==
  ASSUME TypeOK, TableOK, UNCHANGED task,
         \A id \in TaskIds : receipts[id] \subseteq receipts'[id]
  PROVE  TableOK' /\ Grows
<1>1. TableOK'
  BY DEF TableOK, RowsOK
<1>2. Grows
  BY EvolvesSame DEF TableOK, Grows
<1> QED
  BY <1>1, <1>2

EngineOK == EngineType /\ Coherent /\ OperationExactlyOnce

LEMMA EngineSame ==
  ASSUME EngineOK, UNCHANGED <<disk, up, current, mem, receipts>>,
         fault' \in [Instances -> BOOLEAN]
  PROVE  EngineOK'
  BY DEF EngineOK, EngineType, Coherent, OperationExactlyOnce

\* A commit of a process that has changed nothing saves what is saved already.
LEMMA CommitSame ==
  ASSUME EngineOK, NEW i \in Instances, NEW acknowledged \in BOOLEAN,
         Commit(i, mem[i], acknowledged), UNCHANGED receipts
  PROVE  EngineOK'
<1>1. mem[i] \in EngineStates /\ mem[i] = disk
  BY DEF EngineOK, EngineType, Coherent, Commit
<1>2. EngineType' /\ Coherent' /\ disk' = disk
  BY <1>1, CommitOK DEF EngineOK
<1> QED
  BY <1>2 DEF EngineOK, OperationExactlyOnce

\* One operation: its effect and its receipt, or neither.
LEMMA OperationOK ==
  ASSUME TypeOK, EngineOK, NEW i \in Instances, NEW op \in Ops,
         claim[i].id \in TaskIds, ApplyOperation(i, op)
  PROVE  /\ EngineOK'
         /\ receipts' \in [TaskIds -> SUBSET Ops]
         /\ receipts' = [receipts EXCEPT ![claim[i].id] = @ \cup {op}]
         /\ up' = up
<1> DEFINE id == claim[i].id
<1>0. receipts \in [TaskIds -> SUBSET Ops]
  BY DEF TypeOK
<1>1. CASE op \in receipts[id]
  <2>1. UNCHANGED <<receipts, disk, up, fault, current, mem>>
    BY <1>1 DEF ApplyOperation, engine
  <2>2. receipts = [receipts EXCEPT ![id] = @ \cup {op}]
    BY <1>0, <1>1
  <2>3. fault' \in [Instances -> BOOLEAN]
    BY <2>1 DEF TypeOK
  <2> QED
    BY <1>0, <2>1, <2>2, <2>3, EngineSame
<1>2. CASE op \notin receipts[id]
  <2> DEFINE effects == [mem[i] EXCEPT ![id][op] = @ + 1]
  <2>1. receipts' = [receipts EXCEPT ![id] = @ \cup {op}]
    BY <1>2 DEF ApplyOperation
  <2>2. PICK acknowledged \in BOOLEAN : Commit(i, effects, acknowledged)
    BY <1>2 DEF ApplyOperation
  <2>3. mem[i] \in EngineStates /\ mem[i] = disk
    BY <2>2 DEF EngineOK, EngineType, Coherent, Commit
  <2>4. effects \in EngineStates
    BY <2>3 DEF EngineStates
  <2>5. EngineType' /\ Coherent' /\ disk' = effects
    BY <2>2, <2>4, CommitOK DEF EngineOK
  <2>6. OperationExactlyOnce'
    <3> SUFFICES ASSUME NEW x \in TaskIds, NEW y \in Ops
                 PROVE  disk'[x][y] = IF y \in receipts'[x] THEN 1 ELSE 0
      BY DEF OperationExactlyOnce
    <3>1. disk[x][y] = IF y \in receipts[x] THEN 1 ELSE 0
      BY DEF EngineOK, OperationExactlyOnce
    <3>2. disk \in EngineStates
      BY <2>3
    <3>3. disk' = [disk EXCEPT ![id][op] = @ + 1]
      BY <2>3, <2>5
    <3>4. CASE x = id /\ y = op
      <4>1. disk[x][y] = 0
        BY <1>2, <3>1, <3>4
      <4>2. disk'[x][y] = disk[x][y] + 1
        BY <3>2, <3>3, <3>4 DEF EngineStates
      <4>3. y \in receipts'[x]
        BY <1>0, <2>1, <3>4
      <4> QED
        BY <4>1, <4>2, <4>3
    <3>5. CASE ~(x = id /\ y = op)
      <4>1. disk'[x][y] = disk[x][y]
        BY <3>2, <3>3, <3>5 DEF EngineStates
      <4>2. y \in receipts'[x] <=> y \in receipts[x]
        BY <1>0, <2>1, <3>5
      <4> QED
        BY <3>1, <4>1, <4>2
    <3> QED
      BY <3>4, <3>5
  <2>7. receipts' \in [TaskIds -> SUBSET Ops]
    BY <1>0, <2>1
  <2> QED
    BY <2>1, <2>2, <2>5, <2>6, <2>7 DEF EngineOK, Commit
<1> QED
  BY <1>1, <1>2

\* The variables of the workers other than the engine's and the table's.
WorkerType ==
  /\ pc \in [Instances -> {"idle", "list", "batch", "claim", "model",
                           "store", "reclaim", "apply"}]
  /\ batch \in [Instances -> SUBSET (TaskIds \X {"pending", "ready"})]
  /\ look \in [Instances -> [id : 0 .. MaxTasks, version : Nat,
                             before : Nat, day : 0 .. MaxDay]]
  /\ claim \in [Instances -> [id : 0 .. MaxTasks, token : Nat,
                              ops : SUBSET Ops, refused : SUBSET Ops]]

RestType ==
  /\ receipts \in [TaskIds -> SUBSET Ops]
  /\ emitted \subseteq Signals
  /\ today \in Days
  /\ runs \in [Days -> Nat]

LEMMA TypeParts ==
  TypeOK <=> task \in [TaskIds -> Rows] /\ EngineType /\ WorkerType /\ RestType
  BY DEF TypeOK, EngineType, WorkerType, RestType

LEMMA IInvParts ==
  IInv <=> TableOK /\ EngineOK /\ WorkerType /\ RestType /\ WorkersOK
  BY TypeParts DEF IInv, TableOK, EngineOK

\* A step is put together from its parts; i is the worker that moves, if any.
LEMMA Assembled ==
  ASSUME IInv, TableOK', EngineOK', WorkerType', RestType', Grows,
         NEW i \in Instances, TypeOK' => WorkerOK(i)',
         \A j \in Instances \ {i} : /\ pc'[j] = pc[j] /\ batch'[j] = batch[j]
                                    /\ look'[j] = look[j] /\ claim'[j] = claim[j]
  PROVE  IInv'
<1>1. TypeOK'
  BY TypeParts DEF TableOK, EngineOK, TypeOK, EngineType, WorkerType, RestType
<1>2. WorkersOK'
  BY <1>1, WorkersKept DEF IInv
<1> QED
  BY <1>1, <1>2 DEF IInv, TableOK, EngineOK

\* The same when no worker moves.
LEMMA AssembledStill ==
  ASSUME IInv, TableOK', EngineOK', RestType', Grows, UNCHANGED worker
  PROVE  IInv'
<1>1. WorkerType'
  BY TypeParts DEF IInv, WorkerType, worker
<1>2. TypeOK'
  BY <1>1 DEF TableOK, EngineOK, TypeOK, EngineType, WorkerType, RestType
<1>3. WorkersOK'
  BY <1>2, WorkersSame DEF IInv
<1> QED
  BY <1>2, <1>3 DEF IInv, TableOK, EngineOK

-----------------------------------------------------------------------------
(* The initial states                                                      *)

LEMMA InitOK == Init => IInv
<1> SUFFICES ASSUME Init PROVE IInv
  OBVIOUS
<1>0. MaxTasks \in Nat /\ MaxDay \in Nat \ {0}
  BY ConstantsAssumption
<1>1. Blank \in Rows /\ RowOK(Blank) /\ Blank.state = "none"
  BY BlankType DEF Blank, RowOK
<1>2. Earlier \in Rows /\ RowOK(Earlier) /\ Earlier.state = "done" /\ Earlier.product = {}
  <2>1. /\ Blank.t = 0 /\ Blank.token = 0 /\ Blank.product = {}
        /\ Blank.state = "none" /\ Blank.attempts = 0 /\ Blank.applies = 0
    BY DEF Blank
  <2>2. Earlier \in Rows
    BY <1>1 DEF Earlier, Rows, States
  <2>3. /\ Earlier.state = "done" /\ Earlier.attempts = 1 /\ Earlier.applies = 1
        /\ Earlier.before = 1 /\ Earlier.t = 0 /\ Earlier.token = 0
        /\ Earlier.product = {}
    BY <1>1, <2>1 DEF Earlier, Rows
  <2> QED
    BY <2>2, <2>3 DEF RowOK
<1>3. TableOK
  <2>1. \A id \in TaskIds : task[id] = Blank \/ task[id] = Earlier
    BY DEF Init
  <2>2. task \in [TaskIds -> Rows]
    BY <1>1, <1>2 DEF Init
  <2>3. RowsOK
    BY <1>1, <1>2, <2>1 DEF RowsOK
  <2> QED
    BY <2>2, <2>3 DEF TableOK
<1>4. EngineOK
  BY DEF Init, EngineOK, EngineType, EngineStates, NoEffects, Coherent, OperationExactlyOnce
<1>5. WorkerType
  BY <1>0 DEF Init, WorkerType, NoLook, NoClaim
<1>6. RestType
  BY <1>0 DEF Init, RestType, Days
<1>7. WorkersOK
  BY DEF Init, WorkersOK, WorkerOK, BatchOK, LookOK, HeldOK
<1> QED
  BY <1>3, <1>4, <1>5, <1>6, <1>7, IInvParts

-----------------------------------------------------------------------------
(* Steps of the table and of time                                          *)

LEMMA EmitStep ==
  ASSUME IInv, NEW i \in Instances, NEW s \in Signals, Emit(i, s)
  PROVE  IInv'
<1>0. TableOK /\ EngineOK /\ RestType /\ TypeOK
  BY IInvParts DEF IInv
<1>1. EngineOK'
  BY <1>0, EngineSame DEF Emit, engine, EngineOK, EngineType
<1>2. RestType'
  BY <1>0 DEF Emit, RestType, calendar
<1>3. s \in Nat
  BY ConstantsAssumption
<1>4. TableOK' /\ Grows
  <2>1. CASE \E id \in Mergeable(KeyOf[s]) :
               task' = [task EXCEPT ![id].t = Max({@, s}), ![id].version = @ + 1]
    <3>1. PICK id \in Mergeable(KeyOf[s]) :
            task' = [task EXCEPT ![id].t = Max({@, s}), ![id].version = @ + 1]
      BY <2>1
    <3> DEFINE r == task[id]
               t == Max({r.t, s})
               new == [r EXCEPT !.t = t, !.version = @ + 1]
    <3>2. /\ id \in TaskIds /\ r \in Rows /\ RowOK(r)
          /\ r.state = "pending" /\ r.attempts = 0
      BY <1>0 DEF Mergeable, TableOK, RowsOK
    <3>3. t \in Nat
      BY <1>3, <3>2, MaxOfTwo DEF Rows
    <3>4. task' = [task EXCEPT ![id] = new]
      BY <3>1, <3>2
    <3>5. new \in Rows /\ RowOK(new) /\ Evolves(r, new) /\ new.state = "pending"
      <4> HIDE DEF t
      <4> QED
        BY <3>2, <3>3, MergedRow
    <3> HIDE DEF new
    <3> QED
      BY <1>0, <3>2, <3>4, <3>5, RowChanged DEF Emit
  <2>2. CASE \E id \in TaskIds,
                dedupe \in IF Answered(KeyOf[s]) = {} THEN {0} ELSE Answered(KeyOf[s]) :
               /\ Fresh(id)
               /\ task' = [task EXCEPT ![id] =
                    [Blank EXCEPT !.state = "pending", !.key = KeyOf[s], !.t = s,
                                  !.due = TRUE, !.dedupe = dedupe]]
    <3>1. PICK id \in TaskIds,
               dedupe \in IF Answered(KeyOf[s]) = {} THEN {0} ELSE Answered(KeyOf[s]) :
               /\ Fresh(id)
               /\ task' = [task EXCEPT ![id] =
                    [Blank EXCEPT !.state = "pending", !.key = KeyOf[s], !.t = s,
                                  !.due = TRUE, !.dedupe = dedupe]]
      BY <2>2
    <3> DEFINE new == [Blank EXCEPT !.state = "pending", !.key = KeyOf[s], !.t = s,
                                    !.due = TRUE, !.dedupe = dedupe]
    <3>2. dedupe \in 0 .. MaxTasks
      BY <3>1, ConstantsAssumption DEF Answered, TaskIds
    <3>3. Blank \in Rows /\ KeyOf[s] \in Keys
      BY BlankType
    <3>4. new \in Rows /\ RowOK(new) /\ new.state = "pending"
      <4>1. new \in Rows
        BY <1>3, <3>2, <3>3 DEF Rows, States
      <4>2. /\ Blank.before = 0 /\ Blank.token = 0
            /\ Blank.attempts = 0 /\ Blank.applies = 0
        BY DEF Blank
      <4>3. /\ new.state = "pending" /\ new.attempts = 0 /\ new.applies = 0
            /\ new.before = 0 /\ new.token = 0
        BY <3>3, <4>2 DEF Rows
      <4> HIDE DEF new
      <4> QED
        BY <4>1, <4>3 DEF RowOK
    <3>5. Evolves(task[id], new)
      BY <3>1 DEF Fresh, Evolves
    <3> HIDE DEF new
    <3> QED
      BY <1>0, <3>1, <3>4, <3>5, RowChanged DEF Emit, new
  <2> QED
    BY <2>1, <2>2 DEF Emit
<1> QED
  BY <1>1, <1>2, <1>4, AssembledStill DEF Emit

LEMMA TimeStep ==
  ASSUME IInv, NEW id \in TaskIds,
         LeaseRunsOut(id) \/ BackoffElapses(id) \/ TTLElapses(id)
  PROVE  IInv'
<1>0. TableOK /\ EngineOK /\ RestType /\ TypeOK
  BY IInvParts DEF IInv
<1>1. UNCHANGED <<receipts, emitted, calendar, engine, worker>>
  BY DEF LeaseRunsOut, BackoffElapses, TTLElapses
<1>2. PICK s \in {[task[id] EXCEPT !.live = FALSE], [task[id] EXCEPT !.due = TRUE],
                  [task[id] EXCEPT !.recent = FALSE]} :
        task' = [task EXCEPT ![id] = s]
  BY DEF LeaseRunsOut, BackoffElapses, TTLElapses
<1>3. task[id] \in Rows /\ RowOK(task[id])
  BY <1>0 DEF TableOK, RowsOK
<1>4. /\ s \in Rows /\ RowOK(s) /\ Evolves(task[id], s)
      /\ s.state = task[id].state /\ s.product = task[id].product
  BY <1>2, <1>3, ElapsedRow
<1>5. TableOK' /\ Grows
  BY <1>0, <1>1, <1>2, <1>4, RowChanged
<1>6. EngineOK' /\ RestType'
  BY <1>0, <1>1, EngineSame DEF engine, EngineOK, EngineType, RestType, calendar
<1> QED
  BY <1>1, <1>5, <1>6, AssembledStill

LEMMA NewDayStep ==
  ASSUME IInv, NewDay
  PROVE  IInv'
<1>0. TableOK /\ EngineOK /\ RestType /\ TypeOK
  BY IInvParts DEF IInv
<1>1. EngineOK'
  BY <1>0, EngineSame DEF NewDay, engine, table, EngineOK, EngineType
<1>2. RestType'
  BY <1>0, ConstantsAssumption DEF NewDay, RestType, table, Days
<1>3. TableOK' /\ Grows
  BY <1>0, TableSame DEF NewDay, table
<1> QED
  BY <1>1, <1>2, <1>3, AssembledStill DEF NewDay

LEMMA OtherCommitStep ==
  ASSUME IInv, NEW i \in Instances, OtherCommit(i)
  PROVE  IInv'
<1>0. TableOK /\ EngineOK /\ RestType /\ TypeOK
  BY IInvParts DEF IInv
<1>1. EngineOK'
  BY <1>0, CommitSame DEF OtherCommit, table
<1>2. RestType'
  BY <1>0 DEF OtherCommit, RestType, table, calendar
<1>3. TableOK' /\ Grows
  BY <1>0, TableSame DEF OtherCommit, table
<1> QED
  BY <1>1, <1>2, <1>3, AssembledStill DEF OtherCommit

LEMMA StaleToolStep ==
  ASSUME IInv, NEW i \in Instances, StaleTool(i)
  PROVE  IInv'
<1>0. TableOK /\ EngineOK /\ RestType /\ TypeOK
  BY IInvParts DEF IInv
<1>1. EngineOK'
  BY <1>0, EngineSame DEF StaleTool, table, EngineOK, EngineType
<1>2. RestType'
  BY <1>0 DEF StaleTool, RestType, table, calendar
<1>3. TableOK' /\ Grows
  BY <1>0, TableSame DEF StaleTool, table
<1> QED
  BY <1>1, <1>2, <1>3, AssembledStill DEF StaleTool

LEMMA StartStep ==
  ASSUME IInv, NEW i \in Instances, Start(i)
  PROVE  IInv'
<1>0. TableOK /\ EngineOK /\ RestType /\ TypeOK
  BY IInvParts DEF IInv
<1>1. EngineOK'
  BY <1>0 DEF Start, table, EngineOK, EngineType, Coherent, OperationExactlyOnce
<1>2. RestType'
  BY <1>0 DEF Start, RestType, table, calendar
<1>3. TableOK' /\ Grows
  BY <1>0, TableSame DEF Start, table
<1> QED
  BY <1>1, <1>2, <1>3, AssembledStill DEF Start

LEMMA CrashStep ==
  ASSUME IInv, NEW i \in Instances, Crash(i)
  PROVE  IInv'
<1>0. TableOK /\ EngineOK /\ RestType /\ TypeOK /\ WorkerType /\ WorkerOK(i)
  BY IInvParts DEF IInv, WorkersOK
<1>1. EngineOK'
  BY <1>0 DEF Crash, table, EngineOK, EngineType, EngineStates, NoEffects,
              Coherent, OperationExactlyOnce
<1>2. RestType'
  BY <1>0 DEF Crash, RestType, table, calendar
<1>3. TableOK' /\ Grows
  BY <1>0, TableSame DEF Crash, table
<1>4. WorkerType'
  BY <1>0, ConstantsAssumption, SMTT(30) DEF Crash, Pass, WorkerType, NoLook, NoClaim
<1>5. pc'[i] = "idle" /\ batch'[i] \subseteq batch[i]
  BY <1>0 DEF Crash, Pass, WorkerType
<1>6. WorkerOK(i)'
  BY <1>0, <1>3, <1>5, WorkerFree
<1>7. \A j \in Instances \ {i} : /\ pc'[j] = pc[j] /\ batch'[j] = batch[j]
                                 /\ look'[j] = look[j] /\ claim'[j] = claim[j]
  BY <1>0 DEF Crash, Pass, WorkerType
<1> QED
  BY <1>1, <1>2, <1>3, <1>4, <1>6, <1>7, Assembled

-----------------------------------------------------------------------------
(* Steps of a pass                                                         *)

\* What every step starts from.
LEMMA Parts ==
  ASSUME IInv, NEW i \in Instances
  PROVE  /\ TypeOK /\ TableOK /\ EngineOK /\ WorkerType /\ RestType
         /\ WorkerOK(i) /\ BatchOK(i) /\ LookOK(i) /\ HeldOK(i)
  BY IInvParts DEF IInv, WorkersOK, WorkerOK

LEMMA RecoverStep ==
  ASSUME IInv, NEW i \in Instances, RecoverExpired(i)
  PROVE  IInv'
<1>0. /\ TypeOK /\ TableOK /\ EngineOK /\ WorkerType /\ RestType /\ WorkerOK(i)
  BY Parts
<1>1. EngineOK' /\ RestType'
  BY <1>0, EngineSame DEF RecoverExpired, engine, EngineOK, EngineType, RestType, calendar
<1>2. ASSUME NEW id \in TaskIds
      PROVE  /\ task'[id] \in Rows /\ RowOK(task'[id]) /\ Evolves(task[id], task'[id])
             /\ task'[id].state = "done" => task'[id] = task[id]
  <2>1. task[id] \in Rows /\ RowOK(task[id]) /\ task'[id] = Recovered(task[id])
    BY <1>0 DEF TableOK, RowsOK, RecoverExpired
  <2> QED
    BY <2>1, RecoveredRow
<1>3. TableOK' /\ Grows
  <2>1. task' \in [TaskIds -> Rows]
    BY <1>2 DEF RecoverExpired
  <2>2. RowsOK' /\ Grows
    BY <1>2 DEF RowsOK, Grows, RecoverExpired
  <2> QED
    BY <2>1, <2>2 DEF TableOK
<1>4. WorkerType'
  BY <1>0 DEF RecoverExpired, WorkerType
<1>5. WorkerOK(i)'
  BY <1>0, <1>3, WorkerFree DEF RecoverExpired, WorkerType
<1> QED
  BY <1>0, <1>1, <1>3, <1>4, <1>5, Assembled DEF RecoverExpired, WorkerType

LEMMA ListStep ==
  ASSUME IInv, NEW i \in Instances, List(i)
  PROVE  IInv'
<1>0. /\ TypeOK /\ TableOK /\ EngineOK /\ WorkerType /\ RestType
  BY Parts
<1>1. EngineOK' /\ RestType'
  BY <1>0, EngineSame DEF List, table, engine, EngineOK, EngineType, RestType, calendar
<1>2. TableOK' /\ Grows
  BY <1>0, TableSame DEF List, table
<1>3. WorkerType'
  BY <1>0 DEF List, WorkerType
<1>4. pc'[i] = "batch"
  BY <1>0 DEF List, WorkerType
<1>5. BatchOK(i)'
  BY <1>0 DEF List, WorkerType, BatchOK, table
<1>6. WorkerOK(i)'
  BY <1>4, <1>5 DEF WorkerOK, LookOK, HeldOK
<1> QED
  BY <1>0, <1>1, <1>2, <1>3, <1>6, Assembled DEF List, WorkerType

LEMMA SkipStep ==
  ASSUME IInv, NEW i \in Instances, SkipRecent(i)
  PROVE  IInv'
<1>0. /\ TypeOK /\ TableOK /\ EngineOK /\ WorkerType /\ RestType /\ WorkerOK(i)
  BY Parts
<1>1. EngineOK' /\ RestType'
  BY <1>0, EngineSame DEF SkipRecent, engine, EngineOK, EngineType, RestType, calendar
<1>2. PICK item \in batch[i] :
        /\ Turn(i, item) /\ Recent(item[1])
        /\ task' = [task EXCEPT ![item[1]].state = "skipped"]
  BY DEF SkipRecent
<1> DEFINE id == item[1]
           s == [task[id] EXCEPT !.state = "skipped"]
<1>3. /\ id \in TaskIds /\ task[id] \in Rows /\ RowOK(task[id])
      /\ task[id].state = "pending" /\ task[id].attempts = 0
  BY <1>0, <1>2 DEF WorkerType, TableOK, RowsOK, Recent
<1>4. task' = [task EXCEPT ![id] = s]
  BY <1>2
<1>5. s \in Rows /\ RowOK(s) /\ Evolves(task[id], s) /\ s.state = "skipped"
  BY <1>3, SkippedRow
<1>6. TableOK' /\ Grows
  <2> HIDE DEF s, id
  <2> QED
    BY <1>0, <1>3, <1>4, <1>5, RowChanged DEF SkipRecent
<1>7. WorkerType' /\ batch'[i] \subseteq batch[i] /\ pc'[i] = "batch"
  BY <1>0, <1>2 DEF SkipRecent, Turn, WorkerType
<1>8. WorkerOK(i)'
  BY <1>0, <1>6, <1>7, WorkerFree
<1> QED
  BY <1>0, <1>1, <1>2, <1>6, <1>7, <1>8, Assembled DEF SkipRecent, Turn, WorkerType

LEMMA DeferStep ==
  ASSUME IInv, NEW i \in Instances, Defer(i) \/ EndPass(i)
  PROVE  IInv'
<1>0. /\ TypeOK /\ TableOK /\ EngineOK /\ WorkerType /\ RestType /\ WorkerOK(i)
  BY Parts
<1>1. UNCHANGED <<table, calendar, engine, look, claim>>
  BY DEF Defer, EndPass
<1>2. EngineOK' /\ RestType'
  BY <1>0, <1>1, EngineSame DEF table, engine, EngineOK, EngineType, RestType, calendar
<1>3. TableOK' /\ Grows
  BY <1>0, <1>1, TableSame DEF table
<1>4. /\ WorkerType' /\ batch'[i] \subseteq batch[i] /\ pc'[i] \in {"batch", "idle"}
      /\ \A j \in Instances \ {i} : pc'[j] = pc[j] /\ batch'[j] = batch[j]
  BY <1>0, SMTT(30) DEF Defer, EndPass, Turn, WorkerType
<1>5. WorkerOK(i)'
  BY <1>0, <1>3, <1>4, WorkerFree
<1> QED
  BY <1>1, <1>2, <1>3, <1>4, <1>5, Assembled

\* What is read of a row in use is right for as long as its version stands.
LEMMA ReadingOK ==
  ASSUME TypeOK, RowsOK, NEW id \in TaskIds
  PROVE  LET l == Reading(id) IN
         /\ l \in [id : 0 .. MaxTasks, version : Nat, before : Nat, day : 0 .. MaxDay]
         /\ l.id = id /\ l.version = task[id].version
         /\ task[id].attempts = 0 => l.before = task[id].t + 1
<1>1. task[id] \in Rows /\ RowOK(task[id])
  BY DEF TypeOK, RowsOK
<1>2. /\ task[id].version \in Nat /\ task[id].before \in Nat /\ task[id].t \in Nat
      /\ id \in 0 .. MaxTasks /\ today \in 0 .. MaxDay
  BY <1>1, ConstantsAssumption DEF Rows, TypeOK, TaskIds, Days
<1> QED
  BY <1>1, <1>2 DEF Reading, RowOK

LEMMA LookStep ==
  ASSUME IInv, NEW i \in Instances, Look(i) \/ LookAgain(i)
  PROVE  IInv'
<1>0. /\ TypeOK /\ TableOK /\ EngineOK /\ WorkerType /\ RestType /\ RowsOK
      /\ BatchOK(i) /\ HeldOK(i)
  BY Parts DEF TableOK
<1>1. UNCHANGED <<table, calendar, engine>>
  BY DEF Look, LookAgain
<1>2. EngineOK' /\ RestType'
  BY <1>0, <1>1, EngineSame DEF table, engine, EngineOK, EngineType, RestType, calendar
<1>3. TableOK' /\ Grows
  BY <1>0, <1>1, TableSame DEF table
<1>4. PICK id \in TaskIds :
        /\ task[id].state # "none"
        /\ look' = [look EXCEPT ![i] = Reading(id)]
        /\ batch'[i] \subseteq batch[i]
        /\ \A j \in Instances \ {i} : batch'[j] = batch[j] /\ claim'[j] = claim[j]
        /\ batch' \in [Instances -> SUBSET (TaskIds \X {"pending", "ready"})]
        /\ claim' \in [Instances -> [id : 0 .. MaxTasks, token : Nat, ops : SUBSET Ops, refused : SUBSET Ops]]
  <2>1. CASE Look(i)
    <3>1. PICK item \in batch[i] :
            Turn(i, item) /\ look' = [look EXCEPT ![i] = Reading(item[1])]
      BY <2>1 DEF Look
    <3>2. item[1] \in TaskIds /\ task[item[1]].state # "none"
      BY <1>0, <3>1 DEF BatchOK, WorkerType
    <3>3. /\ batch'[i] \subseteq batch[i]
          /\ \A j \in Instances \ {i} : batch'[j] = batch[j]
          /\ batch' \in [Instances -> SUBSET (TaskIds \X {"pending", "ready"})]
      BY <1>0, <3>1 DEF Turn, WorkerType
    <3>4. claim' = claim
      BY <2>1 DEF Look
    <3> QED
      BY <1>0, <3>1, <3>2, <3>3, <3>4 DEF WorkerType
  <2>2. CASE LookAgain(i)
    <3>1. claim[i].id \in TaskIds /\ task[claim[i].id].state # "none"
      BY <1>0, <2>2, HeldRow DEF LookAgain
    <3>2. batch' = batch /\ look' = [look EXCEPT ![i] = Reading(claim[i].id)]
      BY <2>2 DEF LookAgain
    <3>3. /\ \A j \in Instances \ {i} : claim'[j] = claim[j]
          /\ claim' \in [Instances -> [id : 0 .. MaxTasks, token : Nat, ops : SUBSET Ops, refused : SUBSET Ops]]
      BY <1>0, <2>2, ConstantsAssumption DEF LookAgain, Pass, NoClaim, WorkerType
    <3> QED
      BY <1>0, <3>1, <3>2, <3>3 DEF WorkerType
  <2> QED
    BY <2>1, <2>2
<1>5. pc' = [pc EXCEPT ![i] = "claim"]
  BY DEF Look, LookAgain, Pass
<1>6. WorkerType'
  BY <1>0, <1>4, <1>5, ReadingOK DEF WorkerType
<1>7. look'[i] = Reading(id) /\ pc'[i] = "claim" /\ task' = task
  BY <1>0, <1>1, <1>4, <1>5 DEF WorkerType, table
<1>8. LookOK(i)' /\ HeldOK(i)'
  <2>1. task[id].version \in Nat
    BY <1>0 DEF TableOK, Rows
  <2> QED
    BY <1>0, <1>4, <1>7, <2>1, ReadingOK DEF LookOK, HeldOK
<1>9. BatchOK(i)'
  BY <1>0, <1>3, <1>4, BatchKept
<1> QED
  BY <1>0, <1>2, <1>3, <1>4, <1>5, <1>6, <1>8, <1>9, Assembled DEF WorkerOK, WorkerType

LEMMA RefusedStep ==
  ASSUME IInv, NEW i \in Instances, ClaimRefused(i)
  PROVE  IInv'
<1>0. /\ TypeOK /\ TableOK /\ EngineOK /\ WorkerType /\ RestType /\ WorkerOK(i)
  BY Parts
<1>1. EngineOK' /\ RestType'
  BY <1>0, EngineSame
     DEF ClaimRefused, MayFault, table, EngineOK, EngineType, RestType, calendar
<1>2. TableOK' /\ Grows
  BY <1>0, TableSame DEF ClaimRefused, table
<1>3. WorkerType' /\ batch' = batch /\ pc'[i] = "batch"
  BY <1>0, ConstantsAssumption, SMTT(30) DEF ClaimRefused, Pass, WorkerType, NoLook, NoClaim
<1>4. WorkerOK(i)'
  BY <1>0, <1>2, <1>3, WorkerFree
<1> QED
  BY <1>0, <1>1, <1>2, <1>3, <1>4, Assembled DEF ClaimRefused, Pass, WorkerType

LEMMA StopStep ==
  ASSUME IInv, NEW i \in Instances, Stop(i)
  PROVE  IInv'
<1>0. /\ TypeOK /\ TableOK /\ EngineOK /\ WorkerType /\ RestType /\ WorkerOK(i)
  BY Parts
<1>1. EngineOK' /\ RestType'
  BY <1>0, EngineSame
     DEF Stop, table, engine, EngineOK, EngineType, RestType, calendar
<1>2. TableOK' /\ Grows
  BY <1>0, TableSame DEF Stop, table
<1>3. WorkerType' /\ batch'[i] \subseteq batch[i] /\ pc'[i] = "idle"
  <2>1. /\ batch' = [batch EXCEPT ![i] = {}] /\ look' = look
        /\ pc' = [pc EXCEPT ![i] = "idle"]
        /\ claim' = [claim EXCEPT ![i] = NoClaim]
    BY DEF Stop, Pass
  <2>2. NoClaim \in [id : 0..MaxTasks, token : Nat, ops : SUBSET Ops,
                    refused : SUBSET Ops]
    BY ConstantsAssumption DEF NoClaim
  <2> QED
    BY <1>0, <2>1, <2>2 DEF WorkerType
<1>4. WorkerOK(i)'
  BY <1>0, <1>2, <1>3, WorkerFree
<1>5. \A j \in Instances \ {i} : /\ pc'[j] = pc[j] /\ batch'[j] = batch[j]
                                 /\ look'[j] = look[j] /\ claim'[j] = claim[j]
  BY <1>0 DEF Stop, Pass, WorkerType
<1> QED
  BY <1>1, <1>2, <1>3, <1>4, <1>5, Assembled

-----------------------------------------------------------------------------
(* Steps of a claim                                                        *)

LEMMA ClaimStep ==
  ASSUME IInv, NEW i \in Instances, Claim(i)
  PROVE  IInv'
<1>0. /\ TypeOK /\ TableOK /\ EngineOK /\ WorkerType /\ RestType
      /\ BatchOK(i) /\ LookOK(i) /\ WorkerOK(i)
  BY Parts
<1> DEFINE id == look[i].id
           row == Claimed(task[id], look[i].before)
<1>1. PICK acknowledged \in BOOLEAN :
        /\ Commit(i, mem[i], acknowledged)
        /\ IF acknowledged
           THEN /\ pc' = [pc EXCEPT ![i] = IF row.state = "running"
                                           THEN "model" ELSE "apply"]
                /\ claim' = [claim EXCEPT ![i] =
                     [id |-> id, token |-> row.token, ops |-> row.product,
                      refused |-> {}]]
           ELSE Pass(i, "batch")
  BY DEF Claim
<1>2. EngineOK'
  BY <1>0, <1>1, CommitSame DEF Claim
<1>3. /\ id \in TaskIds /\ task[id] \in Rows /\ RowOK(task[id])
      /\ task[id].state \in {"pending", "ready"}
      /\ look[i].before \in Nat
      /\ task[id].attempts = 0 => look[i].before = task[id].t + 1
  BY <1>0 DEF Claim, Claimable, LookOK, TableOK, RowsOK, WorkerType
<1>4. /\ row \in Rows /\ RowOK(row) /\ Evolves(task[id], row)
      /\ row.token = task[id].attempts + task[id].applies + 1
      /\ row.token = row.attempts + row.applies
      /\ row.product = task[id].product
      /\ row.state = IF task[id].state = "ready" THEN "applying" ELSE "running"
  BY <1>3, ClaimedRow
<1>5. task' = [task EXCEPT ![id] = row] /\ UNCHANGED <<receipts, emitted, today, batch>>
  BY DEF Claim
<1>6. TableOK' /\ Grows
  <2> HIDE DEF row, id
  <2> QED
    BY <1>0, <1>3, <1>4, <1>5, RowChanged
<1>7. RestType'
  <2>1. runs' \in [Days -> Nat]
    <3> DEFINE day == look[i].day
    <3>1. runs' = [runs EXCEPT ![day] = runs[day] + 1] \/ runs' = runs
      BY DEF Claim
    <3>2. runs \in [Days -> Nat]
      BY <1>0 DEF RestType
    <3>3. CASE day \in Days
      <4>1. runs[day] + 1 \in Nat
        BY <3>2, <3>3
      <4> QED
        BY <3>1, <3>2, <4>1
    <3>4. CASE day \notin Days
      BY <3>1, <3>2, <3>4
    <3> QED
      BY <3>3, <3>4
  <2> QED
    BY <1>0, <1>5, <2>1 DEF RestType
<1>8. task'[id] = row
  BY <1>0, <1>3, <1>5 DEF TableOK
<1>9. row.attempts \in Nat /\ row.applies \in Nat /\ row.product \in SUBSET Ops
  BY <1>4 DEF Rows
<1>10. row.token \in 1 .. row.attempts + row.applies
  BY <1>3, <1>4, <1>9 DEF Rows
<1> HIDE DEF row, id
<1>11. WorkerType'
  <2>1. id \in 0 .. MaxTasks /\ row.token \in Nat
    BY <1>3, <1>10, ConstantsAssumption DEF TaskIds
  <2>2. /\ look' \in [Instances -> [id : 0 .. MaxTasks, version : Nat,
                                    before : Nat, day : 0 .. MaxDay]]
        /\ batch' = batch
    BY <1>0, <1>5, ConstantsAssumption DEF Claim, NoLook, WorkerType
  <2>3. pc' \in [Instances -> {"idle", "list", "batch", "claim", "model",
                               "store", "reclaim", "apply"}]
    BY <1>0, <1>1 DEF Pass, WorkerType
  <2>4. claim' \in [Instances -> [id : 0 .. MaxTasks, token : Nat, ops : SUBSET Ops, refused : SUBSET Ops]]
    <3> DEFINE c == [id |-> id, token |-> row.token, ops |-> row.product,
                     refused |-> {}]
               C == [id : 0 .. MaxTasks, token : Nat, ops : SUBSET Ops, refused : SUBSET Ops]
    <3>1. c \in C /\ NoClaim \in C
      BY <1>9, <2>1, ConstantsAssumption DEF NoClaim
    <3>2. claim \in [Instances -> C]
      BY <1>0 DEF WorkerType
    <3>3. claim' = [claim EXCEPT ![i] = c] \/ claim' = [claim EXCEPT ![i] = NoClaim]
      BY <1>1 DEF Pass
    <3> HIDE DEF c, C
    <3>4. claim' \in [Instances -> C]
      BY <3>1, <3>2, <3>3
    <3> QED
      BY <3>4 DEF C
  <2> QED
    BY <1>0, <2>2, <2>3, <2>4 DEF WorkerType
<1>12. WorkerOK(i)'
  <2>1. CASE ~acknowledged
    <3>1. pc'[i] = "batch"
      BY <1>0, <1>1, <2>1 DEF Pass, WorkerType
    <3> QED
      BY <1>0, <1>5, <1>6, <3>1, WorkerFree
  <2>2. CASE acknowledged
    <3>1. /\ pc'[i] = IF row.state = "running" THEN "model" ELSE "apply"
          /\ claim'[i] = [id |-> id, token |-> row.token, ops |-> row.product,
                         refused |-> {}]
      BY <1>0, <1>1, <2>2 DEF WorkerType
    <3>2. claim'[i].id = id /\ claim'[i].token = row.token /\ claim'[i].ops = row.product
      BY <3>1
    <3>3. HeldOK(i)'
      BY <1>3, <1>4, <1>8, <1>10, <3>1, <3>2 DEF HeldOK
    <3>4. BatchOK(i)'
      BY <1>0, <1>5, <1>6, BatchKept
    <3> QED
      BY <3>1, <3>3, <3>4 DEF WorkerOK, LookOK
  <2> QED
    BY <2>1, <2>2
<1>13. \A j \in Instances \ {i} : /\ pc'[j] = pc[j] /\ batch'[j] = batch[j]
                                  /\ look'[j] = look[j] /\ claim'[j] = claim[j]
  BY <1>0, <1>1, <1>5 DEF Claim, Pass, WorkerType
<1> QED
  BY <1>2, <1>6, <1>7, <1>11, <1>12, <1>13, Assembled

\* The end of a claim by retry(): the row goes back if it is still held.
LEMMA RetryOK ==
  ASSUME IInv, NEW i \in Instances, Retry(i),
         pc[i] \in {"model", "store", "apply"},
         \A id \in TaskIds : receipts[id] \subseteq receipts'[id]
  PROVE  /\ TableOK' /\ Grows
         /\ pc' = [pc EXCEPT ![i] = "batch"]
         /\ claim' = [claim EXCEPT ![i] = NoClaim]
<1>0. TypeOK /\ TableOK /\ HeldOK(i) /\ RowsOK
  BY Parts DEF TableOK
<1> DEFINE id == claim[i].id
           s == Released(task[id], FALSE)
<1>1. id \in TaskIds /\ task[id] \in Rows /\ RowOK(task[id])
  BY <1>0, HeldRow DEF RowsOK
<1>2. CASE task' = task
  BY <1>0, <1>2, TableSame DEF Retry, Pass
<1>3. CASE Owned(i, {"running", "applying"})
  <2>1. task' = [task EXCEPT ![id] = s]
    BY <1>3 DEF Retry
  <2>2. task[id].state \in {"running", "applying"}
    BY <1>3 DEF Owned
  <2>3. /\ s \in Rows /\ RowOK(s) /\ Evolves(task[id], s)
        /\ s.state \in {"dead", "ready", "pending"}
    BY <1>1, <2>2, ReleasedRow
  <2> HIDE DEF s, id
  <2>4. task'[id] = s /\ \A other \in TaskIds \ {id} : task'[other] = task[other]
    BY <1>0, <1>1, <2>1 DEF TableOK
  <2>5. task' \in [TaskIds -> Rows] /\ RowsOK'
    BY <1>0, <1>1, <2>1, <2>3, <2>4 DEF TableOK, RowsOK
  <2>6. Grows
    BY <1>0, <2>3, <2>4, EvolvesSame DEF TableOK, Grows
  <2> QED
    BY <2>5, <2>6 DEF TableOK, Retry, Pass
<1> QED
  BY <1>2, <1>3 DEF Retry, Pass

LEMMA FailStep ==
  ASSUME IInv, NEW i \in Instances, InvestigateFails(i) \/ ApplyFails(i)
  PROVE  IInv'
<1>0. /\ TypeOK /\ TableOK /\ EngineOK /\ WorkerType /\ RestType /\ WorkerOK(i)
  BY Parts
<1>1. /\ Retry(i) /\ pc[i] \in {"model", "store", "apply"}
      /\ UNCHANGED <<receipts, emitted, calendar, disk, up, current, mem, batch, look>>
      /\ fault' \in [Instances -> BOOLEAN]
  BY <1>0 DEF InvestigateFails, ApplyFails, MayFault, EngineOK, EngineType
<1>2. EngineOK' /\ RestType'
  BY <1>0, <1>1, EngineSame DEF RestType, calendar
<1>3. /\ TableOK' /\ Grows
      /\ pc' = [pc EXCEPT ![i] = "batch"]
      /\ claim' = [claim EXCEPT ![i] = NoClaim]
  BY <1>1, RetryOK
<1>4. WorkerType' /\ pc'[i] = "batch"
  <2>1. NoClaim \in [id : 0 .. MaxTasks, token : Nat, ops : SUBSET Ops, refused : SUBSET Ops]
    BY ConstantsAssumption DEF NoClaim
  <2> QED
    BY <1>0, <1>1, <1>3, <2>1 DEF WorkerType
<1>5. WorkerOK(i)'
  BY <1>0, <1>1, <1>3, <1>4, WorkerFree
<1> QED
  BY <1>0, <1>1, <1>2, <1>3, <1>4, <1>5, Assembled DEF WorkerType

LEMMA AnswerStep ==
  ASSUME IInv, NEW i \in Instances, NEW ops \in SUBSET Ops, Answer(i, ops)
  PROVE  IInv'
<1>0. /\ TypeOK /\ TableOK /\ EngineOK /\ WorkerType /\ RestType
      /\ BatchOK(i) /\ HeldOK(i)
  BY Parts
<1>1. EngineOK' /\ RestType'
  BY <1>0, EngineSame DEF Answer, table, engine, EngineOK, EngineType, RestType, calendar
<1>2. TableOK' /\ Grows
  BY <1>0, TableSame DEF Answer, table
<1>3. /\ claim' = [claim EXCEPT ![i] = [claim[i] EXCEPT !.ops = ops]]
      /\ pc' = [pc EXCEPT ![i] = "store"]
      /\ batch' = batch /\ look' = look /\ task' = task /\ receipts' = receipts
  BY <1>0 DEF Answer, table, WorkerType
<1>4. claim[i] \in [id : 0 .. MaxTasks, token : Nat, ops : SUBSET Ops, refused : SUBSET Ops]
  BY <1>0 DEF WorkerType
<1>5. /\ [claim[i] EXCEPT !.ops = ops] \in [id : 0 .. MaxTasks, token : Nat, ops : SUBSET Ops, refused : SUBSET Ops]
      /\ [claim[i] EXCEPT !.ops = ops].id = claim[i].id
      /\ [claim[i] EXCEPT !.ops = ops].token = claim[i].token
  BY <1>4
<1>6. WorkerType'
  BY <1>0, <1>3, <1>5 DEF WorkerType
<1>7. pc'[i] = "store" /\ claim'[i].id = claim[i].id /\ claim'[i].token = claim[i].token
  BY <1>0, <1>3, <1>5 DEF WorkerType
<1>8. HeldOK(i)' /\ LookOK(i)'
  BY <1>0, <1>3, <1>7 DEF Answer, HeldOK, LookOK
<1>9. BatchOK(i)'
  BY <1>0, <1>2, <1>3, BatchKept
<1> QED
  BY <1>0, <1>1, <1>2, <1>3, <1>6, <1>8, <1>9, Assembled DEF WorkerOK, WorkerType

LEMMA StoreStep ==
  ASSUME IInv, NEW i \in Instances, StoreResult(i)
  PROVE  IInv'
<1>0. /\ TypeOK /\ TableOK /\ EngineOK /\ WorkerType /\ RestType /\ RowsOK
      /\ BatchOK(i) /\ HeldOK(i) /\ WorkerOK(i)
  BY Parts DEF TableOK
<1> DEFINE id == claim[i].id
           ops == claim[i].ops
           s == [task[id] EXCEPT !.product = ops, !.state = "ready", !.token = 0,
                                 !.live = FALSE, !.due = TRUE]
<1>1. PICK acknowledged \in BOOLEAN :
        /\ Commit(i, mem[i], acknowledged)
        /\ IF acknowledged
           THEN pc' = [pc EXCEPT ![i] = "reclaim"] /\ UNCHANGED claim
           ELSE Pass(i, "batch")
  BY DEF StoreResult
<1>2. EngineOK' /\ RestType'
  BY <1>0, <1>1, CommitSame DEF StoreResult, RestType, calendar
<1>3. /\ id \in TaskIds /\ task[id] \in Rows /\ RowOK(task[id])
      /\ task[id].state = "running" /\ ops \in SUBSET Ops
  BY <1>0 DEF StoreResult, Owned, TableOK, RowsOK, WorkerType
<1>4. task' = [task EXCEPT ![id] = s]
  BY <1>3 DEF StoreResult
<1>5. /\ s \in Rows /\ RowOK(s) /\ Evolves(task[id], s)
      /\ s.state = "ready" /\ s.token = 0
  <2> HIDE DEF id, ops
  <2> QED
    BY <1>3, StoredRow
<1> HIDE DEF s
<1>6. TableOK' /\ Grows
  BY <1>0, <1>3, <1>4, <1>5, RowChanged DEF StoreResult
<1>7. batch' = batch /\ look' = look
  BY DEF StoreResult
<1>8. WorkerType'
  <2>1. NoClaim \in [id : 0 .. MaxTasks, token : Nat, ops : SUBSET Ops, refused : SUBSET Ops]
    BY ConstantsAssumption DEF NoClaim
  <2>2. \/ pc' = [pc EXCEPT ![i] = "reclaim"] /\ claim' = claim
        \/ pc' = [pc EXCEPT ![i] = "batch"] /\ claim' = [claim EXCEPT ![i] = NoClaim]
    BY <1>1 DEF Pass
  <2> QED
    BY <1>0, <1>7, <2>1, <2>2, ZenonT(40) DEF WorkerType
<1>9. WorkerOK(i)'
  <2>1. CASE ~acknowledged
    <3>1. pc'[i] = "batch"
      BY <1>0, <1>1, <2>1 DEF Pass, WorkerType
    <3> QED
      BY <1>0, <1>6, <1>7, <3>1, WorkerFree
  <2>2. CASE acknowledged
    <3>1. pc'[i] = "reclaim" /\ claim' = claim
      BY <1>0, <1>1, <2>2 DEF WorkerType
    <3>2. task'[id] = s
      BY <1>0, <1>3, <1>4 DEF TableOK
    <3>3. claim[i].token \in 1 .. task[id].attempts + task[id].applies
      BY <1>0 DEF HeldOK, StoreResult
    <3>4. task[id].attempts + task[id].applies <= s.attempts + s.applies
      BY <1>3, <1>5 DEF Evolves, Rows
    <3>5. claim[i].token \in 1 .. s.attempts + s.applies
      BY <1>3, <1>5, <3>3, <3>4 DEF Rows
    <3>6. HeldOK(i)' /\ LookOK(i)'
      BY <1>3, <3>1, <3>2, <3>5 DEF HeldOK, LookOK
    <3>7. BatchOK(i)'
      BY <1>0, <1>6, <1>7, BatchKept
    <3> QED
      BY <3>6, <3>7 DEF WorkerOK
  <2> QED
    BY <2>1, <2>2
<1>10. \A j \in Instances \ {i} : /\ pc'[j] = pc[j] /\ batch'[j] = batch[j]
                                  /\ look'[j] = look[j] /\ claim'[j] = claim[j]
  BY <1>0, <1>1, <1>7 DEF Pass, WorkerType
<1> QED
  BY <1>2, <1>6, <1>8, <1>9, <1>10, Assembled

LEMMA ToolStep ==
  ASSUME IInv, NEW i \in Instances, NEW op \in Ops, Tool(i, op)
  PROVE  IInv'
<1>0. /\ TypeOK /\ TableOK /\ EngineOK /\ RestType /\ HeldOK(i)
  BY Parts
<1>1. claim[i].id \in TaskIds
  BY <1>0 DEF Tool, Owned
<1>2. /\ EngineOK'
      /\ receipts' \in [TaskIds -> SUBSET Ops]
      /\ receipts' = [receipts EXCEPT ![claim[i].id] = @ \cup {op}]
  BY <1>0, <1>1, OperationOK DEF Tool
<1>3. \A id \in TaskIds : receipts[id] \subseteq receipts'[id]
  BY <1>0, <1>2 DEF RestType
<1>4. TableOK' /\ Grows
  BY <1>0, <1>3, TableSame DEF Tool
<1>5. RestType'
  BY <1>0, <1>2 DEF Tool, RestType, calendar
<1> QED
  BY <1>2, <1>4, <1>5, AssembledStill DEF Tool

LEMMA ApplyStep ==
  ASSUME IInv, NEW i \in Instances, Apply(i)
  PROVE  IInv'
<1>0. /\ TypeOK /\ TableOK /\ EngineOK /\ WorkerType /\ RestType /\ RowsOK
      /\ BatchOK(i) /\ HeldOK(i) /\ WorkerOK(i)
  BY Parts DEF TableOK
<1> DEFINE id == claim[i].id
           C == [id : 0 .. MaxTasks, token : Nat, ops : SUBSET Ops, refused : SUBSET Ops]
<1>1. PICK op \in Ops :
        /\ NextOp(i, op)
        /\ ApplyOperation(i, op)
        /\ IF fault'[i]
           THEN Retry(i)
           ELSE /\ claim' = [claim EXCEPT ![i].ops = @ \ {op}]
                /\ UNCHANGED <<task, pc>>
  BY DEF Apply
<1>2. id \in TaskIds
  BY <1>0 DEF Apply, Owned
<1>3. /\ EngineOK'
      /\ receipts' \in [TaskIds -> SUBSET Ops]
      /\ receipts' = [receipts EXCEPT ![id] = @ \cup {op}]
  BY <1>0, <1>1, <1>2, OperationOK
<1>4. \A x \in TaskIds : receipts[x] \subseteq receipts'[x]
  BY <1>0, <1>3 DEF RestType
<1>5. RestType' /\ batch' = batch /\ look' = look
  BY <1>0, <1>3 DEF Apply, RestType, calendar
<1>6. CASE fault'[i]
  <2>1. /\ TableOK' /\ Grows
        /\ pc' = [pc EXCEPT ![i] = "batch"]
        /\ claim' = [claim EXCEPT ![i] = NoClaim]
    BY <1>1, <1>4, <1>6, RetryOK DEF Apply
  <2>2. WorkerType' /\ pc'[i] = "batch"
    <3>1. NoClaim \in C
      BY ConstantsAssumption DEF NoClaim
    <3> QED
      BY <1>0, <1>5, <2>1, <3>1 DEF WorkerType
  <2>3. WorkerOK(i)'
    BY <1>0, <1>5, <2>1, <2>2, WorkerFree
  <2> QED
    BY <1>0, <1>3, <1>5, <2>1, <2>2, <2>3, Assembled DEF WorkerType
<1>7. CASE ~fault'[i]
  <2> DEFINE c == [claim[i] EXCEPT !.ops = claim[i].ops \ {op}]
  <2>1. claim' = [claim EXCEPT ![i] = c] /\ UNCHANGED <<task, pc>>
    BY <1>1, <1>7
  <2>2. TableOK' /\ Grows
    BY <1>0, <1>4, <2>1, TableSame
  <2>3. claim \in [Instances -> C]
    BY <1>0 DEF WorkerType
  <2>4. /\ c \in C /\ c.id = id /\ c.token = claim[i].token
        /\ c.ops = claim[i].ops \ {op} /\ c.refused = claim[i].refused
    BY <2>3
  <2> HIDE DEF c, C
  <2>5. WorkerType' /\ claim'[i] = c
    BY <1>0, <1>5, <2>1, <2>3, <2>4 DEF WorkerType, C
  <2>6. receipts'[id] = receipts[id] \cup {op}
    BY <1>0, <1>2, <1>3 DEF RestType
  <2>7. HeldOK(i)' /\ LookOK(i)'
    <3>1. pc[i] = "apply" /\ pc' = pc /\ task' = task
      BY <2>1 DEF Apply
    <3>2. /\ claim[i].token \in 1 .. task[id].attempts + task[id].applies
          /\ task[id].token = claim[i].token =>
               /\ task[id].state = "applying"
               /\ claim[i].ops \subseteq task[id].product
               /\ task[id].product \ claim[i].ops \subseteq receipts[id] \cup claim[i].refused
      BY <1>0, <3>1 DEF HeldOK
    <3> HIDE DEF id
    <3>3. task[id].token = c.token =>
               /\ task[id].state = "applying"
               /\ c.ops \subseteq task[id].product
               /\ task[id].product \ c.ops \subseteq receipts'[id] \cup c.refused
      BY <2>4, <2>6, <3>2
    <3> QED
      BY <1>2, <2>4, <2>5, <3>1, <3>2, <3>3 DEF HeldOK, LookOK
  <2>8. BatchOK(i)'
    BY <1>0, <1>5, <2>2, BatchKept
  <2> QED
    BY <1>0, <1>3, <1>5, <2>1, <2>2, <2>5, <2>7, <2>8, Assembled DEF WorkerOK, WorkerType
<1> QED
  BY <1>6, <1>7

LEMMA RefuseStep ==
  ASSUME IInv, NEW i \in Instances, RefuseVerdict(i)
  PROVE  IInv'
<1>0. /\ TypeOK /\ TableOK /\ EngineOK /\ WorkerType /\ RestType /\ RowsOK
      /\ BatchOK(i) /\ HeldOK(i)
  BY Parts DEF TableOK
<1> DEFINE id == claim[i].id
           C == [id : 0 .. MaxTasks, token : Nat, ops : SUBSET Ops, refused : SUBSET Ops]
<1>1. EngineOK' /\ RestType'
  BY <1>0, EngineSame
     DEF RefuseVerdict, table, engine, EngineOK, EngineType, RestType, calendar
<1>2. TableOK' /\ Grows
  BY <1>0, TableSame DEF RefuseVerdict, table
<1>3. PICK op \in Ops :
        claim' = [claim EXCEPT ![i].ops = @ \ {op}, ![i].refused = @ \cup {op}]
  BY ConstantsAssumption DEF RefuseVerdict
<1> DEFINE c == [claim[i] EXCEPT !.ops = claim[i].ops \ {op},
                                 !.refused = claim[i].refused \cup {op}]
<1>4. claim \in [Instances -> C] /\ claim' = [claim EXCEPT ![i] = c]
  BY <1>0, <1>3 DEF WorkerType
<1>5. /\ c \in C /\ c.id = id /\ c.token = claim[i].token
      /\ c.ops = claim[i].ops \ {op} /\ c.refused = claim[i].refused \cup {op}
  BY <1>4
<1> HIDE DEF c, C
<1>6. pc' = pc /\ batch' = batch /\ look' = look /\ task' = task /\ receipts' = receipts
  BY DEF RefuseVerdict, table
<1>7. WorkerType' /\ claim'[i] = c
  BY <1>0, <1>4, <1>5, <1>6 DEF WorkerType, C
<1>8. HeldOK(i)' /\ LookOK(i)'
  <2>1. pc[i] = "apply"
    BY DEF RefuseVerdict
  <2>2. /\ id \in TaskIds
        /\ claim[i].token \in 1 .. task[id].attempts + task[id].applies
        /\ task[id].token = claim[i].token =>
             /\ task[id].state = "applying"
             /\ claim[i].ops \subseteq task[id].product
             /\ task[id].product \ claim[i].ops \subseteq receipts[id] \cup claim[i].refused
    BY <1>0, <2>1 DEF HeldOK
  <2> HIDE DEF id
  <2>3. task[id].token = c.token =>
             /\ task[id].state = "applying"
             /\ c.ops \subseteq task[id].product
             /\ task[id].product \ c.ops \subseteq receipts[id] \cup c.refused
    BY <1>3, <1>5, <2>2
  <2> QED
    BY <1>5, <1>6, <1>7, <2>1, <2>2, <2>3 DEF HeldOK, LookOK
<1>9. BatchOK(i)'
  BY <1>0, <1>2, <1>6, BatchKept
<1> QED
  BY <1>0, <1>1, <1>2, <1>4, <1>6, <1>7, <1>8, <1>9, Assembled DEF WorkerOK, WorkerType

LEMMA FinishStep ==
  ASSUME IInv, NEW i \in Instances, Finish(i)
  PROVE  IInv'
<1>0. /\ TypeOK /\ TableOK /\ EngineOK /\ WorkerType /\ RestType /\ RowsOK
      /\ HeldOK(i) /\ WorkerOK(i)
  BY Parts DEF TableOK
<1> DEFINE id == claim[i].id
           s == [task[id] EXCEPT !.state = "done", !.recent = TRUE, !.token = 0,
                                 !.live = FALSE]
<1>1. EngineOK' /\ RestType'
  BY <1>0, EngineSame DEF Finish, engine, EngineOK, EngineType, RestType, calendar
<1>2. /\ id \in TaskIds /\ task[id] \in Rows /\ RowOK(task[id])
      /\ task[id].state = "applying" /\ task[id].token = claim[i].token
      /\ task' = [task EXCEPT ![id] = s]
  BY <1>0 DEF Finish, Owned, TableOK, RowsOK
<1>3. s \in Rows /\ RowOK(s) /\ Evolves(task[id], s) /\ s.product = task[id].product
  BY <1>2, FinishedRow
<1> HIDE DEF s
<1>4. TableOK' /\ Grows
  BY <1>0, <1>2, <1>3, RowChanged DEF Finish
<1>5. WorkerType' /\ pc'[i] = "batch" /\ batch' = batch /\ look' = look
  BY <1>0, ConstantsAssumption, SMTT(30) DEF Finish, Pass, NoClaim, WorkerType
<1>6. WorkerOK(i)'
  BY <1>0, <1>4, <1>5, WorkerFree
<1> QED
  BY <1>0, <1>1, <1>4, <1>5, <1>6, Assembled DEF Finish, Pass, WorkerType

-----------------------------------------------------------------------------
(* The theorems                                                            *)

LEMMA NextOK == IInv /\ [Next]_vars => IInv'
<1> SUFFICES ASSUME IInv, [Next]_vars PROVE IInv'
  OBVIOUS
<1>1. CASE UNCHANGED vars
  <2>1. /\ TableOK /\ EngineOK /\ RestType /\ TypeOK
    BY IInvParts DEF IInv
  <2>2. UNCHANGED <<table, calendar, engine, worker>>
    BY <1>1 DEF vars, table, calendar, engine, worker
  <2>3. TableOK' /\ Grows
    BY <2>1, <2>2, TableSame DEF table
  <2>4. EngineOK' /\ RestType'
    BY <2>1, <2>2, EngineSame DEF engine, table, EngineOK, EngineType, RestType, calendar
  <2> QED
    BY <2>2, <2>3, <2>4, AssembledStill
<1>2. ASSUME NEW i \in Instances,
             \/ \E s \in Signals : Emit(i, s)
             \/ RecoverExpired(i) \/ List(i) \/ SkipRecent(i) \/ Defer(i) \/ Look(i)
             \/ LookAgain(i) \/ Claim(i) \/ ClaimRefused(i) \/ EndPass(i) \/ Stop(i)
      PROVE  IInv'
  BY <1>2, EmitStep, RecoverStep, ListStep, SkipStep, DeferStep, LookStep,
     ClaimStep, RefusedStep, StopStep
<1>3. ASSUME NEW i \in Instances,
             \/ \E op \in Ops : Tool(i, op)
             \/ StaleTool(i)
             \/ \E ops \in SUBSET Ops : Answer(i, ops)
             \/ StoreResult(i) \/ InvestigateFails(i)
             \/ Apply(i) \/ RefuseVerdict(i) \/ ApplyFails(i) \/ Finish(i)
             \/ OtherCommit(i) \/ Start(i) \/ Crash(i)
      PROVE  IInv'
  BY <1>3, ToolStep, StaleToolStep, AnswerStep, StoreStep, FailStep, ApplyStep,
     RefuseStep, FinishStep, OtherCommitStep, StartStep, CrashStep
<1>4. ASSUME NEW id \in TaskIds,
             LeaseRunsOut(id) \/ BackoffElapses(id) \/ TTLElapses(id)
      PROVE  IInv'
  BY <1>4, TimeStep
<1>5. CASE NewDay
  BY <1>5, NewDayStep
<1> QED
  BY <1>1, <1>2, <1>3, <1>4, <1>5 DEF Next

LEMMA Invariant == Spec => []IInv
<1>1. Init => IInv
  BY InitOK
<1>2. IInv /\ [Next]_vars => IInv'
  BY NextOK
<1> QED
  BY <1>1, <1>2, PTL DEF Spec

\* Every variable keeps to its type, for any number of processes, rows,
\* operations and days.
THEOREM TypeCorrect == Spec => []TypeOK
<1>1. IInv => TypeOK
  BY DEF IInv
<1> QED
  BY <1>1, Invariant, PTL

\* However often a row is claimed, and whoever applies its operations, each one
\* with a receipt is part of the durable state exactly once, and no other is.
THEOREM AppliedOnce == Spec => []OperationExactlyOnce
<1>1. IInv => OperationExactlyOnce
  BY DEF IInv
<1> QED
  BY <1>1, Invariant, PTL

\* Writing one row, and not as done, makes no row done.
LEMMA NotClosed ==
  ASSUME task \in [TaskIds -> Rows], NEW x, NEW s, s.state # "done",
         task' = [task EXCEPT ![x] = s], NEW id \in TaskIds
  PROVE  task'[id].state = "done" => task[id].state = "done"
<1>1. CASE x = id
  BY <1>1
<1>2. CASE x # id
  BY <1>2
<1> QED
  BY <1>1, <1>2

\* Nothing but finish() makes a row done.
LEMMA OnlyFinishCloses ==
  ASSUME IInv, [Next]_vars, NEW id \in TaskIds,
         task[id].state # "done", task'[id].state = "done"
  PROVE  \E i \in Instances : Finish(i)
<1> SUFFICES ASSUME \A i \in Instances : ~Finish(i)
             PROVE  FALSE
  OBVIOUS
<1>0. task \in [TaskIds -> Rows] /\ RowsOK
  BY DEF IInv, TypeOK
<1> DEFINE Keeps(x) == task'[x].state = "done" => task[x].state = "done"
<1>1. ASSUME NEW i \in Instances, NEW s \in Signals, Emit(i, s)
      PROVE  Keeps(id)
  <2>1. CASE \E x \in Mergeable(KeyOf[s]) :
               task' = [task EXCEPT ![x].t = Max({@, s}), ![x].version = @ + 1]
    <3>1. PICK x \in Mergeable(KeyOf[s]) :
            task' = [task EXCEPT ![x].t = Max({@, s}), ![x].version = @ + 1]
      BY <2>1
    <3> DEFINE row == [task[x] EXCEPT !.t = Max({task[x].t, s}),
                                      !.version = task[x].version + 1]
    <3>2. x \in TaskIds /\ task[x].state = "pending"
      BY DEF Mergeable
    <3>3. row.state # "done" /\ task' = [task EXCEPT ![x] = row]
      BY <1>0, <3>1, <3>2 DEF Rows
    <3> HIDE DEF row
    <3> QED
      BY <1>0, NotClosed, <3>3
  <2>2. CASE \E x \in TaskIds, dedupe \in 0 .. MaxTasks :
               task' = [task EXCEPT ![x] =
                 [Blank EXCEPT !.state = "pending", !.key = KeyOf[s], !.t = s,
                               !.due = TRUE, !.dedupe = dedupe]]
    <3>1. PICK x \in TaskIds, dedupe \in 0 .. MaxTasks :
               task' = [task EXCEPT ![x] =
                 [Blank EXCEPT !.state = "pending", !.key = KeyOf[s], !.t = s,
                               !.due = TRUE, !.dedupe = dedupe]]
      BY <2>2
    <3> DEFINE row == [Blank EXCEPT !.state = "pending", !.key = KeyOf[s], !.t = s,
                                    !.due = TRUE, !.dedupe = dedupe]
    <3>2. row.state # "done"
      BY BlankType DEF Rows
    <3> HIDE DEF row
    <3> QED
      BY <1>0, NotClosed, <3>1, <3>2 DEF row
  <2>3. Answered(KeyOf[s]) \subseteq 0 .. MaxTasks /\ 0 \in 0 .. MaxTasks
    BY ConstantsAssumption DEF Answered, TaskIds
  <2> QED
    BY <1>1, <2>1, <2>2, <2>3 DEF Emit
<1>2. ASSUME NEW i \in Instances, RecoverExpired(i)
      PROVE  Keeps(id)
  BY <1>0, <1>2, RecoveredRow DEF RecoverExpired, RowsOK
<1>3. ASSUME NEW i \in Instances, SkipRecent(i) \/ StoreResult(i)
      PROVE  Keeps(id)
  <2>1. ASSUME NEW item \in batch[i], Turn(i, item), Recent(item[1]),
               task' = [task EXCEPT ![item[1]].state = "skipped"]
        PROVE  Keeps(id)
    <3> DEFINE row == [task[item[1]] EXCEPT !.state = "skipped"]
    <3>1. item[1] \in TaskIds
      BY Parts DEF WorkerType
    <3>2. row.state # "done"
      BY <1>0, <3>1 DEF Rows
    <3> QED
      BY <1>0, <2>1, <3>2, NotClosed
  <2>2. CASE StoreResult(i)
    <3> DEFINE x == claim[i].id
               row == [task[x] EXCEPT !.product = claim[i].ops, !.state = "ready",
                                      !.token = 0, !.live = FALSE, !.due = TRUE]
    <3>1. x \in TaskIds
      BY <2>2 DEF StoreResult, Owned
    <3>2. row.state # "done"
      BY <1>0, <3>1 DEF Rows
    <3>3. task' = [task EXCEPT ![x] = row]
      BY <2>2 DEF StoreResult
    <3> HIDE DEF row, x
    <3> QED
      BY <1>0, <3>2, <3>3, NotClosed
  <2> QED
    BY <1>3, <2>1, <2>2 DEF SkipRecent
<1>4. ASSUME NEW i \in Instances, Claim(i)
      PROVE  Keeps(id)
  <2>1. Claimed(task[look[i].id], look[i].before).state # "done"
    <3>1. look[i].id \in TaskIds
      BY <1>4, Parts DEF Claim, LookOK
    <3> QED
      BY <1>0, <3>1 DEF Claimed, Rows
  <2> QED
    BY <1>0, <1>4, <2>1, NotClosed DEF Claim
<1>5. ASSUME NEW i \in Instances, Retry(i)
      PROVE  Keeps(id)
  <2>1. CASE Owned(i, {"running", "applying"})
    <3>1. Released(task[claim[i].id], FALSE).state # "done"
      BY <1>0, <2>1 DEF Owned, Released, Rows
    <3>2. task' = [task EXCEPT ![claim[i].id] = Released(task[claim[i].id], FALSE)]
      BY <1>5, <2>1 DEF Retry
    <3> QED
      BY <1>0, NotClosed, <3>1, <3>2
  <2> QED
    BY <1>5, <2>1 DEF Retry
<1>6. ASSUME NEW i \in Instances, InvestigateFails(i) \/ Apply(i) \/ ApplyFails(i)
      PROVE  Keeps(id)
  BY <1>5, <1>6 DEF InvestigateFails, Apply, ApplyFails
<1>7. ASSUME NEW x \in TaskIds,
             LeaseRunsOut(x) \/ BackoffElapses(x) \/ TTLElapses(x)
      PROVE  Keeps(id)
  BY <1>0, <1>7 DEF LeaseRunsOut, BackoffElapses, TTLElapses, Rows
<1>8. \/ task' = task
      \/ \E i \in Instances :
           \/ \E s \in Signals : Emit(i, s)
           \/ RecoverExpired(i) \/ SkipRecent(i) \/ Claim(i) \/ StoreResult(i)
           \/ InvestigateFails(i) \/ Apply(i) \/ ApplyFails(i)
      \/ \E x \in TaskIds : LeaseRunsOut(x) \/ BackoffElapses(x) \/ TTLElapses(x)
  BY DEF Next, vars, table, List, Defer, Look, LookAgain, ClaimRefused, EndPass,
     Stop, Tool, StaleTool, Answer, RefuseVerdict, OtherCommit, Start, Crash, NewDay
<1> QED
  BY <1>1, <1>2, <1>3, <1>4, <1>6, <1>7, <1>8

\* finish() closes a row only for the holder of its claim, and no operation of
\* its product was lost on the way: each was applied, in this claim or an
\* earlier one, or refused as a verdict in this one.
THEOREM NothingLeftOut == Spec => DoneMeansApplied
<1> DEFINE Closed(id) ==
      task[id].state # "done" /\ task'[id].state = "done" =>
        \E i \in Instances :
          /\ claim[i].id = id /\ claim[i].token = task[id].token
          /\ task[id].product \subseteq receipts[id] \cup claim[i].refused
<1>1. ASSUME IInv, [Next]_vars, NEW id \in TaskIds
      PROVE  Closed(id)
  <2> SUFFICES ASSUME task[id].state # "done", task'[id].state = "done"
               PROVE  \E i \in Instances :
                        /\ claim[i].id = id /\ claim[i].token = task[id].token
                        /\ task[id].product \subseteq receipts[id] \cup claim[i].refused
    OBVIOUS
  <2>1. PICK i \in Instances : Finish(i)
    BY <1>1, OnlyFinishCloses
  <2>2. /\ HeldOK(i) /\ task \in [TaskIds -> Rows]
        /\ pc[i] = "apply" /\ claim[i].ops = {}
        /\ claim[i].id \in TaskIds
        /\ task[claim[i].id].token = claim[i].token
    BY <1>1, <2>1, Parts DEF Finish, Owned, TableOK
  <2>3. claim[i].id = id
    BY <2>1, <2>2 DEF Finish
  <2>4. task[id].product \ claim[i].ops \subseteq receipts[id] \cup claim[i].refused
    BY <2>2, <2>3 DEF HeldOK
  <2> QED
    BY <2>2, <2>3, <2>4
<1>2. IInv /\ [Next]_vars => [\A id \in TaskIds : Closed(id)]_vars
  BY <1>1
<1> QED
  BY <1>2, Invariant, PTL DEF Spec, DoneMeansApplied

\* The bound computed before the claim is that of the payload the claim fixes.
THEOREM BoundOfPayload == Spec => []BoundFitsPayload
<1>1. IInv => BoundFitsPayload
  BY DEF IInv, RowsOK, RowOK, BoundFitsPayload
<1> QED
  BY <1>1, Invariant, PTL

\* No tool call and no worker writes for a row it does not hold.
THEOREM OnlyTheHolder == Spec => NoStrayOperation
<1> DEFINE Stray(id) ==
      receipts'[id] # receipts[id] =>
        /\ task[id].live
        /\ \/ task[id].state = "running"
           \/ /\ task[id].state = "applying"
              /\ receipts'[id] \ receipts[id] \subseteq task[id].product
<1>1. ASSUME IInv, [Next]_vars, NEW id \in TaskIds
      PROVE  Stray(id)
  <2>1. CASE receipts' = receipts
    BY <2>1
  <2>2. ASSUME NEW i \in Instances, NEW op \in Ops, Tool(i, op)
        PROVE  Stray(id)
    <3>1. /\ claim[i].id \in TaskIds /\ TypeOK /\ EngineOK /\ HeldOK(i)
      BY <1>1, <2>2, Parts DEF Tool, Owned
    <3>2. receipts' = [receipts EXCEPT ![claim[i].id] = @ \cup {op}]
      BY <2>2, <3>1, OperationOK DEF Tool
    <3>3. /\ task[claim[i].id].live /\ task[claim[i].id].token = claim[i].token
          /\ pc[i] = "model"
      BY <2>2 DEF Tool, Owned
    <3>4. task[claim[i].id].state = "running"
      BY <3>1, <3>3 DEF HeldOK
    <3> QED
      BY <3>1, <3>2, <3>3, <3>4 DEF TypeOK
  <2>3. ASSUME NEW i \in Instances, Apply(i)
        PROVE  Stray(id)
    <3>1. /\ claim[i].id \in TaskIds /\ TypeOK /\ EngineOK /\ HeldOK(i)
      BY <1>1, <2>3, Parts DEF Apply, Owned
    <3>2. PICK op \in Ops : NextOp(i, op) /\ ApplyOperation(i, op)
      BY <2>3 DEF Apply
    <3>3. receipts' = [receipts EXCEPT ![claim[i].id] = @ \cup {op}]
      BY <3>1, <3>2, OperationOK
    <3>4. /\ task[claim[i].id].live /\ task[claim[i].id].token = claim[i].token
          /\ pc[i] = "apply"
      BY <2>3 DEF Apply, Owned
    <3>5. task[claim[i].id].state = "applying" /\ op \in task[claim[i].id].product
      BY <3>1, <3>2, <3>4 DEF HeldOK, NextOp
    <3> QED
      BY <3>1, <3>3, <3>4, <3>5 DEF TypeOK
  <2>4. \/ receipts' = receipts
        \/ \E i \in Instances : Apply(i) \/ \E op \in Ops : Tool(i, op)
    <3>1. ASSUME NEW i \in Instances,
                 \/ \E s \in Signals : Emit(i, s)
                 \/ RecoverExpired(i) \/ List(i) \/ SkipRecent(i) \/ Defer(i)
                 \/ Look(i) \/ LookAgain(i) \/ Claim(i) \/ ClaimRefused(i)
                 \/ EndPass(i) \/ Stop(i)
          PROVE  receipts' = receipts
      BY <3>1 DEF Emit, RecoverExpired, List, SkipRecent, Defer, Look, LookAgain,
         Claim, ClaimRefused, EndPass, Stop, table
    <3>2. ASSUME NEW i \in Instances,
                 \/ StaleTool(i) \/ \E ops \in SUBSET Ops : Answer(i, ops)
                 \/ StoreResult(i) \/ InvestigateFails(i) \/ RefuseVerdict(i)
                 \/ ApplyFails(i) \/ Finish(i) \/ OtherCommit(i) \/ Start(i)
                 \/ Crash(i)
          PROVE  receipts' = receipts
      BY <3>2 DEF StaleTool, Answer, StoreResult, InvestigateFails, RefuseVerdict,
         ApplyFails, Finish, OtherCommit, Start, Crash, table
    <3>3. ASSUME NEW other \in TaskIds,
                 LeaseRunsOut(other) \/ BackoffElapses(other) \/ TTLElapses(other)
          PROVE  receipts' = receipts
      BY <3>3 DEF LeaseRunsOut, BackoffElapses, TTLElapses
    <3>4. CASE NewDay \/ UNCHANGED vars
      BY <3>4 DEF NewDay, vars, table
    <3> QED
      BY <1>1, <3>1, <3>2, <3>3, <3>4 DEF Next
  <2> QED
    BY <2>1, <2>2, <2>3, <2>4
<1>2. IInv /\ [Next]_vars => [\A id \in TaskIds : Stray(id)]_vars
  BY <1>1
<1> QED
  BY <1>2, Invariant, PTL DEF Spec, NoStrayOperation

-----------------------------------------------------------------------------
(* The allowance of the days                                               *)

Attempts == [id \in TaskIds \ Finished |-> task[id].attempts]

\* The day a worker is about to be counted against is a day.
LookDays == \A i \in Instances : pc[i] = "claim" => look[i].day \in Days

\* What the counts need: rows of an earlier day stay done, so that every claim
\* that is counted is one of the others.
CountsOK ==
  /\ LookDays
  /\ \A id \in Finished : task[id].state = "done"
  /\ \A d \in Days : runs[d] <= DailyCap
  /\ IsFiniteSet(Marks(runs)) /\ IsFiniteSet(Marks(Attempts))
  /\ Cardinality(Marks(runs)) = Cardinality(Marks(Attempts))

\* A table of counters with one of them advanced has one mark more.
LEMMA OneMark ==
  ASSUME NEW S, NEW f \in [S -> Nat], NEW x \in S, IsFiniteSet(Marks(f))
  PROVE  LET g == [f EXCEPT ![x] = @ + 1] IN
         /\ IsFiniteSet(Marks(g))
         /\ Cardinality(Marks(g)) = Cardinality(Marks(f)) + 1
<1> DEFINE g == [f EXCEPT ![x] = @ + 1]
           mark == <<x, f[x] + 1>>
<1>1. \A y \in S : g[y] = IF y = x THEN f[x] + 1 ELSE f[y]
  OBVIOUS
<1>2. DOMAIN g = S /\ DOMAIN f = S /\ f[x] \in Nat
  OBVIOUS
<1> HIDE DEF g
<1>3. Marks(g) = Marks(f) \cup {mark}
  <2>1. ASSUME NEW p \in Marks(g) PROVE p \in Marks(f) \cup {mark}
    <3>1. PICK y \in S : p \in {y} \X (1 .. g[y])
      BY <1>2, <2>1 DEF Marks
    <3>2. CASE y = x
      <4>1. PICK n \in 1 .. f[x] + 1 : p = <<x, n>>
        BY <3>1, <3>2, <1>1
      <4>2. n = f[x] + 1 \/ n \in 1 .. f[x]
        BY <1>2
      <4> QED
        BY <4>1, <4>2, <1>2 DEF Marks
    <3>3. CASE y # x
      <4>1. p \in {y} \X (1 .. f[y])
        BY <3>1, <3>3, <1>1
      <4> QED
        BY <4>1, <1>2 DEF Marks
    <3> QED
      BY <3>2, <3>3
  <2>2. ASSUME NEW p \in Marks(f) PROVE p \in Marks(g)
    <3>1. PICK y \in S : p \in {y} \X (1 .. f[y])
      BY <1>2, <2>2 DEF Marks
    <3>2. p \in {y} \X (1 .. g[y])
      BY <3>1, <1>1
    <3> QED
      BY <3>2, <1>2 DEF Marks
  <2>3. mark \in Marks(g)
    <3>1. f[x] + 1 \in 1 .. g[x]
      BY <1>1, <1>2
    <3> QED
      BY <3>1, <1>2 DEF Marks
  <2> HIDE DEF mark
  <2> QED
    BY <2>1, <2>2, <2>3
<1>4. mark \notin Marks(f)
  <2> SUFFICES ASSUME NEW y \in S, mark \in {y} \X (1 .. f[y]) PROVE FALSE
    BY <1>2 DEF Marks
  <2>1. y = x /\ f[x] + 1 \in 1 .. f[x]
    OBVIOUS
  <2> QED
    BY <2>1, <1>2
<1> HIDE DEF mark
<1>5. /\ IsFiniteSet(Marks(g))
      /\ Cardinality(Marks(g)) = Cardinality(Marks(f)) + 1
  BY <1>3, <1>4, FS_AddElement
<1> QED
  BY <1>5 DEF g

\* Rows that are not claimed for investigation.
Uncounted(r, s) ==
  /\ s.attempts = r.attempts
  /\ r.state = "done" => s.state = "done"

\* No claim counts when no row is claimed for investigation.
LEMMA CountsSame ==
  ASSUME CountsOK, runs' = runs, LookDays',
         \A id \in TaskIds : Uncounted(task[id], task'[id])
  PROVE  CountsOK'
<1>1. Finished \subseteq TaskIds
  BY ConstantsAssumption DEF TaskIds
<1>2. Attempts' = Attempts
  BY DEF Attempts, Uncounted
<1>3. Marks(runs)' = Marks(runs) /\ Marks(Attempts)' = Marks(Attempts)
  BY <1>2 DEF Marks
<1> QED
  BY <1>1, <1>3 DEF CountsOK, Uncounted

\* claim() counts a run in the very transaction that counts the attempt.
LEMMA CountsClaim ==
  ASSUME IInv, CountsOK, NEW i \in Instances, Claim(i)
  PROVE  CountsOK'
<1> DEFINE id == look[i].id
           r == task[id]
           d == look[i].day
           s == Claimed(r, look[i].before)
<1>1. /\ pc[i] = "claim" /\ Claimable(i)
      /\ task' = [task EXCEPT ![id] = s]
      /\ runs' = IF s.state = "running" THEN [runs EXCEPT ![d] = @ + 1] ELSE runs
  BY DEF Claim
<1>2. /\ task \in [TaskIds -> Rows] /\ runs \in [Days -> Nat]
      /\ id \in TaskIds
  BY <1>1 DEF IInv, TypeOK, WorkersOK, WorkerOK, LookOK
<1>3. r \in Rows /\ r.state \in {"pending", "ready"}
  BY <1>1, <1>2 DEF Claimable
<1>4. /\ s.state = IF r.state = "ready" THEN "applying" ELSE "running"
      /\ s.attempts = IF r.state = "ready" THEN r.attempts ELSE r.attempts + 1
  BY <1>3 DEF Claimed, Rows
<1> HIDE DEF s
<1>5. \A k \in TaskIds : task'[k] = IF k = id THEN s ELSE task[k]
  BY <1>1, <1>2
<1>6. LookDays'
  <2>1. pc'[i] # "claim" /\ \A j \in Instances : j # i => pc'[j] = pc[j] /\ look'[j] = look[j]
    BY DEF Claim, Pass, IInv, TypeOK
  <2> QED
    BY <2>1 DEF CountsOK, LookDays
<1>8. CASE r.state = "ready"
  <2>1. \A k \in TaskIds : Uncounted(task[k], task'[k])
    BY <1>3, <1>4, <1>5, <1>8 DEF Uncounted
  <2>2. runs' = runs
    BY <1>1, <1>4, <1>8
  <2> QED
    BY <1>6, <2>1, <2>2, CountsSame
<1>7. CASE r.state = "pending"
  <2>1. id \in TaskIds \ Finished /\ Finished \subseteq TaskIds
    BY <1>2, <1>7, ConstantsAssumption DEF CountsOK, TaskIds
  <2>2. runs[d] < DailyCap
    BY <1>1, <1>7 DEF Claimable
  <2>3. s.state = "running" /\ s.attempts = r.attempts + 1 /\ r.attempts \in Nat
    BY <1>3, <1>4, <1>7 DEF Rows
  <2>4. runs' = [runs EXCEPT ![d] = @ + 1]
    BY <1>1, <2>3
  <2>5. Attempts \in [TaskIds \ Finished -> Nat]
    BY <1>2 DEF Attempts, Rows
  <2>6. Attempts' = [Attempts EXCEPT ![id] = @ + 1]
    BY <1>5, <2>1, <2>3 DEF Attempts
  <2>7. d \in Days
    BY <1>1 DEF CountsOK, LookDays
  <2>8. /\ IsFiniteSet(Marks(runs')) /\ IsFiniteSet(Marks(Attempts'))
        /\ Cardinality(Marks(runs')) = Cardinality(Marks(runs)) + 1
        /\ Cardinality(Marks(Attempts')) = Cardinality(Marks(Attempts)) + 1
    BY <1>2, <2>1, <2>4, <2>5, <2>6, <2>7, OneMark, ZenonT(40) DEF CountsOK
  <2>9. \A k \in Finished : task'[k].state = "done"
    BY <1>5, <2>1 DEF CountsOK
  <2>10. \A k \in Days : runs'[k] <= DailyCap
    BY <1>2, <2>2, <2>4, <2>7, ConstantsAssumption DEF CountsOK
  <2> QED
    BY <1>6, <2>8, <2>9, <2>10 DEF CountsOK
<1> QED
  BY <1>3, <1>7, <1>8

\* A row that is given back, recovered or left alone.
LEMMA ReleasedUncounted ==
  ASSUME NEW r \in Rows, NEW due \in BOOLEAN
  PROVE  /\ Uncounted(r, r) /\ Uncounted(r, Recovered(r))
         /\ r.state \in {"running", "applying"} => Uncounted(r, Released(r, due))
<1>1. ASSUME NEW b \in BOOLEAN, r.state \in {"running", "applying"}
      PROVE  Uncounted(r, Released(r, b)) /\ Released(r, b).state # "done"
  BY <1>1 DEF Released, Uncounted, Rows
<1>2. Uncounted(r, Recovered(r))
  <2> DEFINE e == IF r.state \in {"running", "applying"} /\ ~r.live
                  THEN Released(r, r.due) ELSE r
  <2>1. e.attempts = r.attempts /\ (r.state = "done" => e = r)
    BY DEF Released, Rows
  <2>2. Recovered(r).attempts = e.attempts
    BY DEF Recovered, Released, Rows
  <2>3. r.state = "done" => Recovered(r) = r
    BY DEF Recovered
  <2> HIDE DEF e
  <2> QED
    BY <2>1, <2>2, <2>3 DEF Uncounted
<1> QED
  BY <1>1, <1>2 DEF Uncounted

\* Retry is for a row that is held.
LEMMA RetryUncounted ==
  ASSUME IInv, NEW i \in Instances, Retry(i)
  PROVE  \A id \in TaskIds : Uncounted(task[id], task'[id])
<1>1. task \in [TaskIds -> Rows]
  BY DEF IInv, TypeOK
<1>2. CASE Owned(i, {"running", "applying"})
  <2> DEFINE k == claim[i].id
  <2>1. /\ k \in TaskIds /\ task[k].state \in {"running", "applying"}
        /\ task' = [task EXCEPT ![k] = Released(task[k], FALSE)]
    BY <1>1, <1>2 DEF Retry, Owned
  <2>2. Uncounted(task[k], Released(task[k], FALSE))
    BY <1>1, <2>1, ReleasedUncounted
  <2> HIDE DEF k
  <2> QED
    BY <1>1, <2>1, <2>2 DEF Uncounted
<1>3. CASE ~Owned(i, {"running", "applying"})
  BY <1>3 DEF Retry, Uncounted
<1> QED
  BY <1>2, <1>3

\* A signal that is emitted counts no claim, wherever it goes.
LEMMA EmitUncounted ==
  ASSUME IInv, NEW i \in Instances, NEW s \in Signals, Emit(i, s)
  PROVE  \A id \in TaskIds : Uncounted(task[id], task'[id])
<1>1. task \in [TaskIds -> Rows] /\ RowsOK
  BY DEF IInv, TypeOK
<1>2. CASE \E id \in Mergeable(KeyOf[s]) :
             task' = [task EXCEPT ![id].t = Max({@, s}), ![id].version = @ + 1]
  BY <1>1, <1>2 DEF Mergeable, Uncounted, Rows
<1>3. ASSUME NEW id \in TaskIds, NEW dedupe, Fresh(id),
             task' = [task EXCEPT ![id] =
                  [Blank EXCEPT !.state = "pending", !.key = KeyOf[s], !.t = s,
                                !.due = TRUE, !.dedupe = dedupe]]
      PROVE  \A k \in TaskIds : Uncounted(task[k], task'[k])
  <2>1. task[id].state = "none" /\ task[id].attempts = 0
    BY <1>1, <1>3 DEF Fresh, RowsOK, RowOK
  <2>2. task'[id].attempts = 0 /\ \A k \in TaskIds : k # id => task'[k] = task[k]
    BY <1>1, <1>3 DEF Blank
  <2> QED
    BY <2>1, <2>2 DEF Uncounted
<1> QED
  BY <1>2, <1>3 DEF Emit

\* Every step but claim() counts nothing.
LEMMA StepUncounted ==
  ASSUME IInv, [Next]_vars, \A i \in Instances : ~Claim(i)
  PROVE  runs' = runs /\ \A id \in TaskIds : Uncounted(task[id], task'[id])
<1> USE DEF table, calendar, engine, worker
<1>1. task \in [TaskIds -> Rows] /\ \A id \in TaskIds : Uncounted(task[id], task[id])
  BY DEF IInv, TypeOK, Uncounted
<1>2. runs' = runs
  <2>1. ASSUME NEW i \in Instances,
               \/ \E s \in Signals : Emit(i, s)
               \/ RecoverExpired(i) \/ List(i) \/ SkipRecent(i) \/ Defer(i)
               \/ Look(i) \/ LookAgain(i) \/ ClaimRefused(i) \/ EndPass(i) \/ Stop(i)
        PROVE  runs' = runs
    BY <2>1 DEF Emit, RecoverExpired, List, SkipRecent, Defer, Look, LookAgain,
                ClaimRefused, EndPass, Stop
  <2>2. ASSUME NEW i \in Instances,
               \/ \E op \in Ops : Tool(i, op)
               \/ StaleTool(i)
               \/ \E ops \in SUBSET Ops : Answer(i, ops)
               \/ StoreResult(i) \/ InvestigateFails(i)
        PROVE  runs' = runs
    BY <2>2 DEF Tool, StaleTool, Answer, StoreResult, InvestigateFails
  <2>3. ASSUME NEW i \in Instances,
               \/ Apply(i) \/ RefuseVerdict(i) \/ ApplyFails(i) \/ Finish(i)
               \/ OtherCommit(i) \/ Start(i) \/ Crash(i)
        PROVE  runs' = runs
    BY <2>3 DEF Apply, RefuseVerdict, ApplyFails, Finish, OtherCommit, Start, Crash
  <2>4. ASSUME NEW id \in TaskIds, LeaseRunsOut(id) \/ BackoffElapses(id) \/ TTLElapses(id)
        PROVE  runs' = runs
    BY <2>4 DEF LeaseRunsOut, BackoffElapses, TTLElapses
  <2>5. CASE NewDay \/ UNCHANGED vars
    BY <2>5 DEF NewDay, vars
  <2> QED
    BY <2>1, <2>2, <2>3, <2>4, <2>5 DEF Next
<1>3. CASE UNCHANGED task
  BY <1>1, <1>2, <1>3
<1>4. ASSUME NEW i \in Instances, NEW s \in Signals, Emit(i, s)
      PROVE  \A id \in TaskIds : Uncounted(task[id], task'[id])
  BY <1>4, EmitUncounted
<1>5. ASSUME NEW i \in Instances, RecoverExpired(i)
      PROVE  \A id \in TaskIds : Uncounted(task[id], task'[id])
  BY <1>1, <1>5, ReleasedUncounted DEF RecoverExpired
<1>6. ASSUME NEW i \in Instances, SkipRecent(i)
      PROVE  \A id \in TaskIds : Uncounted(task[id], task'[id])
  <2>1. PICK item \in batch[i] :
          Recent(item[1]) /\ task' = [task EXCEPT ![item[1]].state = "skipped"]
    BY <1>6 DEF SkipRecent
  <2> QED
    BY <1>1, <2>1 DEF Recent, Uncounted, Rows
<1>7. ASSUME NEW i \in Instances, StoreResult(i) \/ Finish(i)
      PROVE  \A id \in TaskIds : Uncounted(task[id], task'[id])
  <2> DEFINE k == claim[i].id
  <2>1. k \in TaskIds /\ task[k].state \in {"running", "applying"}
    BY <1>7 DEF StoreResult, Finish, Owned
  <2>2. task[k] \in Rows
    BY <1>1, <2>1
  <2>3. \A id \in TaskIds : id # k => task'[id] = task[id]
    BY <1>1, <1>7, <2>1 DEF StoreResult, Finish
  <2>4. CASE StoreResult(i)
    <3>1. task'[k] = [task[k] EXCEPT !.product = claim[i].ops, !.state = "ready",
                                     !.token = 0, !.live = FALSE, !.due = TRUE]
      BY <1>1, <2>1, <2>4 DEF StoreResult
    <3>2. task'[k].attempts = task[k].attempts
      BY <2>2, <3>1 DEF Rows
    <3> QED
      BY <2>1, <2>3, <3>2 DEF Uncounted
  <2>5. CASE Finish(i)
    <3>1. task'[k] = [task[k] EXCEPT !.state = "done", !.recent = TRUE,
                                     !.token = 0, !.live = FALSE]
      BY <1>1, <2>1, <2>5 DEF Finish
    <3>2. task'[k].attempts = task[k].attempts
      BY <2>2, <3>1 DEF Rows
    <3> QED
      BY <2>1, <2>3, <3>2 DEF Uncounted
  <2> QED
    BY <1>7, <2>4, <2>5
<1>8. ASSUME NEW i \in Instances, InvestigateFails(i) \/ ApplyFails(i) \/ Apply(i)
      PROVE  \A id \in TaskIds : Uncounted(task[id], task'[id])
  BY <1>1, <1>8, RetryUncounted DEF InvestigateFails, ApplyFails, Apply
<1>9. ASSUME NEW k \in TaskIds, LeaseRunsOut(k) \/ BackoffElapses(k) \/ TTLElapses(k)
      PROVE  \A id \in TaskIds : Uncounted(task[id], task'[id])
  BY <1>1, <1>9 DEF LeaseRunsOut, BackoffElapses, TTLElapses, Uncounted, Rows
<1>10. ASSUME NEW i \in Instances,
              \/ List(i) \/ Defer(i) \/ Look(i) \/ LookAgain(i) \/ ClaimRefused(i)
              \/ EndPass(i) \/ Stop(i) \/ \E op \in Ops : Tool(i, op)
       PROVE  task' = task
  BY <1>10 DEF List, Defer, Look, LookAgain, ClaimRefused, EndPass, Stop, Tool
<1>11. ASSUME NEW i \in Instances,
              \/ StaleTool(i) \/ (\E ops \in SUBSET Ops : Answer(i, ops))
              \/ RefuseVerdict(i) \/ OtherCommit(i) \/ Start(i) \/ Crash(i)
       PROVE  task' = task
  BY <1>11 DEF StaleTool, Answer, RefuseVerdict, OtherCommit, Start, Crash
<1>12. NewDay \/ UNCHANGED vars => task' = task
  BY DEF NewDay, vars
<1> QED
  BY <1>2, <1>3, <1>4, <1>5, <1>6, <1>7, <1>8, <1>9, <1>10, <1>11, <1>12 DEF Next

\* A worker reads the date when it reads the row.
LEMMA StepLookDays ==
  ASSUME IInv, LookDays, [Next]_vars PROVE LookDays'
<1> USE DEF table, calendar, engine, worker, LookDays
<1>1. /\ pc \in [Instances -> {"idle", "list", "batch", "claim", "model",
                               "store", "reclaim", "apply"}]
      /\ DOMAIN look = Instances /\ DOMAIN pc = Instances /\ today \in Days
  BY DEF IInv, TypeOK
<1>2. ASSUME NEW i \in Instances, Look(i) \/ LookAgain(i) PROVE LookDays'
  BY <1>1, <1>2 DEF Look, LookAgain, Reading, Pass
<1>3. ASSUME NEW i \in Instances,
             \/ Claim(i) \/ ClaimRefused(i) \/ Crash(i)
      PROVE  LookDays'
  BY <1>1, <1>3 DEF Claim, ClaimRefused, Crash, Pass
<1>4. ASSUME look' = look, \A i \in Instances : pc'[i] = "claim" => pc[i] = "claim"
      PROVE  LookDays'
  BY <1>4
<1>5. ASSUME NEW i \in Instances,
             \/ RecoverExpired(i) \/ List(i) \/ SkipRecent(i) \/ Defer(i) \/ EndPass(i)
             \/ Stop(i) \/ StaleTool(i) \/ StoreResult(i) \/ InvestigateFails(i)
             \/ Apply(i) \/ RefuseVerdict(i) \/ ApplyFails(i) \/ Finish(i)
      PROVE  LookDays'
  BY <1>1, <1>4, <1>5
     DEF RecoverExpired, List, SkipRecent, Defer, EndPass, Stop, StaleTool, StoreResult,
         InvestigateFails, Apply, RefuseVerdict, ApplyFails, Finish, Retry, Pass
<1>6. ASSUME NEW i \in Instances, NEW ops, Answer(i, ops) PROVE LookDays'
  BY <1>1, <1>4, <1>6 DEF Answer
<1>7. CASE UNCHANGED <<pc, look>>
  BY <1>7
<1> QED
  BY <1>2, <1>3, <1>5, <1>6, <1>7
     DEF Next, vars, Emit, Tool, OtherCommit, Start, LeaseRunsOut, BackoffElapses,
         TTLElapses, NewDay

\* Nothing is counted at the start.
LEMMA InitCounts == Init => CountsOK
<1> SUFFICES ASSUME Init PROVE CountsOK
  OBVIOUS
<1>1. Finished \subseteq TaskIds
  BY ConstantsAssumption DEF TaskIds
<1>2. LookDays /\ \A id \in Finished : task[id].state = "done"
  BY <1>1 DEF Init, LookDays, Earlier, Blank
<1>3. Marks(runs) = {}
  BY DEF Init, Marks
<1>4. Marks(Attempts) = {}
  BY DEF Init, Marks, Attempts, Blank
<1>5. \A d \in Days : runs[d] <= DailyCap
  BY ConstantsAssumption DEF Init
<1> QED
  BY <1>2, <1>3, <1>4, <1>5, FS_EmptySet DEF CountsOK

\* Every step keeps what the counts need.
LEMMA StepCounts == IInv /\ CountsOK /\ [Next]_vars => CountsOK'
<1> SUFFICES ASSUME IInv, CountsOK, [Next]_vars PROVE CountsOK'
  OBVIOUS
<1>1. CASE \E i \in Instances : Claim(i)
  BY <1>1, CountsClaim
<1>2. CASE \A i \in Instances : ~Claim(i)
  BY <1>2, StepUncounted, StepLookDays, CountsSame DEF CountsOK
<1> QED
  BY <1>1, <1>2

\* Whatever is lost, retried or raced for, the runs counted are the claims made,
\* and no day has more than its allowance.
THEOREM EveryRunCounted == Spec => []RunsCounted
<1>1. CountsOK => RunsCounted
  BY DEF CountsOK, RunsCounted, Attempts
<1>2. Spec => []CountsOK
  BY InitCounts, StepCounts, Invariant, PTL DEF Spec
<1> QED
  BY <1>1, <1>2, PTL
=============================================================================
