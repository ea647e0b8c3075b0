--------------------------- MODULE TaskQueue_proofs ---------------------------
(***************************************************************************)
(* Proofs about the task machine as a queue, for any number of processes,  *)
(* rows and signals: no signal is lost or doubled by merging, no two rows  *)
(* wait for the same key, the queue never outgrows its capacity, and a     *)
(* loop that has lost its row changes nothing.                             *)
(*                                                                         *)
(* Only _enqueue puts a signal into a row, and it does so under the        *)
(* capacity and under the key.  Every other step leaves the payloads alone *)
(* and makes no row waiting or unfinished that was not: the attempts it    *)
(* counted keep a row that comes back to pending from being merged into.   *)
(***************************************************************************)
EXTENDS TaskStore_proofs, FiniteSetTheorems

Waiting(r) == r.state = "pending" /\ r.attempts = 0

\* What a step other than _enqueue does to a row, r before it and s after it.
Settles(r, s) ==
  /\ s.key = r.key /\ s.payload = r.payload
  /\ s.state = "none" => r.state = "none"
  /\ Waiting(s) => Waiting(r)
  /\ s.state \in Unfinished => r.state \in Unfinished

\* No two rows wait for the same key.
Distinct(t) ==
  \A i, j \in TaskIds :
    /\ Waiting(t[i]) /\ Waiting(t[j])
    /\ t[i].key = t[j].key /\ t[i].key \notin Unkeyed
    => i = j

\* Each accepted signal is in one row, under its own key; a replacing merge may
\* have dropped it.
Sorted(t, acc) ==
  /\ \A i \in TaskIds : t[i].state = "none" => t[i].payload = {}
  /\ \A i \in TaskIds : \A e \in t[i].payload : e \in acc /\ KeyOf[e] = t[i].key
  /\ \A i, j \in TaskIds : t[i].payload \cap t[j].payload # {} => i = j
  /\ \A e \in acc : KeyOf[e] \notin Replacing => \E i \in TaskIds : e \in t[i].payload

Fits(t) == Cardinality(Open(t)) <= Capacity

QInv == Distinct(task) /\ Sorted(task, accepted) /\ Fits(task)

-----------------------------------------------------------------------------
(* Steps that enqueue nothing                                              *)

\* Unfinished rows can be counted.
LEMMA OpenFinite ==
  ASSUME NEW t
  PROVE  IsFiniteSet(Open(t)) /\ Cardinality(Open(t)) \in Nat
<1>1. IsFiniteSet(TaskIds)
  BY ConstantsAssumption, FS_Interval DEF TaskIds
<1>2. Open(t) \in SUBSET TaskIds
  BY DEF Open
<1> QED
  BY <1>1, <1>2, FS_Subset, FS_CardinalityType

\* The queue stays in order when no row takes in a signal.
LEMMA SettlesKeeps ==
  ASSUME NEW t, NEW u, NEW acc,
         \A id \in TaskIds : Settles(t[id], u[id]),
         Distinct(t), Sorted(t, acc), Fits(t)
  PROVE  Distinct(u) /\ Sorted(u, acc) /\ Fits(u)
<1>1. Distinct(u)
  BY DEF Distinct, Settles
<1>2. Sorted(u, acc)
  BY DEF Sorted, Settles
<1>3. Open(u) \in SUBSET Open(t)
  BY DEF Open, Settles
<1>4. Fits(u)
  BY <1>3, OpenFinite, FS_Subset, ConstantsAssumption DEF Fits
<1> QED
  BY <1>1, <1>2, <1>4

\* A row that is left alone.
LEMMA SameSettles == \A r : Settles(r, r)
BY DEF Settles

\* retry() by the owner of a row.
LEMMA RetriedSettles ==
  ASSUME NEW r \in Rows, RowOK(r), r.state \in Held, NEW remodel \in BOOLEAN
  PROVE  Settles(r, Retried(r, remodel))
<1>1. Quiet(r, Retried(r, remodel))
  BY RetriedQuiet
<1>2. r.attempts > 0 /\ r.state \in Unfinished
  BY DEF RowOK, Held, Unfinished
<1> QED
  BY <1>1, <1>2 DEF Quiet, Settles, Waiting, Rows

\* recover_expired, for one row.
LEMMA RecoveredSettles ==
  ASSUME NEW r \in Rows, RowOK(r)
  PROVE  Settles(r, Recovered(r))
<1>1. Quiet(r, Recovered(r))
  BY RecoveredQuiet
<1>2. r.state \in Held => r.attempts > 0
  BY DEF RowOK, Held
<1>3. \/ Recovered(r).state \in {r.state, "dead"}
      \/ r.state \in Held
  BY DEF Recovered, Expired, Rows, Held
<1> QED
  BY <1>1, <1>2, <1>3 DEF Quiet, Settles, Waiting, Rows, Unfinished, Held

\* claim() takes a row out of the waiting ones.
LEMMA ClaimSettles ==
  ASSUME TypeOK, NEW w, NEW id \in TaskIds, ClaimRow(w, id),
         task[id].state \in {"pending", "ready"}
  PROVE  \A k \in TaskIds : Settles(task[k], task'[k])
<1>1. \A k \in TaskIds : k # id => task'[k] = task[k]
  BY DEF ClaimRow, TypeOK
<1>2. /\ task'[id].state \in Held
      /\ task'[id].key = task[id].key /\ task'[id].payload = task[id].payload
  BY DEF ClaimRow, TypeOK, Rows, Held
<1> QED
  BY <1>1, <1>2 DEF Settles, Waiting, Held, Unfinished

-----------------------------------------------------------------------------
(* Enqueueing                                                              *)

\* A signal is merged into row id: it is in that row and in no other.
LEMMA MergeSorts ==
  ASSUME NEW e \in Events, NEW t \in [TaskIds -> Rows], accepted \subseteq Events,
         e \notin accepted, NEW id \in Mergeable(t, KeyOf[e]),
         task' = [t EXCEPT ![id].payload = Merged(KeyOf[e], @, {e}),
                           ![id].version = @ + 1],
         accepted' = accepted \cup {e},
         Distinct(t), Sorted(t, accepted), Fits(t)
  PROVE  QInv'
<1>1. /\ id \in TaskIds /\ t[id].key = KeyOf[e]
      /\ t[id].state = "pending" /\ t[id].attempts = 0
  BY DEF Mergeable
<1>2. /\ \A k \in TaskIds : k # id => task'[k] = t[k]
      /\ task'[id].key = t[id].key /\ task'[id].state = t[id].state
      /\ task'[id].attempts = t[id].attempts
      /\ task'[id].payload = Merged(KeyOf[e], t[id].payload, {e})
  BY <1>1 DEF Rows
<1>3. Distinct(task')
  BY <1>1, <1>2 DEF Distinct, Waiting
<1>4. Fits(task')
  <2>1. Open(task') = Open(t)
    BY <1>1, <1>2 DEF Open
  <2> QED
    BY <2>1 DEF Fits
<1>5. /\ e \in task'[id].payload /\ task'[id].payload \subseteq t[id].payload \cup {e}
      /\ KeyOf[e] \notin Replacing => t[id].payload \subseteq task'[id].payload
  <2> DEFINE old == t[id].payload
             new == task'[id].payload
  <2>1. new = IF KeyOf[e] \in Replacing THEN {e} ELSE old \cup {e}
    BY <1>2 DEF Merged
  <2> HIDE DEF old, new
  <2>2. /\ e \in new /\ new \subseteq old \cup {e}
        /\ KeyOf[e] \notin Replacing => old \subseteq new
    BY <2>1
  <2> QED
    BY <2>2 DEF old, new
<1>6. \A k \in TaskIds : e \notin t[k].payload
  BY DEF Sorted
<1>7. Sorted(task', accepted \cup {e})
  <2>1. \A i \in TaskIds : task'[i].state = "none" => task'[i].payload = {}
    BY <1>1, <1>2 DEF Sorted
  <2>2. ASSUME NEW i \in TaskIds, NEW d \in task'[i].payload
        PROVE  d \in accepted \cup {e} /\ KeyOf[d] = task'[i].key
    <3>1. CASE i = id
      <4>1. d \in t[id].payload \/ d = e
        BY <2>2, <3>1, <1>5
      <4> QED
        BY <3>1, <4>1, <1>1, <1>2 DEF Sorted
    <3>2. CASE i # id
      BY <2>2, <3>2, <1>2 DEF Sorted
    <3> QED
      BY <3>1, <3>2
  <2>3. ASSUME NEW i \in TaskIds, NEW j \in TaskIds, NEW d,
               d \in task'[i].payload, d \in task'[j].payload
        PROVE  i = j
    <3>1. CASE d = e
      BY <2>3, <3>1, <1>2, <1>6
    <3>2. CASE d # e
      <4>1. d \in t[i].payload /\ d \in t[j].payload
        BY <2>3, <3>2, <1>2, <1>5
      <4> QED
        BY <4>1 DEF Sorted
    <3> QED
      BY <3>1, <3>2
  <2>4. ASSUME NEW d \in accepted \cup {e}, KeyOf[d] \notin Replacing
        PROVE  \E i \in TaskIds : d \in task'[i].payload
    <3>1. CASE d = e
      BY <3>1, <1>1, <1>5
    <3>2. CASE d # e
      <4>1. PICK i \in TaskIds : d \in t[i].payload
        BY <2>4, <3>2 DEF Sorted
      <4>2. i = id => KeyOf[e] \notin Replacing
        BY <1>1, <4>1, <2>4 DEF Sorted
      <4> QED
        BY <4>1, <4>2, <1>2, <1>5
    <3> QED
      BY <3>1, <3>2
  <2>5. \A i, j \in TaskIds : task'[i].payload \cap task'[j].payload # {} => i = j
    BY <2>3
  <2> QED
    BY <2>1, <2>2, <2>4, <2>5 DEF Sorted
<1> QED
  BY <1>3, <1>4, <1>7 DEF QInv

\* A signal gets a row of its own, while there is room and no row to merge it into.
LEMMA InsertSorts ==
  ASSUME NEW e \in Events, NEW t \in [TaskIds -> Rows], accepted \subseteq Events,
         e \notin accepted, NEW id \in TaskIds, t[id].state = "none",
         Mergeable(t, KeyOf[e]) = {}, Cardinality(Open(t)) < Capacity,
         task' = [t EXCEPT ![id] =
                      [Blank EXCEPT !.state = "pending", !.key = KeyOf[e],
                                    !.payload = {e}, !.due = TRUE]],
         accepted' = accepted \cup {e},
         Distinct(t), Sorted(t, accepted), Fits(t)
  PROVE  QInv'
<1>1. /\ \A k \in TaskIds : k # id => task'[k] = t[k]
      /\ task'[id].key = KeyOf[e] /\ task'[id].state = "pending"
      /\ task'[id].attempts = 0 /\ task'[id].payload = {e}
  BY DEF Blank
<1>2. Distinct(task')
  <2>1. \A k \in TaskIds : Waiting(t[k]) /\ t[k].key = KeyOf[e] => KeyOf[e] \in Unkeyed
    BY DEF Mergeable, Waiting
  <2> QED
    BY <1>1, <2>1 DEF Distinct
<1>3. Fits(task')
  <2>1. Open(task') = Open(t) \cup {id} /\ id \notin Open(t)
    BY <1>1 DEF Open, Unfinished
  <2>2. Cardinality(Open(task')) = Cardinality(Open(t)) + 1
    BY <2>1, OpenFinite, FS_AddElement
  <2> QED
    BY <2>2, OpenFinite, ConstantsAssumption DEF Fits
<1>4. t[id].payload = {} /\ \A k \in TaskIds : e \notin t[k].payload
  BY DEF Sorted
<1>5. Sorted(task', accepted \cup {e})
  <2>1. /\ \A i \in TaskIds : task'[i].state = "none" => task'[i].payload = {}
        /\ \A i \in TaskIds : \A d \in task'[i].payload :
             d \in accepted \cup {e} /\ KeyOf[d] = task'[i].key
    BY <1>1 DEF Sorted
  <2>2. \A i, j \in TaskIds : task'[i].payload \cap task'[j].payload # {} => i = j
    BY <1>1, <1>4 DEF Sorted
  <2>3. \A d \in accepted \cup {e} :
          KeyOf[d] \notin Replacing => \E i \in TaskIds : d \in task'[i].payload
    BY <1>1, <1>4 DEF Sorted
  <2> QED
    BY <2>1, <2>2, <2>3 DEF Sorted
<1> QED
  BY <1>2, <1>3, <1>5 DEF QInv

\* _enqueue of a signal that was not accepted before keeps the queue in order.
LEMMA EnqueueSorts ==
  ASSUME NEW e \in Events \ accepted, NEW t \in [TaskIds -> Rows],
         lastId \in 0 .. MaxTasks, accepted \subseteq Events,
         \A id \in TaskIds : t[id].state = "none" <=> id > lastId,
         Enqueue(t, e),
         Distinct(t), Sorted(t, accepted), Fits(t)
  PROVE  QInv'
<1>1. accepted' = accepted \cup {e} /\ ~QueueFull(t, e)
  BY DEF Enqueue
<1>2. CASE \E id \in Mergeable(t, KeyOf[e]) :
             task' = [t EXCEPT ![id].payload = Merged(KeyOf[e], @, {e}),
                               ![id].version = @ + 1]
  <2>1. PICK id \in Mergeable(t, KeyOf[e]) :
          task' = [t EXCEPT ![id].payload = Merged(KeyOf[e], @, {e}),
                            ![id].version = @ + 1]
    BY <1>2
  <2> QED
    BY <1>1, <2>1, MergeSorts
<1>3. CASE /\ Mergeable(t, KeyOf[e]) = {} /\ lastId < MaxTasks
           /\ task' = [t EXCEPT ![lastId + 1] =
                        [Blank EXCEPT !.state = "pending", !.key = KeyOf[e],
                                      !.payload = {e}, !.due = TRUE]]
  <2>1. Cardinality(Open(t)) < Capacity
    BY <1>1, <1>3, OpenFinite, ConstantsAssumption DEF QueueFull
  <2>2. lastId + 1 \in TaskIds /\ t[lastId + 1].state = "none"
    BY <1>3, ConstantsAssumption DEF TaskIds
  <2> QED
    BY <1>1, <1>3, <2>1, <2>2, InsertSorts
<1> QED
  BY <1>2, <1>3 DEF Enqueue

-----------------------------------------------------------------------------
(* Every step                                                              *)

\* An empty table is in order.
LEMMA InitQueue == Init => QInv
<1> SUFFICES ASSUME Init PROVE QInv
  OBVIOUS
<1>1. \A id \in TaskIds : task[id].state = "none" /\ task[id].payload = {}
  BY DEF Init, Blank
<1>2. Distinct(task) /\ Sorted(task, accepted)
  BY <1>1 DEF Init, Distinct, Sorted, Waiting
<1>3. Open(task) = {}
  BY <1>1 DEF Open, Unfinished
<1>4. Fits(task)
  BY <1>3, FS_EmptySet, ConstantsAssumption DEF Fits
<1> QED
  BY <1>2, <1>4 DEF QInv

\* retry() settles every row, whoever calls it.
LEMMA RetrySettles ==
  ASSUME IInv, NEW w \in Workers, Retry(w)
  PROVE  \A id \in TaskIds : Settles(task[id], task'[id])
<1>1. PICK remodel \in BOOLEAN :
        task' = IF Owned(w, Held)
                THEN [task EXCEPT ![claim[w].id] = Retried(@, remodel)]
                ELSE task
  BY DEF Retry, Held
<1>2. CASE Owned(w, Held)
  <2>1. /\ claim[w].id \in TaskIds /\ task[claim[w].id] \in Rows
        /\ RowOK(task[claim[w].id]) /\ task[claim[w].id].state \in Held
    BY <1>2, OwnedRow
  <2>2. Settles(task[claim[w].id], Retried(task[claim[w].id], remodel))
    BY <2>1, RetriedSettles
  <2> QED
    BY <1>1, <1>2, <2>1, <2>2, SameSettles DEF IInv, TypeOK
<1>3. CASE ~Owned(w, Held)
  BY <1>1, <1>3, SameSettles
<1> QED
  BY <1>2, <1>3

\* A step of a loop settles every row or finishes one and enqueues its follow-up.
LEMMA LoopQueues ==
  ASSUME IInv, QInv, NEW w \in Workers, LoopStep(w) PROVE QInv'
<1> DEFINE settled == \A id \in TaskIds : Settles(task[id], task'[id])
           r == task[claim[w].id]
<1>1. TypeOK /\ RowsOK
  BY DEF IInv
<1>2. ASSUME settled, accepted' = accepted PROVE QInv'
  BY <1>2, SettlesKeeps DEF QInv
<1>3. CASE RecoverExpired(w)
  <2>1. settled
    BY <1>1, <1>3, RecoveredSettles, SameSettles DEF RecoverExpired, RowsOK, TypeOK
  <2> QED
    BY <1>2, <1>3, <2>1 DEF RecoverExpired
<1>4. CASE List(w) \/ EndPass(w) \/ ReclaimRefused(w)
  BY <1>2, <1>4, SameSettles DEF List, EndPass, ReclaimRefused, table
<1>5. CASE ClaimNext(w)
  <2>1. PICK item \in batch[w] : \/ Claimable(item[1], item[2]) /\ ClaimRow(w, item[1])
                                 \/ UNCHANGED task
    BY <1>5 DEF ClaimNext
  <2>2. item[1] \in TaskIds
    BY DEF IInv, BatchOK
  <2>3. settled
    BY <1>1, <2>1, <2>2, ClaimSettles, SameSettles DEF Claimable
  <2> QED
    BY <1>2, <1>5, <2>3 DEF ClaimNext
<1>6. CASE Reclaim(w)
  <2>1. claim[w].id \in TaskIds
    BY <1>1, <1>6 DEF IInv, ClaimsOK, ClaimOK, Reclaim, Busy, TypeOK, TaskIds
  <2>2. settled
    BY <1>1, <1>6, <2>1, ClaimSettles, SameSettles DEF Reclaim, Claimable
  <2> QED
    BY <1>2, <1>6, <2>2 DEF Reclaim
<1>7. CASE SealContext(w) \/ StoreResult(w)
  <2>1. Owned(w, Held) /\ r.state = "running"
    BY <1>7 DEF SealContext, StoreResult, Owned, Held
  <2>2. claim[w].id \in TaskIds /\ r \in Rows /\ RowOK(r)
    BY <2>1, OwnedRow
  <2>3. /\ \A k \in TaskIds : k # claim[w].id => task'[k] = task[k]
        /\ task'[claim[w].id].state \in {"running", "ready"}
        /\ task'[claim[w].id].key = r.key /\ task'[claim[w].id].payload = r.payload
    BY <1>1, <1>7, <2>1, <2>2 DEF SealContext, StoreResult, TypeOK, Rows
  <2>4. settled
    BY <2>1, <2>3 DEF Settles, Waiting, Unfinished
  <2> QED
    BY <1>2, <1>7, <2>4 DEF SealContext, StoreResult
<1>8. CASE ModelFails(w) \/ ApplyFails(w)
  BY <1>2, <1>8, RetrySettles DEF ModelFails, ApplyFails
<1>9. CASE Complete(w)
  <2> DEFINE t == [task EXCEPT ![claim[w].id].state = "done", ![claim[w].id].token = 0,
                               ![claim[w].id].live = FALSE]
  <2>1. Owned(w, Held) /\ r.state = "applying"
    BY <1>9 DEF Complete, Owned, Held
  <2>2. claim[w].id \in TaskIds /\ r \in Rows
    BY <2>1, OwnedRow
  <2>3. /\ t \in [TaskIds -> Rows]
        /\ \A k \in TaskIds : k # claim[w].id => t[k] = task[k]
        /\ t[claim[w].id].state = "done"
        /\ t[claim[w].id].key = r.key /\ t[claim[w].id].payload = r.payload
    BY <1>1, <2>2 DEF TypeOK, Rows, States
  <2>4. \A id \in TaskIds : Settles(task[id], t[id])
    BY <2>3 DEF Settles, Waiting, Unfinished
  <2>5. \A id \in TaskIds : t[id].state = "none" <=> id > lastId
    BY <1>1, <2>1, <2>3 DEF RowsOK
  <2>6. Distinct(t) /\ Sorted(t, accepted) /\ Fits(t)
    BY <2>4, SettlesKeeps DEF QInv
  <2>7. \/ task' = t /\ accepted' = accepted
        \/ \E e \in Events \ accepted : Enqueue(t, e)
    BY <1>9 DEF Complete
  <2> HIDE DEF t
  <2>8. lastId \in 0 .. MaxTasks /\ accepted \subseteq Events
    BY <1>1 DEF TypeOK
  <2>9. CASE task' = t /\ accepted' = accepted
    BY <2>6, <2>9 DEF QInv
  <2>10. ASSUME NEW e \in Events \ accepted, Enqueue(t, e) PROVE QInv'
    BY <2>3, <2>5, <2>6, <2>8, <2>10, EnqueueSorts
  <2> QED
    BY <2>7, <2>9, <2>10
<1> QED
  BY <1>3, <1>4, <1>5, <1>6, <1>7, <1>8, <1>9 DEF LoopStep

\* The inductive step for the whole service.
LEMMA StepQueue == IInv /\ QInv /\ [Next]_vars => QInv'
<1> SUFFICES ASSUME IInv, QInv, [Next]_vars PROVE QInv'
  OBVIOUS
<1>1. ASSUME NEW w \in Workers, LoopStep(w) PROVE QInv'
  BY <1>1, LoopQueues
<1>2. ASSUME NEW i \in Instances, NEW e \in Events, AcceptSignal(i, e) PROVE QInv'
  <2>1. /\ task \in [TaskIds -> Rows] /\ lastId \in 0 .. MaxTasks /\ accepted \subseteq Events
        /\ \A id \in TaskIds : task[id].state = "none" <=> id > lastId
    BY DEF IInv, TypeOK, RowsOK
  <2>2. e \in Events \ accepted /\ Enqueue(task, e)
    BY <1>2 DEF AcceptSignal
  <2> QED
    BY <2>1, <2>2, EnqueueSorts DEF QInv
<1>3. CASE UNCHANGED table
  BY <1>3 DEF table, QInv, Distinct, Sorted, Fits, Open
<1>4. ASSUME NEW id \in TaskIds, LeaseRunsOut(id) \/ BackoffElapses(id) PROVE QInv'
  <2>1. task \in [TaskIds -> Rows] /\ accepted' = accepted
    BY <1>4 DEF IInv, TypeOK, LeaseRunsOut, BackoffElapses
  <2>2. /\ \A k \in TaskIds : k # id => task'[k] = task[k]
        /\ task'[id].key = task[id].key /\ task'[id].payload = task[id].payload
        /\ task'[id].state = task[id].state /\ task'[id].attempts = task[id].attempts
    BY <1>4, <2>1 DEF LeaseRunsOut, BackoffElapses, Rows
  <2>3. \A k \in TaskIds : Settles(task[k], task'[k])
    BY <2>2 DEF Settles, Waiting
  <2> QED
    BY <2>1, <2>3, SettlesKeeps DEF QInv
<1> QED
  BY <1>1, <1>2, <1>3, <1>4
     DEF Next, vars, table, Save, StaleCommit, Start, Crash

\* ... so the queue is always in order.
LEMMA QueueInvariance == Spec => []QInv
BY InitQueue, StepQueue, Invariance, PTL DEF Spec

-----------------------------------------------------------------------------
(* What follows from it                                                    *)

\* A set without two different members has at most one.
LEMMA AtMostOne ==
  ASSUME NEW S, \A x, y \in S : x = y
  PROVE  Cardinality(S) \in 0 .. 1 /\ (S # {} => Cardinality(S) = 1)
<1>1. CASE S = {}
  BY <1>1, FS_EmptySet
<1>2. CASE S # {}
  <2>1. PICK x : x \in S
    BY <1>2
  <2>2. S = {x}
    BY <2>1
  <2>3. Cardinality(S) = 1
    BY <2>2, FS_Singleton
  <2> QED
    BY <2>3
<1> QED
  BY <1>1, <1>2

\* The index tasks_mergeable is never violated: a new signal finds the row that
\* already waits for its key (_enqueue), and a row that was claimed once never
\* waits again, although retries and recoveries make it pending.
THEOREM NoDoubleRow == Spec => []OneUnclaimedPerKey
<1>1. QInv => OneUnclaimedPerKey
  <2> SUFFICES ASSUME QInv, NEW k \in Keys \ Unkeyed
               PROVE  Cardinality(Mergeable(task, k)) <= 1
    BY DEF OneUnclaimedPerKey
  <2>1. \A i, j \in Mergeable(task, k) : i = j
    BY DEF Mergeable, QInv, Distinct, Waiting
  <2> QED
    BY <2>1, AtMostOne
<1> QED
  BY <1>1, QueueInvariance, PTL

\* Merging neither loses nor doubles a signal: whatever was enqueued is judged
\* with one row, except what a replacing merge superseded.
THEOREM NoSignalLost == Spec => []SignalsKept
<1>1. QInv => SignalsKept
  <2> SUFFICES ASSUME QInv, NEW e \in accepted
               PROVE  Cardinality({id \in TaskIds : e \in task[id].payload})
                        \in (IF KeyOf[e] \in Replacing THEN 0 .. 1 ELSE {1})
    BY DEF SignalsKept
  <2> DEFINE S == {id \in TaskIds : e \in task[id].payload}
  <2>1. \A i, j \in S : i = j
    BY DEF QInv, Sorted
  <2>2. KeyOf[e] \notin Replacing => S # {}
    BY DEF QInv, Sorted
  <2> HIDE DEF S
  <2>3. Cardinality(S) \in 0 .. 1 /\ (S # {} => Cardinality(S) = 1)
    BY <2>1, AtMostOne
  <2> QED
    BY <2>2, <2>3 DEF S
<1> QED
  BY <1>1, QueueInvariance, PTL

\* The queue is never longer than its capacity, although complete() enqueues a
\* follow-up: it frees the slot of the finished row first.
THEOREM QueueBounded == Spec => []WithinCapacity
<1>1. QInv => WithinCapacity
  BY DEF QInv, Fits, WithinCapacity
<1> QED
  BY <1>1, QueueInvariance, PTL

\* A loop whose lease ran out or whose row another loop has claimed changes
\* neither the table nor the checkpoint: _owned() turns its call away.
THEOREM LateIsHarmless == Spec => LateLoopHarmless
<1>1. ASSUME TypeOK, [Next]_vars, NEW w \in Workers,
             pc[w] \in {"model", "call", "apply"}, ~Owned(w, Held),
             pc'[w] # pc[w], up'[Process(w)]
      PROVE  UNCHANGED <<task, checkpoint>>
  <2>1. ASSUME NEW v \in Workers, LoopStep(v) PROVE v = w
    BY <1>1, <2>1
       DEF LoopStep, RecoverExpired, List, ClaimNext, EndPass, SealContext,
           StoreResult, Reclaim, ReclaimRefused, ModelFails, Complete, ApplyFails,
           Retry, NextItem, ClaimRow, TypeOK
  <2>2. ~Owned(w, {"running"}) /\ ~Owned(w, {"applying"}) /\ ~Owned(w, {"running", "applying"})
    BY <1>1 DEF Owned, Held
  <2>3. CASE LoopStep(w)
    BY <1>1, <2>2, <2>3
       DEF LoopStep, RecoverExpired, List, ClaimNext, EndPass, SealContext,
           StoreResult, Reclaim, ReclaimRefused, ModelFails, Complete, ApplyFails,
           Retry, checkpoint
  <2>4. ASSUME NEW i \in Instances, Crash(i) PROVE FALSE
    BY <1>1, <2>4 DEF Crash, TypeOK, Workers, Process
  <2>5. CASE UNCHANGED pc
    BY <1>1, <2>5
  <2> QED
    BY <1>1, <2>1, <2>3, <2>4, <2>5
       DEF Next, vars, AcceptSignal, Save, StaleCommit, Start, LeaseRunsOut,
           BackoffElapses, loops
<1>2. TypeOK /\ [Next]_vars =>
        [\A w \in Workers :
           /\ pc[w] \in {"model", "call", "apply"}
           /\ ~Owned(w, {"running", "applying"})
           /\ pc'[w] # pc[w] /\ up'[Process(w)]
           => UNCHANGED <<task, checkpoint>>]_vars
  BY <1>1 DEF Held
<1> QED
  BY <1>2, TypeCorrect, PTL DEF Spec, LateLoopHarmless
=============================================================================
