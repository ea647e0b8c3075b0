------------------------- MODULE TaskStore_proofs -------------------------
(***************************************************************************)
(* Proofs about the task machine, for any number of processes, tasks and   *)
(* signals and for every retry policy: its type invariant, the safety      *)
(* invariants that hold of the table and of the checkpoint, and that it    *)
(* implements TaskPromise.                                                 *)
(*                                                                         *)
(* The inductive invariant says how a row and the loops that claimed it    *)
(* hang together.  A claim carries the number of the claim as its token,   *)
(* tokens only grow, so a loop whose token is the token of the row is the  *)
(* last one that claimed it, nothing has been merged into the row since,   *)
(* and the context it sealed is still the latest one.                      *)
(***************************************************************************)
EXTENDS TaskStore, TLAPS

Held == {"running", "applying"}
Busy == {"model", "call", "reclaim", "apply"}

\* One row by itself.
RowOK(r) ==
  /\ r.state = "none" => r.attempts = 0
  /\ r.attempts = 0 => r.applies = 0
  /\ r.state \in {"running", "ready", "applying"} => r.attempts > 0
  /\ r.state \in {"none", "pending", "running"} => r.result = NoResult
  /\ r.state \in Held <=> r.token # 0
  /\ r.token <= r.attempts + r.applies
  /\ r.result # NoResult => /\ r.attempts > 0
                            /\ r.result.input = r.payload
                            /\ r.result.seal = r.seal

\* The table: rows are used in order, and only beside a checkpoint.
RowsOK ==
  /\ \A id \in TaskIds : RowOK(task[id])
  /\ \A id \in TaskIds : task[id].state = "none" <=> id > lastId
  /\ lastId > 0 => revision > 0

\* What loop w holds: a row of its family, by a token of its own.
ClaimOK(w) ==
  LET c == claim[w] IN
  /\ pc[w] \in Busy => c.id # 0
  /\ c.id # 0 =>
       /\ c.id <= lastId
       /\ task[c.id].key \in FamilyKeys(w)
       /\ c.token > 0
       /\ c.token <= task[c.id].attempts + task[c.id].applies
       /\ task[c.id].token = c.token =>
            /\ c.input = task[c.id].payload
            /\ pc[w] = "call" => task[c.id].seal = c.token
       /\ \A v \in Workers :
            v # w /\ claim[v].id = c.id => claim[v].token # c.token

ClaimsOK == \A w \in Workers : ClaimOK(w)

BatchOK ==
  \A w \in Workers : \A item \in batch[w] :
    item[1] \in TaskIds /\ item[1] <= lastId /\ task[item[1]].key \in FamilyKeys(w)

MemoryOK ==
  /\ \A i \in Instances : rev[i] <= revision
  /\ CoherentMemory
  /\ EffectExactlyOnce

IInv == TypeOK /\ RowsOK /\ ClaimsOK /\ BatchOK /\ MemoryOK
-----------------------------------------------------------------------------
(* Steps that leave every claim as it was or end it                        *)

\* s is row r with its lease ended, its product dropped or its fate sealed.
Quiet(r, s) ==
  /\ s \in Rows /\ RowOK(s)
  /\ s.key = r.key /\ s.payload = r.payload /\ s.seal = r.seal
  /\ s.attempts = r.attempts /\ s.applies = r.applies
  /\ s.token \in {r.token, 0}
  /\ s.state = "none" <=> r.state = "none"
  /\ s.state = "done" <=> r.state = "done"

\* A row that is left alone (TaskStore.claim returning None, for one).
LEMMA SameQuiet ==
  ASSUME NEW r \in Rows, RowOK(r)
  PROVE  Quiet(r, r)
BY DEF Quiet

\* TaskStore.retry by the owner of the row.
LEMMA RetriedQuiet ==
  ASSUME NEW r \in Rows, RowOK(r), r.state \in Held, NEW remodel \in BOOLEAN
  PROVE  Quiet(r, Retried(r, remodel))
<1> DEFINE dead == Exhausted(r)
           s == Retried(r, remodel)
<1>1. s.state = IF dead THEN "dead"
                ELSE IF r.state = "applying" /\ ~remodel THEN "ready" ELSE "pending"
  BY DEF Retried, Rows
<1>2. s.result = IF remodel /\ ~dead THEN NoResult ELSE r.result
  BY DEF Retried, Rows
<1>3. /\ s.token = 0 /\ s.key = r.key /\ s.payload = r.payload
      /\ s.seal = r.seal /\ s.attempts = r.attempts /\ s.applies = r.applies
  BY DEF Retried, Rows
<1>4. s \in Rows
  <2>1. NoResult \in Results
    BY DEF NoResult, Results
  <2>2. s.state \in States
    BY <1>1 DEF States
  <2> QED BY <2>1, <2>2 DEF Retried, Rows
<1>5. r.state = "running" => r.result = NoResult
  BY DEF RowOK
<1>6. RowOK(s)
  BY <1>1, <1>2, <1>3, <1>5 DEF RowOK, Held, Rows
<1> QED BY <1>1, <1>3, <1>4, <1>6 DEF Quiet, Held

\* TaskStore.recover_expired, for one row.
LEMMA RecoveredQuiet ==
  ASSUME NEW r \in Rows, RowOK(r)
  PROVE  Quiet(r, Recovered(r))
<1>1. ASSUME NEW x \in Rows, RowOK(x) PROVE Quiet(x, Expired(x))
  <2>1. CASE x.state \in Held /\ ~x.live
    <3> DEFINE s == Expired(x)
    <3>1. s.state = IF Exhausted(x) THEN "dead"
                    ELSE IF x.state = "applying" THEN "ready" ELSE "pending"
      BY <2>1 DEF Expired, Rows, Held
    <3>2. /\ s.token = 0 /\ s.key = x.key /\ s.payload = x.payload
          /\ s.seal = x.seal /\ s.attempts = x.attempts
          /\ s.applies = x.applies /\ s.result = x.result
      BY <2>1 DEF Expired, Rows, Held
    <3>3. s \in Rows
      BY <2>1, <3>1 DEF Expired, Rows, Held, States
    <3> HIDE DEF s
    <3>4. /\ x.state = "running" => x.result = NoResult
          /\ x.state \in {"running", "applying"} => x.attempts > 0
          /\ x.result # NoResult => /\ x.attempts > 0
                                    /\ x.result.input = x.payload
                                    /\ x.result.seal = x.seal
      BY <1>1 DEF RowOK
    <3>5. RowOK(s)
      <4>1. /\ x.attempts \in Nat /\ x.applies \in Nat
            /\ x.state = "running" \/ x.state = "applying"
        BY <2>1 DEF Rows, Held
      <4> QED BY <3>1, <3>2, <3>4, <4>1 DEF RowOK, Held
    <3> QED BY <2>1, <3>1, <3>2, <3>3, <3>5 DEF Quiet, Held, s
  <2>2. CASE ~(x.state \in Held /\ ~x.live)
    BY <1>1, <2>2, SameQuiet DEF Expired, Held
  <2> QED BY <2>1, <2>2
<1> DEFINE e == Expired(r)
<1>2. Quiet(r, e)
  BY <1>1
<1>3. CASE Recovered(r) = e
  BY <1>2, <1>3
<1>4. CASE /\ e.state \in {"pending", "ready"}
           /\ Recovered(r) = [e EXCEPT !.state = "dead"]
  <2> DEFINE d == [e EXCEPT !.state = "dead"]
  <2>1. e \in Rows /\ RowOK(e)
    BY <1>2 DEF Quiet
  <2>2. /\ d \in Rows /\ d.state = "dead" /\ d.token = e.token
        /\ d.key = e.key /\ d.payload = e.payload /\ d.seal = e.seal
        /\ d.attempts = e.attempts /\ d.applies = e.applies
        /\ d.result = e.result
    BY <2>1 DEF Rows, States
  <2>3. RowOK(d)
    BY <2>1, <2>2, <1>4 DEF RowOK, Held
  <2> HIDE DEF d, e
  <2>4. Quiet(r, d)
    BY <1>2, <1>4, <2>2, <2>3 DEF Quiet
  <2> QED BY <2>4, <1>4 DEF d
<1> QED BY <1>3, <1>4 DEF Recovered

\* s is row r after a step that did not claim it and, if it was ever claimed,
\* merged nothing into it and sealed nothing for it.
Calm(r, s) ==
  /\ s \in Rows /\ RowOK(s)
  /\ r.state # "none" => s.key = r.key
  /\ r.attempts > 0 => s.payload = r.payload /\ s.seal = r.seal
  /\ s.attempts = r.attempts /\ s.applies = r.applies
  /\ s.token \in {r.token, 0}

\* Claims survive a step that is calm on every row and in which a loop keeps
\* its claim or lets it go.
LEMMA CalmKeeps ==
  ASSUME TypeOK, RowsOK, ClaimsOK,
         \A id \in TaskIds : Calm(task[id], task'[id]),
         lastId' \in Nat, lastId' >= lastId,
         \A w \in Workers : claim'[w] = claim[w] \/ claim'[w] = NoClaim,
         \A w \in Workers : pc'[w] \in Busy => claim'[w] = claim[w] /\ pc[w] \in Busy,
         \A w \in Workers : pc'[w] = "call" => pc[w] = "call"
  PROVE  ClaimsOK'
<1>1. ASSUME NEW w \in Workers PROVE ClaimOK(w)'
  <2> DEFINE c == claim[w]
  <2>1. ClaimOK(w)
    BY DEF ClaimsOK
  <2>2. CASE claim'[w] = NoClaim
    <3>1. pc'[w] \notin Busy
      BY <2>1, <2>2 DEF NoClaim, ClaimOK
    <3> QED BY <2>2, <3>1 DEF ClaimOK, NoClaim
  <2>3. CASE claim'[w] = claim[w] /\ c.id # 0
    <3> DEFINE r == task[c.id]
               s == task'[c.id]
    <3>1. /\ c.id \in TaskIds /\ c.token \in Nat
          /\ r \in Rows /\ RowOK(r) /\ Calm(r, s)
      BY <2>3 DEF TypeOK, TaskIds, RowsOK
    <3>2. /\ c.id <= lastId /\ c.token > 0 /\ r.key \in FamilyKeys(w)
          /\ c.token <= r.attempts + r.applies
      BY <2>1, <2>3 DEF ClaimOK
    <3>3. r.attempts > 0 /\ r.state # "none"
      BY <3>1, <3>2 DEF RowOK, Rows
    <3>4. /\ s.payload = r.payload /\ s.seal = r.seal /\ s.key = r.key
          /\ s.attempts = r.attempts /\ s.applies = r.applies
      BY <3>1, <3>3 DEF Calm
    <3>5. s.token = c.token =>
            /\ c.input = s.payload
            /\ pc'[w] = "call" => s.seal = c.token
      BY <2>1, <2>3, <3>1, <3>2, <3>4 DEF ClaimOK, Calm
    <3>6. ASSUME NEW v \in Workers, v # w, claim'[v].id = c.id
          PROVE  claim'[v].token # c.token
      <4>1. claim'[v] = claim[v]
        BY <2>3, <3>6 DEF NoClaim
      <4> QED BY <2>1, <2>3, <3>6, <4>1 DEF ClaimOK
    <3>7. c.id <= lastId'
      BY <3>1, <3>2 DEF TypeOK, TaskIds
    <3> QED BY <2>3, <3>2, <3>4, <3>5, <3>6, <3>7 DEF ClaimOK
  <2>4. CASE claim'[w] = claim[w] /\ c.id = 0
    <3>1. pc'[w] \notin Busy
      BY <2>1, <2>4 DEF ClaimOK
    <3> QED BY <2>4, <3>1 DEF ClaimOK
  <2> QED BY <2>2, <2>3, <2>4
<1> QED BY <1>1 DEF ClaimsOK

\* Rows and claims survive a step that is quiet on every row.
LEMMA QuietKeeps ==
  ASSUME TypeOK, RowsOK, ClaimsOK,
         task' \in [TaskIds -> Rows],
         \A id \in TaskIds : Quiet(task[id], task'[id]),
         lastId' = lastId,
         revision' \in Nat, revision' >= revision,
         \A w \in Workers : claim'[w] = claim[w] \/ claim'[w] = NoClaim,
         \A w \in Workers : pc'[w] \in Busy => claim'[w] = claim[w] /\ pc[w] \in Busy,
         \A w \in Workers : pc'[w] = "call" => pc[w] = "call"
  PROVE  RowsOK' /\ ClaimsOK'
<1>1. RowsOK'
  BY SMTT(30) DEF TypeOK, RowsOK, Quiet
<1>2. \A id \in TaskIds : Calm(task[id], task'[id])
  BY DEF Calm, Quiet
<1>3. lastId' \in Nat /\ lastId' >= lastId
  BY DEF TypeOK
<1> QED BY <1>1, <1>2, <1>3, CalmKeeps

\* The same for what the loops have listed and for the durable effects.
LEMMA QuietRest ==
  ASSUME TypeOK, BatchOK, EffectExactlyOnce,
         task' \in [TaskIds -> Rows],
         \A id \in TaskIds : Quiet(task[id], task'[id]),
         lastId' = lastId, disk' = disk,
         \A w \in Workers : batch'[w] \subseteq batch[w]
  PROVE  BatchOK' /\ EffectExactlyOnce'
<1>1. BatchOK'
  BY DEF BatchOK, Quiet, TypeOK
<1>2. EffectExactlyOnce'
  BY DEF EffectExactlyOnce, Quiet
<1> QED BY <1>1, <1>2

-----------------------------------------------------------------------------
(* Claiming                                                                *)

ClaimType == [id : 0 .. MaxTasks, version : Nat, token : Nat,
              input : SUBSET Events]

\* TaskStore.claim hands out a token nobody else holds for the row.
LEMMA ClaimRowKeeps ==
  ASSUME TypeOK, RowsOK, ClaimsOK,
         NEW w \in Workers, NEW id \in TaskIds,
         ClaimRow(w, id), task[id].state \in {"pending", "ready"},
         task[id].key \in FamilyKeys(w),
         lastId' = lastId, revision' = revision
  PROVE  /\ task' \in [TaskIds -> Rows]
         /\ claim' \in [Workers -> ClaimType]
         /\ pc' \in [Workers -> Steps]
         /\ RowsOK' /\ ClaimsOK'
         /\ \A k \in TaskIds : /\ task'[k].key = task[k].key
                               /\ task'[k].state = "done" <=> task[k].state = "done"
<1> DEFINE r == task[id]
           token == r.attempts + r.applies + 1
           applying == r.state = "ready"
           s == task'[id]
           c == claim'[w]
<1>1. r \in Rows /\ RowOK(r)
  BY DEF TypeOK, RowsOK
<1>2. task' = [task EXCEPT ![id] =
        [r EXCEPT !.state = IF applying THEN "applying" ELSE "running",
                  !.attempts = IF applying THEN @ ELSE @ + 1,
                  !.applies = IF applying THEN @ + 1 ELSE @,
                  !.token = token, !.live = TRUE]]
  BY DEF ClaimRow, TypeOK
<1>3. s = [r EXCEPT !.state = IF applying THEN "applying" ELSE "running",
                    !.attempts = IF applying THEN @ ELSE @ + 1,
                    !.applies = IF applying THEN @ + 1 ELSE @,
                    !.token = token, !.live = TRUE]
  BY <1>2 DEF TypeOK
<1>4. /\ s.state = IF applying THEN "applying" ELSE "running"
      /\ s.attempts = IF applying THEN r.attempts ELSE r.attempts + 1
      /\ s.applies = IF applying THEN r.applies + 1 ELSE r.applies
      /\ s.token = token /\ s.key = r.key /\ s.payload = r.payload
      /\ s.seal = r.seal /\ s.result = r.result
  BY <1>1, <1>3 DEF Rows
<1>5. s \in Rows
  <2>1. r.attempts \in Nat /\ r.applies \in Nat
    BY <1>1 DEF Rows
  <2>2. /\ token \in Nat /\ r.attempts + 1 \in Nat /\ r.applies + 1 \in Nat
        /\ "applying" \in States /\ "running" \in States /\ TRUE \in BOOLEAN
    BY <2>1 DEF States
  <2>3. CASE applying
    <3> DEFINE n == r.applies + 1
    <3>1. s = [r EXCEPT !.state = "applying", !.applies = n, !.token = token, !.live = TRUE]
      BY <1>1, <1>3, <2>3 DEF Rows
    <3>2. n \in Nat
      BY <2>2
    <3> HIDE DEF r, s, token, n
    <3> QED BY <1>1, <2>2, <3>1, <3>2 DEF Rows
  <2>4. CASE ~applying
    <3> DEFINE n == r.attempts + 1
    <3>1. s = [r EXCEPT !.state = "running", !.attempts = n, !.token = token, !.live = TRUE]
      BY <1>1, <1>3, <2>4 DEF Rows
    <3>2. n \in Nat
      BY <2>2
    <3> HIDE DEF r, s, token, n
    <3> QED BY <1>1, <2>2, <3>1, <3>2 DEF Rows
  <2> QED BY <2>3, <2>4
<1>6. \A k \in TaskIds : k # id => task'[k] = task[k]
  BY <1>2 DEF TypeOK
<1>7. task' \in [TaskIds -> Rows]
  <2>1. task' = [task EXCEPT ![id] = s]
    BY <1>2, <1>3
  <2> HIDE DEF s
  <2> QED BY <2>1, <1>5 DEF TypeOK
<1>8. c = [id |-> id, version |-> r.version, token |-> token, input |-> r.payload]
  BY DEF ClaimRow, TypeOK
<1>9. claim' = [claim EXCEPT ![w] = c]
  BY <1>8 DEF ClaimRow
<1>10. c \in ClaimType
  BY <1>1, <1>8 DEF ClaimType, Rows, TaskIds
<1>11. claim' \in [Workers -> ClaimType]
  <2> HIDE DEF c
  <2> QED BY <1>9, <1>10 DEF TypeOK, ClaimType
<1>12. pc' \in [Workers -> Steps] /\ pc'[w] \in {"apply", "model"}
  BY DEF ClaimRow, TypeOK, Steps
<1>13. \A v \in Workers : v # w => claim'[v] = claim[v] /\ pc'[v] = pc[v]
  BY DEF ClaimRow, TypeOK
<1>14. RowOK(s)
  <2>1. r.attempts \in Nat /\ r.applies \in Nat
    BY <1>1 DEF Rows
  <2> HIDE DEF r, s
  <2> QED BY <1>1, <1>4, <2>1 DEF RowOK, Held, r, Rows
<1>15. RowsOK'
  <2>1. \A k \in TaskIds : RowOK(task'[k])
    BY <1>6, <1>14 DEF RowsOK
  <2>2. \A k \in TaskIds : task'[k].state = "none" <=> k > lastId'
    BY <1>4, <1>6 DEF RowsOK
  <2> QED BY <2>1, <2>2 DEF RowsOK
<1> HIDE DEF c, s
<1>16. id <= lastId
  BY DEF RowsOK, TaskIds, TypeOK
<1>17. ASSUME NEW v \in Workers PROVE ClaimOK(v)'
  <2>1. CASE v = w
    <3>1. c.id = id /\ c.token = token /\ c.input = r.payload
      BY <1>8
    <3>2. ASSUME NEW u \in Workers, u # w, claim'[u].id = id
          PROVE  claim'[u].token # token
      <4>1. ClaimOK(u) /\ claim'[u] = claim[u] /\ id # 0
        BY <1>13, <3>2 DEF ClaimsOK, TaskIds
      <4>2. claim[u].token <= r.attempts + r.applies
        BY <3>2, <4>1 DEF ClaimOK
      <4>3. claim[u].token \in Nat /\ r.attempts \in Nat /\ r.applies \in Nat
        BY <1>1 DEF TypeOK, Rows
      <4> QED BY <4>1, <4>2, <4>3
    <3>3. token > 0 /\ token <= s.attempts + s.applies
      BY <1>1, <1>4 DEF Rows
    <3>4. c.id # 0 /\ pc'[w] # "call"
      BY <1>12, <3>1 DEF TaskIds
    <3>5. s.key \in FamilyKeys(w) /\ s.payload = r.payload
      BY <1>4
    <3> HIDE DEF token, r
    <3> QED BY <2>1, <1>16, <3>1, <3>2, <3>3, <3>4, <3>5 DEF ClaimOK, c, s
  <2>2. CASE v # w /\ claim[v].id = id
    <3>1. claim'[v] = claim[v] /\ pc'[v] = pc[v] /\ ClaimOK(v) /\ id # 0
      BY <2>2, <1>13 DEF ClaimsOK, TaskIds
    <3>2. /\ claim[v].token \in Nat /\ claim[v].token > 0
          /\ claim[v].token <= r.attempts + r.applies
      BY <2>2, <3>1 DEF ClaimOK, TypeOK
    <3>3. r.attempts \in Nat /\ r.applies \in Nat
      BY <1>1 DEF Rows
    <3>4. claim[v].token < token /\ claim[v].token <= s.attempts + s.applies
      BY <3>2, <3>3, <1>4
    <3>5. s.token # claim[v].token
      BY <3>2, <3>3, <1>4
    <3>6. s.key \in FamilyKeys(v)
      BY <2>2, <3>1, <1>4 DEF ClaimOK
    <3>7. ASSUME NEW u \in Workers, u # v, claim'[u].id = id
          PROVE  claim'[u].token # claim[v].token
      <4>1. CASE u = w
        BY <4>1, <1>8, <3>2, <3>3 DEF c
      <4>2. CASE u # w
        BY <4>2, <3>1, <3>7, <2>2, <1>13 DEF ClaimOK
      <4> QED BY <4>1, <4>2
    <3> QED BY <2>2, <3>1, <3>2, <3>4, <3>5, <3>6, <3>7, <1>16 DEF ClaimOK, s
  <2>3. CASE v # w /\ claim[v].id # id
    <3>1. claim'[v] = claim[v] /\ pc'[v] = pc[v] /\ ClaimOK(v)
      BY <2>3, <1>13 DEF ClaimsOK
    <3>2. claim[v].id # 0 => claim[v].id \in TaskIds
      BY DEF TypeOK, TaskIds
    <3>3. claim[v].id # 0 => task'[claim[v].id] = task[claim[v].id]
      BY <2>3, <3>2, <1>6
    <3>4. ASSUME NEW u \in Workers, u # v, claim'[u].id = claim[v].id
          PROVE  claim'[u] = claim[u]
      BY <1>8, <1>13, <2>3, <3>4 DEF c
    <3> QED BY <2>3, <3>1, <3>3, <3>4 DEF ClaimOK
  <2> QED BY <2>1, <2>2, <2>3
<1>18. \A k \in TaskIds : /\ task'[k].key = task[k].key
                          /\ task'[k].state = "done" <=> task[k].state = "done"
  BY <1>4, <1>6 DEF s
<1> QED BY <1>7, <1>11, <1>12, <1>15, <1>17, <1>18 DEF ClaimsOK

-----------------------------------------------------------------------------
(* Enqueueing                                                              *)

\* s is r untouched, r with a signal merged into it, or a new row in its place.
Received(r, s) ==
  \/ s = r
  \/ r.state = "none" /\ s.state = "pending" /\ s.result = NoResult
  \/ /\ r.state = "pending" /\ s.state = "pending"
     /\ s.result = r.result /\ s.key = r.key

\* A row that has not been inserted yet satisfies what every row does.
LEMMA BlankRow == Blank \in Rows /\ RowOK(Blank)
<1>1. /\ NoResult \in Results /\ {} \in SUBSET Events
      /\ (CHOOSE k \in Keys : TRUE) \in Keys
  BY ConstantsAssumption DEF NoResult, Results
<1>2. Blank \in Rows
  BY <1>1 DEF Blank, Rows, States
<1> QED BY <1>2 DEF Blank, RowOK, Held

\* TaskStore._enqueue only ever touches rows that nobody has claimed.
LEMMA EnqueueKeeps ==
  ASSUME NEW e \in Events, NEW t \in [TaskIds -> Rows],
         lastId \in 0 .. MaxTasks, accepted \subseteq Events,
         \A id \in TaskIds : RowOK(t[id]),
         \A id \in TaskIds : t[id].state = "none" <=> id > lastId,
         Enqueue(t, e)
  PROVE  /\ task' \in [TaskIds -> Rows] /\ accepted' \subseteq Events
         /\ lastId' \in 0 .. MaxTasks /\ lastId' >= lastId /\ lastId' > 0
         /\ \A id \in TaskIds : /\ Calm(t[id], task'[id])
                                /\ Received(t[id], task'[id])
                                /\ task'[id].state = "none" <=> id > lastId'
<1> DEFINE k == KeyOf[e]
<1>1. k \in Keys /\ MaxTasks \in Nat
  BY ConstantsAssumption
<1>2. accepted' \subseteq Events
  BY DEF Enqueue
<1>3. ASSUME NEW id \in Mergeable(t, k), lastId' = lastId,
             task' = [t EXCEPT ![id].payload = Merged(k, @, {e}),
                               ![id].version = @ + 1]
      PROVE  /\ task' \in [TaskIds -> Rows] /\ lastId > 0
             /\ \A j \in TaskIds : /\ Calm(t[j], task'[j])
                                   /\ Received(t[j], task'[j])
                                   /\ task'[j].state = "none" <=> j > lastId
  <2> DEFINE r == t[id]
             new == Merged(k, r.payload, {e})
             s == [r EXCEPT !.payload = new, !.version = r.version + 1]
  <2>1. /\ id \in TaskIds /\ r \in Rows /\ RowOK(r)
        /\ r.state = "pending" /\ r.attempts = 0
    BY DEF Mergeable
  <2>2. new \in SUBSET Events /\ r.version + 1 \in Nat
    BY <2>1 DEF Merged, Rows
  <2>3. task' = [t EXCEPT ![id] = s]
    BY <1>3, <2>1 DEF Rows
  <2> HIDE DEF new
  <2>4. /\ s \in Rows /\ s.state = r.state /\ s.key = r.key
        /\ s.attempts = r.attempts /\ s.applies = r.applies
        /\ s.token = r.token /\ s.result = r.result
    BY <2>1, <2>2 DEF Rows
  <2> HIDE DEF s
  <2>5. RowOK(s)
    BY <2>1, <2>4 DEF RowOK, Held
  <2>6. Calm(r, s) /\ Received(r, s)
    BY <2>1, <2>4, <2>5 DEF Calm, Received
  <2>7. \A j \in TaskIds : Calm(t[j], t[j]) /\ Received(t[j], t[j])
    BY DEF Calm, Received
  <2>8. task'[id] = s /\ \A j \in TaskIds : j # id => task'[j] = t[j]
    BY <2>1, <2>3
  <2>9. \A j \in TaskIds : task'[j].state = t[j].state
    BY <2>4, <2>8
  <2>10. lastId > 0
    BY <2>1 DEF TaskIds
  <2>11. task' \in [TaskIds -> Rows]
    BY <2>3, <2>4
  <2>12. \A j \in TaskIds : Calm(t[j], task'[j]) /\ Received(t[j], task'[j])
    BY <2>6, <2>7, <2>8
  <2> QED BY <2>9, <2>10, <2>11, <2>12
<1>4. ASSUME lastId < MaxTasks, lastId' = lastId + 1,
             task' = [t EXCEPT ![lastId + 1] =
                        [Blank EXCEPT !.state = "pending", !.key = k,
                                      !.payload = {e}, !.due = TRUE]]
      PROVE  /\ task' \in [TaskIds -> Rows]
             /\ \A j \in TaskIds : /\ Calm(t[j], task'[j])
                                   /\ Received(t[j], task'[j])
                                   /\ task'[j].state = "none" <=> j > lastId + 1
  <2> DEFINE id == lastId + 1
             r == t[id]
             s == [Blank EXCEPT !.state = "pending", !.key = k,
                                !.payload = {e}, !.due = TRUE]
  <2>1. id \in TaskIds /\ r \in Rows /\ RowOK(r) /\ r.state = "none"
    BY <1>1, <1>4 DEF TaskIds
  <2>2. r.attempts = 0 /\ r.applies = 0 /\ r.token = 0
    BY <2>1 DEF RowOK, Held
  <2>3. s \in Rows /\ s.state = "pending" /\ s.result = NoResult
    BY <1>1, BlankRow DEF Rows, States, Blank
  <2>4. s.attempts = 0 /\ s.applies = 0 /\ s.token = 0
    BY BlankRow DEF Rows, Blank
  <2>5. task' = [t EXCEPT ![id] = s]
    BY <1>4
  <2> HIDE DEF s
  <2>6. RowOK(s)
    BY <2>3, <2>4 DEF RowOK, Held
  <2>7. Calm(r, s) /\ Received(r, s)
    BY <2>1, <2>2, <2>3, <2>4, <2>6 DEF Calm, Received
  <2>8. \A j \in TaskIds : Calm(t[j], t[j]) /\ Received(t[j], t[j])
    BY DEF Calm, Received
  <2>9. task'[id] = s /\ \A j \in TaskIds : j # id => task'[j] = t[j]
    BY <2>1, <2>5
  <2>10. \A j \in TaskIds : task'[j].state = "none" <=> j > lastId + 1
    BY <2>3, <2>9 DEF TaskIds
  <2>11. task' \in [TaskIds -> Rows]
    BY <2>3, <2>5
  <2>12. \A j \in TaskIds : Calm(t[j], task'[j]) /\ Received(t[j], task'[j])
    BY <2>7, <2>8, <2>9
  <2> QED BY <2>10, <2>11, <2>12
<1>5. CASE \E id \in Mergeable(t, k) :
             /\ task' = [t EXCEPT ![id].payload = Merged(k, @, {e}),
                                  ![id].version = @ + 1]
             /\ lastId' = lastId
  <2>1. PICK id \in Mergeable(t, k) :
          /\ task' = [t EXCEPT ![id].payload = Merged(k, @, {e}),
                               ![id].version = @ + 1]
          /\ lastId' = lastId
    BY <1>5
  <2>2. /\ task' \in [TaskIds -> Rows] /\ lastId > 0
        /\ \A j \in TaskIds : /\ Calm(t[j], task'[j])
                              /\ Received(t[j], task'[j])
                              /\ task'[j].state = "none" <=> j > lastId
    BY <1>3, <2>1
  <2>3. lastId' \in 0 .. MaxTasks /\ lastId' >= lastId
    BY <1>1, <2>1
  <2> QED BY <1>2, <2>1, <2>2, <2>3
<1>6. CASE /\ lastId < MaxTasks /\ lastId' = lastId + 1
           /\ task' = [t EXCEPT ![lastId + 1] =
                        [Blank EXCEPT !.state = "pending", !.key = k,
                                      !.payload = {e}, !.due = TRUE]]
  <2>1. lastId' \in 0 .. MaxTasks /\ lastId' >= lastId /\ lastId' > 0
    BY <1>1, <1>6
  <2>2. /\ task' \in [TaskIds -> Rows]
        /\ \A j \in TaskIds : /\ Calm(t[j], task'[j])
                              /\ Received(t[j], task'[j])
                              /\ task'[j].state = "none" <=> j > lastId + 1
    BY <1>4, <1>6
  <2> QED BY <1>2, <1>6, <2>1, <2>2
<1> QED BY <1>5, <1>6 DEF Enqueue

-----------------------------------------------------------------------------
(* Each step keeps the inductive invariant                                 *)

\* An empty table and processes that are down.
LEMMA InitInvariant == Init => IInv
<1> SUFFICES ASSUME Init PROVE IInv
  OBVIOUS
<1>1. TypeOK
  <2>1. MaxTasks \in Nat /\ NoClaim \in ClaimType
    BY ConstantsAssumption DEF NoClaim, ClaimType
  <2>2. [id \in TaskIds |-> 0] \in EngineStates
    BY DEF EngineStates
  <2> QED BY <2>1, <2>2, BlankRow DEF Init, TypeOK, ClaimType, Steps
<1>2. RowsOK
  <2>1. \A id \in TaskIds : task[id].state = "none" /\ id > lastId
    BY DEF Init, Blank, TaskIds
  <2> QED BY <2>1, BlankRow DEF Init, RowsOK
<1>3. ClaimsOK
  BY DEF Init, ClaimsOK, ClaimOK, NoClaim, Busy
<1>4. BatchOK
  BY DEF Init, BatchOK
<1>5. MemoryOK
  BY DEF Init, MemoryOK, CoherentMemory, EffectExactlyOnce, Blank
<1> QED BY <1>1, <1>2, <1>3, <1>4, <1>5 DEF IInv

\* A step that is quiet on the table and leaves checkpoint and engines alone.
LEMMA QuietStep ==
  ASSUME IInv, TypeOK',
         \A id \in TaskIds : Quiet(task[id], task'[id]),
         UNCHANGED <<lastId, accepted, checkpoint, up, rev, mem>>,
         \A w \in Workers : claim'[w] = claim[w] \/ claim'[w] = NoClaim,
         \A w \in Workers : pc'[w] \in Busy => claim'[w] = claim[w] /\ pc[w] \in Busy,
         \A w \in Workers : pc'[w] = "call" => pc[w] = "call",
         \A w \in Workers : batch'[w] \subseteq batch[w]
  PROVE  IInv'
<1>1. /\ TypeOK /\ RowsOK /\ ClaimsOK /\ BatchOK
      /\ CoherentMemory /\ EffectExactlyOnce
      /\ \A i \in Instances : rev[i] <= revision
  BY DEF IInv, MemoryOK
<1>2. /\ lastId' = lastId /\ revision' = revision /\ disk' = disk
      /\ revision' \in Nat /\ revision' >= revision
      /\ task' \in [TaskIds -> Rows]
  BY <1>1 DEF checkpoint, TypeOK
<1>3. RowsOK' /\ ClaimsOK'
  BY <1>1, <1>2, QuietKeeps
<1>4. BatchOK' /\ EffectExactlyOnce'
  BY <1>1, <1>2, QuietRest
<1>5. CoherentMemory' /\ \A i \in Instances : rev'[i] <= revision'
  BY <1>1 DEF CoherentMemory, checkpoint
<1> QED BY <1>3, <1>4, <1>5 DEF IInv, MemoryOK

\* What holds of the whole table when nothing happens to it.
LEMMA TableQuiet ==
  ASSUME IInv PROVE \A id \in TaskIds : Quiet(task[id], task[id])
BY SameQuiet DEF IInv, TypeOK, RowsOK

\* recover_expired ends leases and rows, all of them without a claim that counts.
LEMMA RecoverKeeps ==
  ASSUME IInv, NEW w \in Workers, RecoverExpired(w) PROVE IInv'
<1>1. TypeOK /\ RowsOK
  BY DEF IInv
<1>2. \A id \in TaskIds :
        task'[id] = IF task[id].key \in FamilyKeys(w)
                    THEN Recovered(task[id]) ELSE task[id]
  BY DEF RecoverExpired
<1>3. \A id \in TaskIds : Quiet(task[id], task'[id])
  BY <1>1, <1>2, RecoveredQuiet, SameQuiet DEF TypeOK, RowsOK
<1>4. TypeOK'
  <2>1. task' \in [TaskIds -> Rows]
    BY <1>3 DEF RecoverExpired, Quiet
  <2>2. pc' \in [Workers -> Steps]
    BY <1>1 DEF RecoverExpired, TypeOK, Steps
  <2> QED BY <1>1, <2>1, <2>2 DEF RecoverExpired, TypeOK, checkpoint, service
<1>5. \A v \in Workers : /\ claim'[v] = claim[v] /\ batch'[v] = batch[v]
                         /\ pc'[v] = pc[v] \/ pc'[v] = "list"
  BY <1>1 DEF RecoverExpired, TypeOK
<1>6. UNCHANGED <<lastId, accepted, checkpoint, up, rev, mem>>
  BY DEF RecoverExpired, service
<1>7. \A v \in Workers : /\ pc'[v] \in Busy => pc[v] \in Busy
                         /\ pc'[v] = "call" => pc[v] = "call"
  BY <1>5 DEF Busy
<1> QED BY <1>3, <1>4, <1>5, <1>6, <1>7, QuietStep

\* The loop drops what it has listed, or ends with its row, or both.
LEMMA LetGo ==
  ASSUME IInv, NEW w \in Workers, TypeOK',
         UNCHANGED <<lastId, accepted, checkpoint, up, rev, mem>>,
         \A id \in TaskIds : Quiet(task[id], task'[id]),
         batch'[w] \subseteq batch[w],
         claim'[w] = NoClaim /\ pc'[w] \notin Busy,
         \A v \in Workers : v # w => /\ claim'[v] = claim[v] /\ pc'[v] = pc[v]
                                     /\ batch'[v] = batch[v]
  PROVE  IInv'
<1>1. \A v \in Workers : v # w => /\ claim'[v] = claim[v] \/ claim'[v] = NoClaim
                                  /\ pc'[v] \in Busy => pc[v] \in Busy
  OBVIOUS
<1>2. "call" \in Busy
  BY DEF Busy
<1>3. ClaimsOK
  BY DEF IInv
<1> QED BY <1>1, <1>2, QuietStep

\* list_tasks only reads the table.
LEMMA ListKeeps ==
  ASSUME IInv, NEW w \in Workers, List(w) PROVE IInv'
<1>1. TypeOK /\ RowsOK /\ ClaimsOK /\ BatchOK
  BY DEF IInv
<1>2. task' = task /\ UNCHANGED <<lastId, accepted, checkpoint, service, claim>>
  BY DEF List, table
<1>3. \A v \in Workers : pc'[v] = pc[v] \/ pc'[v] = "list" \/ pc'[v] = "batch"
  BY <1>1 DEF List, TypeOK
<1>4. \A id \in TaskIds : Quiet(task[id], task'[id])
  BY <1>2, TableQuiet
<1>5. batch'[w] = {<<id, task[id].version>> : id \in
                    {id \in TaskIds : /\ task[id].key \in FamilyKeys(w)
                                      /\ Claimable(id, task[id].version)}}
  BY <1>1 DEF List, TypeOK
<1>6. \A v \in Workers : v # w => batch'[v] = batch[v]
  BY <1>1 DEF List, TypeOK
<1>7. TypeOK'
  <2>1. pc' \in [Workers -> Steps]
    BY <1>1 DEF List, TypeOK, Steps
  <2>2. batch'[w] \subseteq TaskIds \X Nat
    BY <1>1, <1>5 DEF TypeOK, Rows
  <2>3. batch' \in [Workers -> SUBSET (TaskIds \X Nat)]
    BY <1>1, <2>2 DEF List, TypeOK
  <2> QED BY <1>1, <1>2, <2>1, <2>3 DEF TypeOK, checkpoint, service
<1>8. RowsOK' /\ ClaimsOK'
  <2>1. revision' \in Nat /\ revision' >= revision /\ lastId' = lastId
    BY <1>1, <1>2 DEF checkpoint, TypeOK
  <2>2. \A v \in Workers : /\ pc'[v] \in Busy => pc[v] \in Busy
                           /\ pc'[v] = "call" => pc[v] = "call"
    BY <1>3 DEF Busy
  <2> QED BY <1>1, <1>2, <1>4, <1>7, <2>1, <2>2, QuietKeeps DEF TypeOK
<1>9. BatchOK'
  <2>1. ASSUME NEW item \in batch'[w]
        PROVE  /\ item[1] \in TaskIds /\ item[1] <= lastId'
               /\ task'[item[1]].key \in FamilyKeys(w)
    <3>1. PICK id \in TaskIds : /\ item = <<id, task[id].version>>
                                /\ task[id].key \in FamilyKeys(w)
                                /\ Claimable(id, task[id].version)
      BY <1>5, <2>1
    <3>2. ~(id > lastId)
      BY <1>1, <3>1 DEF Claimable, RowsOK
    <3>3. lastId \in Nat /\ id \in Nat
      BY <1>1, <3>1 DEF TypeOK, TaskIds
    <3> QED BY <1>2, <3>1, <3>2, <3>3
  <2> QED BY <1>1, <1>2, <1>6, <2>1 DEF BatchOK
<1>10. MemoryOK'
  BY <1>2, <1>1 DEF IInv, MemoryOK, CoherentMemory, EffectExactlyOnce,
     checkpoint, service
<1> QED BY <1>7, <1>8, <1>9, <1>10 DEF IInv

\* The end of a pass forgets the batch.
LEMMA EndPassKeeps ==
  ASSUME IInv, NEW w \in Workers, EndPass(w) PROVE IInv'
<1>1. TypeOK
  BY DEF IInv
<1>2. task' = task /\ UNCHANGED <<lastId, accepted, checkpoint, service, claim>>
  BY DEF EndPass, table
<1>3. \A id \in TaskIds : Quiet(task[id], task'[id])
  BY <1>2, TableQuiet
<1>4. \A v \in Workers : /\ pc'[v] = pc[v] \/ pc'[v] = "idle"
                         /\ batch'[v] \subseteq batch[v]
  BY <1>1 DEF EndPass, TypeOK
<1>5. TypeOK'
  <2>1. pc' \in [Workers -> Steps] /\ batch' \in [Workers -> SUBSET (TaskIds \X Nat)]
    BY <1>1 DEF EndPass, TypeOK, Steps
  <2> QED BY <1>1, <1>2, <2>1 DEF TypeOK, checkpoint, service
<1>6. UNCHANGED <<lastId, accepted, checkpoint, up, rev, mem>>
  BY <1>2 DEF service
<1>7. \A v \in Workers : /\ claim'[v] = claim[v]
                         /\ pc'[v] \in Busy => pc[v] \in Busy
                         /\ pc'[v] = "call" => pc[v] = "call"
  BY <1>2, <1>4 DEF Busy
<1> QED BY <1>3, <1>4, <1>5, <1>6, <1>7, QuietStep

\* The rest of the invariant after a row has been claimed.
LEMMA ClaimedKeeps ==
  ASSUME IInv, NEW w \in Workers, NEW id \in TaskIds, ClaimRow(w, id),
         task[id].state \in {"pending", "ready"},
         task[id].key \in FamilyKeys(w),
         UNCHANGED <<lastId, accepted, checkpoint, service>>,
         batch' \in [Workers -> SUBSET (TaskIds \X Nat)],
         \A v \in Workers : batch'[v] \subseteq batch[v]
  PROVE  IInv'
<1>1. /\ TypeOK /\ RowsOK /\ ClaimsOK /\ BatchOK
      /\ lastId' = lastId /\ revision' = revision
  BY DEF IInv, checkpoint
<1>2. /\ task' \in [TaskIds -> Rows]
      /\ claim' \in [Workers -> ClaimType] /\ pc' \in [Workers -> Steps]
      /\ RowsOK' /\ ClaimsOK'
      /\ \A k \in TaskIds : /\ task'[k].key = task[k].key
                            /\ task'[k].state = "done" <=> task[k].state = "done"
  BY <1>1, ClaimRowKeeps
<1>3. TypeOK'
  BY <1>1, <1>2 DEF TypeOK, ClaimType, checkpoint, service
<1>4. BatchOK'
  BY <1>1, <1>2 DEF BatchOK
<1>5. MemoryOK'
  BY <1>2 DEF IInv, MemoryOK, CoherentMemory, EffectExactlyOnce, checkpoint, service
<1> QED BY <1>2, <1>3, <1>4, <1>5 DEF IInv

\* A listed row is claimed under a fresh token or passed over.
LEMMA ClaimNextKeeps ==
  ASSUME IInv, NEW w \in Workers, ClaimNext(w) PROVE IInv'
<1>1. PICK item \in batch[w] :
        /\ batch' = [batch EXCEPT ![w] = @ \ {item}]
        /\ \/ /\ Claimable(item[1], item[2])
              /\ ClaimRow(w, item[1])
           \/ /\ ~Claimable(item[1], item[2])
              /\ UNCHANGED <<task, claim, pc>>
  BY DEF ClaimNext
<1>2. TypeOK /\ BatchOK /\ UNCHANGED <<lastId, accepted, checkpoint, service>>
  BY DEF IInv, ClaimNext
<1>3. /\ batch' \in [Workers -> SUBSET (TaskIds \X Nat)]
      /\ \A v \in Workers : batch'[v] \subseteq batch[v]
  BY <1>1, <1>2 DEF TypeOK
<1>4. CASE Claimable(item[1], item[2]) /\ ClaimRow(w, item[1])
  <2>1. item[1] \in TaskIds /\ task[item[1]].key \in FamilyKeys(w)
    BY <1>1, <1>2 DEF BatchOK
  <2>2. task[item[1]].state \in {"pending", "ready"}
    BY <1>4 DEF Claimable
  <2> QED BY <1>2, <1>3, <1>4, <2>1, <2>2, ClaimedKeeps
<1>5. CASE UNCHANGED <<task, claim, pc>>
  <2>1. TypeOK'
    BY <1>2, <1>3, <1>5 DEF TypeOK, checkpoint, service
  <2>2. \A id \in TaskIds : Quiet(task[id], task'[id])
    BY <1>5, TableQuiet
  <2>3. UNCHANGED <<lastId, accepted, checkpoint, up, rev, mem>>
    BY <1>2 DEF service
  <2> QED BY <1>3, <1>5, <2>1, <2>2, <2>3, QuietStep
<1> QED BY <1>1, <1>4, <1>5

\* The row whose product was stored is claimed once more, for its application.
LEMMA ReclaimKeeps ==
  ASSUME IInv, NEW w \in Workers, Reclaim(w) PROVE IInv'
<1>1. /\ TypeOK /\ ClaimOK(w) /\ pc[w] = "reclaim"
      /\ UNCHANGED <<lastId, accepted, checkpoint, service, batch>>
  BY DEF IInv, ClaimsOK, Reclaim
<1>2. claim[w].id \in TaskIds /\ task[claim[w].id].key \in FamilyKeys(w)
  BY <1>1 DEF ClaimOK, Busy, TypeOK, TaskIds
<1>3. CASE Claimable(claim[w].id, claim[w].version)
  <2>1. ClaimRow(w, claim[w].id) /\ task[claim[w].id].state \in {"pending", "ready"}
    BY <1>3 DEF Reclaim, Claimable
  <2> QED BY <1>1, <1>2, <2>1, ClaimedKeeps DEF TypeOK
<1>4. CASE ~Claimable(claim[w].id, claim[w].version)
  <2>1. NextItem(w) /\ task' = task
    BY <1>4 DEF Reclaim
  <2>2. /\ claim' \in [Workers -> ClaimType] /\ pc' \in [Workers -> Steps]
        /\ claim'[w] = NoClaim /\ pc'[w] \notin Busy
        /\ \A v \in Workers : v # w => claim'[v] = claim[v] /\ pc'[v] = pc[v]
    BY <1>1, <2>1, ConstantsAssumption
       DEF NextItem, TypeOK, ClaimType, NoClaim, Steps, Busy
  <2>3. TypeOK'
    BY <1>1, <2>1, <2>2 DEF TypeOK, ClaimType, checkpoint, service
  <2>4. \A id \in TaskIds : Quiet(task[id], task'[id])
    BY <2>1, TableQuiet
  <2>5. UNCHANGED <<lastId, accepted, checkpoint, up, rev, mem, batch>>
    BY <1>1 DEF service
  <2> QED BY <2>2, <2>3, <2>4, <2>5, LetGo
<1> QED BY <1>3, <1>4

\* What a loop that owns its row knows of it.
LEMMA OwnedRow ==
  ASSUME IInv, NEW w \in Workers, Owned(w, Held)
  PROVE  /\ claim[w].id \in TaskIds
         /\ task[claim[w].id] \in Rows /\ RowOK(task[claim[w].id])
         /\ claim[w].token = task[claim[w].id].token /\ claim[w].token > 0
         /\ claim[w].input = task[claim[w].id].payload
         /\ task[claim[w].id].key \in FamilyKeys(w)
         /\ task[claim[w].id].state \in Held
         /\ pc[w] = "call" => task[claim[w].id].seal = claim[w].token
         /\ \A v \in Workers :
              v # w /\ claim[v].id = claim[w].id => claim[v].token # claim[w].token
<1>1. /\ claim[w].id \in TaskIds /\ claim[w].token = task[claim[w].id].token
      /\ task[claim[w].id].state \in Held
  BY DEF Owned
<1>2. claim[w].id # 0
  BY <1>1 DEF TaskIds
<1>3. ClaimOK(w) /\ TypeOK /\ RowsOK
  BY DEF IInv, ClaimsOK
<1> QED BY <1>1, <1>2, <1>3 DEF ClaimOK, TypeOK, RowsOK

\* A new seal concerns the loop that owns the row and nobody else.
LEMMA SealKeeps ==
  ASSUME IInv, NEW w \in Workers, SealContext(w) PROVE IInv'
<1> DEFINE id == claim[w].id
           r == task[id]
           s == task'[id]
<1>1. /\ TypeOK /\ RowsOK /\ ClaimsOK /\ BatchOK
      /\ UNCHANGED <<lastId, accepted, checkpoint, service, batch, claim>>
  BY DEF IInv, SealContext
<1>2. Owned(w, Held) /\ r.state = "running"
  BY DEF SealContext, Owned, Held
<1>3. /\ id \in TaskIds /\ r \in Rows /\ RowOK(r)
      /\ claim[w].token = r.token /\ claim[w].token > 0
      /\ claim[w].input = r.payload /\ r.key \in FamilyKeys(w)
      /\ \A v \in Workers : v # w /\ claim[v].id = id => claim[v].token # claim[w].token
  BY <1>2, OwnedRow
<1>4. task' = [task EXCEPT ![id] = [r EXCEPT !.seal = claim[w].token]]
  BY <1>1 DEF SealContext, TypeOK
<1>5. claim[w].token \in Nat
  BY <1>1 DEF TypeOK
<1>6. /\ s \in Rows /\ s.seal = claim[w].token /\ s.state = r.state
      /\ s.key = r.key /\ s.payload = r.payload /\ s.attempts = r.attempts
      /\ s.applies = r.applies /\ s.token = r.token /\ s.result = r.result
  BY <1>1, <1>3, <1>4, <1>5 DEF TypeOK, Rows
<1>7. \A k \in TaskIds : k # id => task'[k] = task[k]
  BY <1>1, <1>4 DEF TypeOK
<1>8. task' \in [TaskIds -> Rows]
  <2>1. task' = [task EXCEPT ![id] = s]
    BY <1>1, <1>3, <1>4 DEF TypeOK
  <2> HIDE DEF s
  <2> QED BY <1>1, <1>6, <2>1 DEF TypeOK
<1>9. pc' \in [Workers -> Steps] /\ pc' = [pc EXCEPT ![w] = "call"]
  BY <1>1 DEF SealContext, TypeOK, Steps
<1>10. TypeOK'
  BY <1>1, <1>8, <1>9 DEF TypeOK, checkpoint, service
<1> HIDE DEF s
<1>11. RowsOK'
  <2>1. RowOK(s)
    BY <1>2, <1>3, <1>6 DEF RowOK
  <2>2. \A k \in TaskIds : RowOK(task'[k]) /\ task'[k].state = task[k].state
    BY <1>1, <1>6, <1>7, <2>1 DEF RowsOK, s
  <2> QED BY <1>1, <2>2 DEF RowsOK, checkpoint
<1>12. ASSUME NEW v \in Workers PROVE ClaimOK(v)'
  <2>1. ClaimOK(v) /\ claim' = claim /\ lastId' = lastId
    BY <1>1 DEF ClaimsOK
  <2>2. claim[v].id # 0 => claim[v].id \in TaskIds
    BY <1>1 DEF TypeOK, TaskIds
  <2>3. CASE v = w
    BY <1>3, <1>6, <1>9, <2>1, <2>3 DEF ClaimOK, s, TaskIds, Busy
  <2>4. CASE v # w /\ claim[v].id = id
    <3>1. pc'[v] = pc[v]
      BY <1>9, <1>1, <2>4 DEF TypeOK
    <3>2. s.token # claim[v].token
      BY <1>3, <1>6, <2>4
    <3> QED BY <1>6, <2>1, <2>4, <3>1, <3>2 DEF ClaimOK, s
  <2>5. CASE v # w /\ claim[v].id # id
    <3>1. pc'[v] = pc[v]
      BY <1>9, <1>1, <2>5 DEF TypeOK
    <3>2. claim[v].id # 0 => task'[claim[v].id] = task[claim[v].id]
      BY <1>7, <2>2, <2>5
    <3> QED BY <2>1, <2>5, <3>1, <3>2 DEF ClaimOK
  <2> QED BY <2>3, <2>4, <2>5
<1>13. \A k \in TaskIds : task'[k].key = task[k].key /\ task'[k].state = task[k].state
  BY <1>6, <1>7 DEF s
<1>14. BatchOK'
  BY <1>1, <1>13 DEF BatchOK
<1>15. MemoryOK'
  BY <1>1, <1>13 DEF IInv, MemoryOK, CoherentMemory, EffectExactlyOnce, checkpoint, service
<1> QED BY <1>10, <1>11, <1>12, <1>14, <1>15 DEF IInv, ClaimsOK

\* The product fits the row: the owner read the payload the row still has and
\* sealed the latest context.
LEMMA StoreKeeps ==
  ASSUME IInv, NEW w \in Workers, StoreResult(w) PROVE IInv'
<1> DEFINE id == claim[w].id
           r == task[id]
           product == [input |-> claim[w].input, seal |-> claim[w].token]
           s == [r EXCEPT !.result = product, !.state = "ready", !.token = 0,
                          !.live = FALSE, !.due = TRUE]
<1>1. /\ TypeOK /\ UNCHANGED <<lastId, accepted, checkpoint, service, batch, claim>>
  BY DEF IInv, StoreResult
<1>2. Owned(w, Held) /\ r.state = "running" /\ pc[w] = "call"
  BY DEF StoreResult, Owned, Held
<1>3. /\ id \in TaskIds /\ r \in Rows /\ RowOK(r)
      /\ claim[w].token > 0 /\ claim[w].input = r.payload
      /\ r.seal = claim[w].token
  BY <1>2, OwnedRow
<1>4. task' = [task EXCEPT ![id] = s]
  BY <1>1, <1>3 DEF StoreResult, TypeOK
<1>5. product \in Results
  BY <1>1 DEF TypeOK, Results
<1> HIDE DEF product
<1>6. /\ s \in Rows /\ s.result = product /\ s.state = "ready" /\ s.token = 0
      /\ s.key = r.key /\ s.payload = r.payload /\ s.seal = r.seal
      /\ s.attempts = r.attempts /\ s.applies = r.applies
  BY <1>3, <1>5 DEF Rows, States
<1> HIDE DEF s
<1>7. Quiet(r, s)
  <2>1. s.result.input = s.payload /\ s.result.seal = s.seal
    BY <1>3, <1>6 DEF product
  <2>2. r.attempts > 0 /\ r.attempts \in Nat /\ r.applies \in Nat
    BY <1>2, <1>3 DEF RowOK, Rows
  <2>3. RowOK(s)
    BY <1>6, <2>1, <2>2 DEF RowOK, Held
  <2> QED BY <1>2, <1>6, <2>3 DEF Quiet
<1>8. \A k \in TaskIds : Quiet(task[k], task'[k])
  BY <1>1, <1>3, <1>4, <1>7, TableQuiet DEF TypeOK
<1>9. \A v \in Workers : pc'[v] = IF v = w THEN "reclaim" ELSE pc[v]
  BY <1>1 DEF StoreResult, TypeOK
<1>10. TypeOK'
  <2>1. task' \in [TaskIds -> Rows]
    BY <1>1, <1>4, <1>6 DEF TypeOK
  <2>2. pc' \in [Workers -> Steps]
    BY <1>1 DEF StoreResult, TypeOK, Steps
  <2> QED BY <1>1, <2>1, <2>2 DEF TypeOK, checkpoint, service
<1>11. \A v \in Workers : /\ pc'[v] \in Busy => pc[v] \in Busy
                          /\ pc'[v] = "call" => pc[v] = "call"
  BY <1>2, <1>9 DEF Busy
<1>12. UNCHANGED <<lastId, accepted, checkpoint, up, rev, mem>>
  BY <1>1 DEF service
<1> QED BY <1>1, <1>8, <1>10, <1>11, <1>12, QuietStep

\* The parts of NextItem that every caller needs.
LEMMA NextItemFacts ==
  ASSUME TypeOK, NEW w \in Workers, NextItem(w)
  PROVE  /\ claim' \in [Workers -> ClaimType] /\ pc' \in [Workers -> Steps]
         /\ claim'[w] = NoClaim /\ pc'[w] \notin Busy
         /\ \A v \in Workers : v # w => claim'[v] = claim[v] /\ pc'[v] = pc[v]
BY ConstantsAssumption DEF NextItem, TypeOK, ClaimType, NoClaim, Steps, Busy

\* What retry() does to the row of the loop is quiet, whoever calls it.
LEMMA RetryFacts ==
  ASSUME IInv, NEW w \in Workers, Retry(w)
  PROVE  /\ task' \in [TaskIds -> Rows]
         /\ \A id \in TaskIds : Quiet(task[id], task'[id])
         /\ NextItem(w)
<1>1. PICK remodel \in {FALSE, Family(w) = "workflow"} :
        task' = IF Owned(w, Held)
                THEN [task EXCEPT ![claim[w].id] = Retried(@, remodel)]
                ELSE task
  BY DEF Retry, Held
<1>2. TypeOK
  BY DEF IInv
<1>3. CASE Owned(w, Held)
  <2> DEFINE id == claim[w].id
  <2>1. /\ id \in TaskIds /\ task[id] \in Rows /\ RowOK(task[id])
        /\ task[id].state \in Held
    BY <1>3, OwnedRow
  <2>2. task' = [task EXCEPT ![id] = Retried(task[id], remodel)]
    BY <1>1, <1>3
  <2>3. Quiet(task[id], Retried(task[id], remodel))
    BY <2>1, RetriedQuiet
  <2>4. Retried(task[id], remodel) \in Rows
    BY <2>3 DEF Quiet
  <2> QED BY <1>2, <2>1, <2>2, <2>3, <2>4, TableQuiet DEF TypeOK, Retry
<1>4. CASE ~Owned(w, Held)
  BY <1>1, <1>2, <1>4, TableQuiet DEF TypeOK, Retry
<1> QED BY <1>3, <1>4

\* A faulted service drops the row without touching the table.
LEMMA ReclaimRefusedKeeps ==
  ASSUME IInv, NEW w \in Workers, ReclaimRefused(w) PROVE IInv'
<1>1. /\ TypeOK /\ NextItem(w) /\ task' = task
      /\ UNCHANGED <<lastId, accepted, checkpoint, service, batch>>
  BY DEF IInv, ReclaimRefused, table
<1>2. TypeOK'
  BY <1>1, NextItemFacts DEF TypeOK, ClaimType, checkpoint, service
<1>3. \A id \in TaskIds : Quiet(task[id], task'[id])
  BY <1>1, TableQuiet
<1>4. UNCHANGED <<lastId, accepted, checkpoint, up, rev, mem>>
  BY <1>1 DEF service
<1> QED BY <1>1, <1>2, <1>3, <1>4, NextItemFacts, LetGo

\* A failed model call retries the row of the claim, if it is still owned.
LEMMA ModelFailsKeeps ==
  ASSUME IInv, NEW w \in Workers, ModelFails(w) PROVE IInv'
<1>1. /\ TypeOK /\ Retry(w)
      /\ UNCHANGED <<lastId, accepted, checkpoint, service, batch>>
  BY DEF IInv, ModelFails
<1>2. /\ task' \in [TaskIds -> Rows]
      /\ \A id \in TaskIds : Quiet(task[id], task'[id])
      /\ NextItem(w)
  BY <1>1, RetryFacts
<1>3. TypeOK'
  BY <1>1, <1>2, NextItemFacts DEF TypeOK, ClaimType, checkpoint, service
<1>4. UNCHANGED <<lastId, accepted, checkpoint, up, rev, mem>>
  BY <1>1 DEF service
<1> QED BY <1>1, <1>2, <1>3, <1>4, NextItemFacts, LetGo

\* A failed application rolls back, may fault the service, and retries the row.
LEMMA ApplyFailsKeeps ==
  ASSUME IInv, NEW w \in Workers, ApplyFails(w) PROVE IInv'
<1>1. /\ TypeOK /\ Retry(w)
      /\ UNCHANGED <<lastId, accepted, checkpoint, up, rev, mem, batch>>
  BY DEF IInv, ApplyFails
<1>2. /\ task' \in [TaskIds -> Rows]
      /\ \A id \in TaskIds : Quiet(task[id], task'[id])
      /\ NextItem(w)
  BY <1>1, RetryFacts
<1>3. fault' \in [Instances -> BOOLEAN]
  <2>1. fault \in [Instances -> BOOLEAN] /\ Process(w) \in Instances
    BY <1>1 DEF TypeOK, Workers, Process
  <2> QED BY <2>1 DEF ApplyFails
<1>4. TypeOK'
  BY <1>1, <1>2, <1>3, NextItemFacts DEF TypeOK, ClaimType, checkpoint
<1> QED BY <1>1, <1>2, <1>4, NextItemFacts, LetGo

\* Effect, checkpoint and state move together, from an engine that is the
\* durable one.
LEMMA CompleteKeeps ==
  ASSUME IInv, NEW w \in Workers, Complete(w) PROVE IInv'
<1> DEFINE i == Process(w)
           id == claim[w].id
           r == task[id]
           t == [task EXCEPT ![id].state = "done", ![id].token = 0,
                             ![id].live = FALSE]
           s == [r EXCEPT !.state = "done", !.token = 0, !.live = FALSE]
           effect == [mem[i] EXCEPT ![id] = @ + 1]
<1>1. /\ TypeOK /\ RowsOK /\ ClaimsOK /\ BatchOK /\ i \in Instances
      /\ CoherentMemory /\ EffectExactlyOnce
      /\ \A j \in Instances : rev[j] <= revision
  BY DEF IInv, MemoryOK, Workers, Process
<1>2. /\ up[i] /\ rev[i] = revision
      /\ revision' = revision + 1 /\ disk' = effect
      /\ NextItem(w) /\ UNCHANGED <<up, batch>>
      /\ r.state = "applying" /\ r.result # NoResult
  BY DEF Complete, Healthy, Owned
<1>3. Owned(w, Held)
  BY DEF Complete, Owned, Held
<1>4. id \in TaskIds /\ r \in Rows /\ RowOK(r)
  BY <1>3, OwnedRow
<1>5. t = [task EXCEPT ![id] = s]
  BY <1>1, <1>4 DEF TypeOK
<1>6. /\ s \in Rows /\ s.state = "done" /\ s.token = 0 /\ s.key = r.key
      /\ s.payload = r.payload /\ s.seal = r.seal /\ s.result = r.result
      /\ s.attempts = r.attempts /\ s.applies = r.applies
  BY <1>4 DEF Rows, States
<1> HIDE DEF s
<1>7. Calm(r, s) /\ r.attempts > 0 /\ RowOK(s)
  <2>1. r.attempts > 0 /\ r.attempts \in Nat /\ r.applies \in Nat
    BY <1>2, <1>4 DEF RowOK, Rows
  <2>2. RowOK(s)
    BY <1>4, <1>6, <2>1 DEF RowOK, Held
  <2> QED BY <1>6, <2>1, <2>2 DEF Calm
<1>8. /\ t \in [TaskIds -> Rows] /\ t[id] = s
      /\ \A k \in TaskIds : k # id => t[k] = task[k]
  BY <1>1, <1>4, <1>5, <1>6 DEF TypeOK
<1>9. \A k \in TaskIds : RowOK(t[k]) /\ (t[k].state = "none" <=> k > lastId)
  <2>1. \A k \in TaskIds : RowOK(task[k]) /\ (task[k].state = "none" <=> k > lastId)
    BY <1>1 DEF RowsOK
  <2>2. RowOK(t[id]) /\ t[id].state # "none" /\ r.state # "none"
    BY <1>2, <1>6, <1>7, <1>8
  <2> QED BY <1>8, <2>1, <2>2
<1>10. lastId \in 0 .. MaxTasks /\ accepted \subseteq Events /\ lastId > 0
  BY <1>1, <1>2, <1>4 DEF TypeOK, RowsOK, TaskIds
<1>11. \/ task' = t /\ UNCHANGED <<lastId, accepted>>
       \/ \E e \in Events : Enqueue(t, e)
  BY DEF Complete
<1> HIDE DEF t
<1>12. /\ task' \in [TaskIds -> Rows] /\ accepted' \subseteq Events
       /\ lastId' \in 0 .. MaxTasks /\ lastId' >= lastId /\ lastId' > 0
       /\ \A k \in TaskIds : /\ Calm(t[k], task'[k])
                             /\ Received(t[k], task'[k])
                             /\ task'[k].state = "none" <=> k > lastId'
  <2>1. CASE task' = t /\ UNCHANGED <<lastId, accepted>>
    <3>1. \A k \in TaskIds : Calm(t[k], t[k]) /\ Received(t[k], t[k])
      BY <1>8, <1>9 DEF Calm, Received
    <3> QED BY <1>8, <1>9, <1>10, <2>1, <3>1
  <2>2. CASE \E e \in Events : Enqueue(t, e)
    BY <1>8, <1>9, <1>10, <2>2, EnqueueKeeps
  <2> QED BY <1>11, <2>1, <2>2
<1>13. \A k \in TaskIds : /\ Calm(task[k], task'[k])
                          /\ task[k].state # "none" => task'[k].key = task[k].key
                          /\ task'[k].state = "done" <=> (k = id \/ task[k].state = "done")
  <2>1. ASSUME NEW k \in TaskIds, k # id
        PROVE  /\ Calm(task[k], task'[k])
               /\ task[k].state # "none" => task'[k].key = task[k].key
               /\ task'[k].state = "done" <=> task[k].state = "done"
    <3>1. t[k] = task[k] /\ Calm(t[k], task'[k]) /\ Received(t[k], task'[k])
      BY <1>8, <1>12, <2>1
    <3> QED BY <3>1 DEF Calm, Received
  <2>2. Calm(s, task'[id]) /\ task'[id] = s
    BY <1>4, <1>6, <1>8, <1>12 DEF Received
  <2>3. /\ Calm(task[id], task'[id]) /\ task'[id].state = "done"
        /\ task'[id].key = task[id].key
    BY <1>6, <1>7, <2>2
  <2> QED BY <2>1, <2>3
<1>14. mem[i] = disk /\ disk \in EngineStates
  BY <1>1, <1>2 DEF CoherentMemory, TypeOK
<1>15. /\ disk' \in EngineStates /\ disk'[id] = disk[id] + 1
       /\ \A k \in TaskIds : k # id => disk'[k] = disk[k]
  BY <1>2, <1>4, <1>14 DEF EngineStates
<1>16. /\ rev' \in [Instances -> Nat] /\ mem' \in [Instances -> EngineStates]
       /\ fault' \in [Instances -> BOOLEAN] /\ revision' \in Nat
       /\ \A j \in Instances : rev'[j] <= revision'
       /\ \A j \in Instances : up'[j] /\ rev'[j] = revision' => mem'[j] = disk'
  <2>1. PICK acknowledged \in BOOLEAN :
          IF acknowledged
          THEN /\ rev' = [rev EXCEPT ![i] = revision + 1]
               /\ mem' = [mem EXCEPT ![i] = effect]
               /\ UNCHANGED fault
          ELSE /\ fault' = [fault EXCEPT ![i] = TRUE]
               /\ UNCHANGED <<rev, mem>>
    BY DEF Complete
  <2>2. /\ revision \in Nat /\ revision' \in Nat
        /\ \A j \in Instances : rev[j] \in Nat /\ rev[j] # revision + 1
    BY <1>1, <1>2 DEF TypeOK
  <2>3. effect \in EngineStates /\ disk' = effect
    BY <1>2, <1>15
  <2> HIDE DEF effect
  <2>4. CASE acknowledged
    <3>1. /\ rev' = [rev EXCEPT ![i] = revision + 1]
          /\ mem' = [mem EXCEPT ![i] = effect] /\ fault' = fault
      BY <2>1, <2>4
    <3>2. /\ rev' \in [Instances -> Nat] /\ mem' \in [Instances -> EngineStates]
          /\ rev'[i] = revision + 1 /\ mem'[i] = effect
      BY <1>1, <2>2, <2>3, <3>1 DEF TypeOK
    <3>3. \A j \in Instances : j # i => rev'[j] = rev[j] /\ mem'[j] = mem[j]
      BY <1>1, <3>1 DEF TypeOK
    <3>4. \A j \in Instances : rev'[j] <= revision'
      BY <1>1, <1>2, <2>2, <3>2, <3>3
    <3>5. \A j \in Instances : rev'[j] = revision' => j = i
      BY <1>2, <2>2, <3>3
    <3> QED BY <1>1, <2>2, <2>3, <3>1, <3>2, <3>4, <3>5 DEF TypeOK
  <2>5. CASE ~acknowledged
    <3>1. fault' = [fault EXCEPT ![i] = TRUE] /\ rev' = rev /\ mem' = mem
      BY <2>1, <2>5
    <3>2. \A j \in Instances : rev'[j] <= revision' /\ rev'[j] # revision'
      BY <1>1, <1>2, <2>2, <3>1
    <3> QED BY <1>1, <2>2, <3>1, <3>2 DEF TypeOK
  <2> QED BY <2>4, <2>5
<1>17. TypeOK'
  <2>1. claim' \in [Workers -> ClaimType] /\ pc' \in [Workers -> Steps]
    BY <1>1, <1>2, NextItemFacts
  <2> QED BY <1>1, <1>2, <1>12, <1>15, <1>16, <2>1 DEF TypeOK, ClaimType
<1>18. RowsOK'
  <2>1. \A k \in TaskIds : RowOK(task'[k])
    BY <1>13 DEF Calm
  <2>2. revision' > 0
    BY <1>1, <1>2 DEF TypeOK
  <2> QED BY <1>12, <2>1, <2>2 DEF RowsOK
<1>19. ClaimsOK'
  <2>1. /\ \A v \in Workers : claim'[v] = claim[v] \/ claim'[v] = NoClaim
        /\ \A v \in Workers : pc'[v] \in Busy => claim'[v] = claim[v] /\ pc[v] \in Busy
        /\ \A v \in Workers : pc'[v] = "call" => pc[v] = "call"
    <3>1. "call" \in Busy
      BY DEF Busy
    <3> QED BY <1>1, <1>2, <3>1, NextItemFacts
  <2>2. lastId' \in Nat /\ lastId' >= lastId
    BY <1>12
  <2>3. \A k \in TaskIds : Calm(task[k], task'[k])
    BY <1>13
  <2> QED BY <1>1, <2>1, <2>2, <2>3, CalmKeeps
<1>20. BatchOK'
  <2>1. ASSUME NEW v \in Workers, NEW item \in batch'[v]
        PROVE  /\ item[1] \in TaskIds /\ item[1] <= lastId'
               /\ task'[item[1]].key \in FamilyKeys(v)
    <3>1. /\ item[1] \in TaskIds /\ item[1] <= lastId
          /\ task[item[1]].key \in FamilyKeys(v)
      BY <1>1, <1>2, <2>1 DEF BatchOK
    <3>2. task[item[1]].state # "none"
      BY <1>1, <1>10, <3>1 DEF RowsOK, TaskIds
    <3> QED BY <1>10, <1>12, <1>13, <3>1, <3>2 DEF TaskIds
  <2> QED BY <2>1 DEF BatchOK
<1>21. EffectExactlyOnce'
  <2>1. disk[id] = 0
    BY <1>1, <1>2, <1>4 DEF EffectExactlyOnce
  <2> QED BY <1>1, <1>13, <1>15, <2>1 DEF EffectExactlyOnce
<1> QED BY <1>16, <1>17, <1>18, <1>19, <1>20, <1>21
        DEF IInv, MemoryOK, CoherentMemory

\* An engine change and the signal it emits, at the durable revision.
LEMMA AcceptKeeps ==
  ASSUME IInv, NEW i \in Instances, NEW e \in Events, AcceptSignal(i, e)
  PROVE  IInv'
<1>1. /\ TypeOK /\ RowsOK /\ ClaimsOK /\ BatchOK
      /\ CoherentMemory /\ EffectExactlyOnce
      /\ \A j \in Instances : rev[j] <= revision
  BY DEF IInv, MemoryOK
<1>2. /\ up[i] /\ rev[i] = revision /\ Enqueue(task, e)
      /\ revision' = revision + 1 /\ disk' = mem[i]
      /\ \/ rev' = [rev EXCEPT ![i] = revision + 1] /\ UNCHANGED fault
         \/ fault' = [fault EXCEPT ![i] = TRUE] /\ UNCHANGED rev
      /\ UNCHANGED <<up, mem, pc, batch, claim>>
  BY DEF AcceptSignal, loops
<1>3. /\ task' \in [TaskIds -> Rows] /\ accepted' \subseteq Events
      /\ lastId' \in 0 .. MaxTasks /\ lastId' >= lastId /\ lastId' > 0
      /\ \A k \in TaskIds : /\ Calm(task[k], task'[k])
                            /\ Received(task[k], task'[k])
                            /\ task'[k].state = "none" <=> k > lastId'
  <2>1. /\ task \in [TaskIds -> Rows] /\ accepted \subseteq Events
        /\ lastId \in 0 .. MaxTasks
    BY <1>1 DEF TypeOK
  <2> QED BY <1>1, <1>2, <2>1, EnqueueKeeps DEF RowsOK
<1>4. disk' = disk
  BY <1>1, <1>2 DEF CoherentMemory
<1>5. /\ rev' \in [Instances -> Nat] /\ fault' \in [Instances -> BOOLEAN]
      /\ revision' \in Nat /\ revision' > 0
      /\ \A j \in Instances : rev'[j] <= revision'
      /\ \A j \in Instances : rev'[j] = revision' => j = i
  <2>1. /\ revision \in Nat
        /\ \A j \in Instances : rev[j] \in Nat /\ rev[j] # revision + 1
    BY <1>1 DEF TypeOK
  <2>2. CASE rev' = [rev EXCEPT ![i] = revision + 1] /\ UNCHANGED fault
    BY <1>1, <1>2, <2>1, <2>2 DEF TypeOK
  <2>3. CASE fault' = [fault EXCEPT ![i] = TRUE] /\ UNCHANGED rev
    BY <1>1, <1>2, <2>1, <2>3 DEF TypeOK
  <2> QED BY <1>2, <2>2, <2>3
<1>6. TypeOK'
  BY <1>1, <1>2, <1>3, <1>4, <1>5 DEF TypeOK
<1>7. RowsOK'
  BY <1>3, <1>5 DEF RowsOK, Calm
<1>8. ClaimsOK'
  <2>1. lastId' \in Nat
    BY <1>3
  <2> QED BY <1>1, <1>2, <1>3, <2>1, CalmKeeps
<1>9. BatchOK'
  <2>1. ASSUME NEW v \in Workers, NEW item \in batch'[v]
        PROVE  /\ item[1] \in TaskIds /\ item[1] <= lastId'
               /\ task'[item[1]].key \in FamilyKeys(v)
    <3>1. /\ item[1] \in TaskIds /\ item[1] <= lastId
          /\ task[item[1]].key \in FamilyKeys(v)
      BY <1>1, <1>2, <2>1 DEF BatchOK
    <3>2. lastId \in Nat /\ lastId' \in Nat /\ item[1] \in Nat
      BY <1>1, <1>3, <3>1 DEF TypeOK, TaskIds
    <3>3. task[item[1]].state # "none"
      BY <1>1, <3>1, <3>2 DEF RowsOK
    <3>4. task'[item[1]].key = task[item[1]].key
      BY <1>3, <3>1, <3>3 DEF Calm
    <3> QED BY <1>3, <3>1, <3>2, <3>4
  <2> QED BY <2>1 DEF BatchOK
<1>10. MemoryOK'
  <2>1. \A k \in TaskIds : task'[k].state = "done" <=> task[k].state = "done"
    BY <1>3 DEF Received
  <2>2. EffectExactlyOnce'
    BY <1>1, <1>4, <2>1 DEF EffectExactlyOnce
  <2>3. CoherentMemory'
    BY <1>1, <1>2, <1>4, <1>5 DEF CoherentMemory
  <2> QED BY <1>5, <2>2, <2>3 DEF MemoryOK
<1> QED BY <1>6, <1>7, <1>8, <1>9, <1>10 DEF IInv

\* A step that leaves the table alone and lets loops go or not; the parts of
\* the invariant about checkpoint and engines are the caller's.
LEMMA TableKept ==
  ASSUME IInv, TypeOK', UNCHANGED table, revision' >= revision, disk' = disk,
         \A w \in Workers : claim'[w] = claim[w] \/ claim'[w] = NoClaim,
         \A w \in Workers : pc'[w] \in Busy => claim'[w] = claim[w] /\ pc[w] \in Busy,
         \A w \in Workers : pc'[w] = "call" => pc[w] = "call",
         \A w \in Workers : batch'[w] \subseteq batch[w]
  PROVE  RowsOK' /\ ClaimsOK' /\ BatchOK' /\ EffectExactlyOnce'
<1>1. /\ TypeOK /\ RowsOK /\ ClaimsOK /\ BatchOK /\ EffectExactlyOnce
      /\ \A id \in TaskIds : Quiet(task[id], task'[id])
      /\ lastId' = lastId
  BY TableQuiet DEF IInv, MemoryOK, table
<1>2. revision' \in Nat /\ task' \in [TaskIds -> Rows]
  BY DEF TypeOK
<1>3. RowsOK' /\ ClaimsOK'
  BY <1>1, <1>2, QuietKeeps
<1>4. BatchOK' /\ EffectExactlyOnce'
  BY <1>1, <1>2, QuietRest
<1> QED BY <1>3, <1>4

\* A save writes the memory of a process that is not behind.
LEMMA SaveKeeps ==
  ASSUME IInv, NEW i \in Instances, Save(i) PROVE IInv'
<1>1. /\ TypeOK /\ CoherentMemory /\ \A j \in Instances : rev[j] <= revision
  BY DEF IInv, MemoryOK
<1>2. /\ up[i] /\ rev[i] = revision /\ revision' = revision + 1
      /\ disk' = mem[i] /\ UNCHANGED <<table, up, mem, pc, batch, claim>>
      /\ \/ rev' = [rev EXCEPT ![i] = revision + 1] /\ UNCHANGED fault
         \/ fault' = [fault EXCEPT ![i] = TRUE] /\ UNCHANGED rev
  BY DEF Save, loops
<1>3. disk' = disk
  BY <1>1, <1>2 DEF CoherentMemory
<1>4. /\ rev' \in [Instances -> Nat] /\ fault' \in [Instances -> BOOLEAN]
      /\ revision' \in Nat /\ revision' >= revision
      /\ \A j \in Instances : rev'[j] <= revision'
      /\ \A j \in Instances : rev'[j] = revision' => j = i
  <2>1. /\ revision \in Nat
        /\ \A j \in Instances : rev[j] \in Nat /\ rev[j] # revision + 1
    BY <1>1 DEF TypeOK
  <2>2. CASE rev' = [rev EXCEPT ![i] = revision + 1] /\ UNCHANGED fault
    BY <1>1, <1>2, <2>1, <2>2 DEF TypeOK
  <2>3. CASE fault' = [fault EXCEPT ![i] = TRUE] /\ UNCHANGED rev
    BY <1>1, <1>2, <2>1, <2>3 DEF TypeOK
  <2> QED BY <1>2, <2>2, <2>3
<1>5. TypeOK'
  BY <1>1, <1>2, <1>3, <1>4 DEF TypeOK, table
<1>6. RowsOK' /\ ClaimsOK' /\ BatchOK' /\ EffectExactlyOnce'
  <2>1. \A w \in Workers : pc'[w] \in Busy => pc[w] \in Busy
    BY <1>2
  <2> QED BY <1>2, <1>3, <1>4, <1>5, <2>1, TableKept
<1>7. CoherentMemory'
  BY <1>1, <1>2, <1>3, <1>4 DEF CoherentMemory
<1> QED BY <1>4, <1>5, <1>6, <1>7 DEF IInv, MemoryOK

\* A process that has been overtaken only faults itself.
LEMMA StaleCommitKeeps ==
  ASSUME IInv, NEW i \in Instances, StaleCommit(i) PROVE IInv'
<1>1. /\ TypeOK /\ CoherentMemory /\ \A j \in Instances : rev[j] <= revision
  BY DEF IInv, MemoryOK
<1>2. /\ fault' = [fault EXCEPT ![i] = TRUE]
      /\ UNCHANGED <<table, revision, disk, up, rev, mem, pc, batch, claim>>
  BY DEF StaleCommit, loops, checkpoint
<1>3. TypeOK' /\ revision' >= revision
  BY <1>1, <1>2 DEF TypeOK, table
<1>4. RowsOK' /\ ClaimsOK' /\ BatchOK' /\ EffectExactlyOnce'
  BY <1>2, <1>3, TableKept
<1>5. CoherentMemory'
  BY <1>1, <1>2 DEF CoherentMemory
<1> QED BY <1>1, <1>2, <1>3, <1>4, <1>5 DEF IInv, MemoryOK

\* A process starts from the durable checkpoint.
LEMMA StartKeeps ==
  ASSUME IInv, NEW i \in Instances, Start(i) PROVE IInv'
<1>1. /\ TypeOK /\ CoherentMemory /\ \A j \in Instances : rev[j] <= revision
  BY DEF IInv, MemoryOK
<1>2. /\ up' = [up EXCEPT ![i] = TRUE]
      /\ rev' = [rev EXCEPT ![i] = revision]
      /\ mem' = [mem EXCEPT ![i] = disk]
      /\ UNCHANGED <<table, revision, disk, fault, pc, batch, claim>>
  BY DEF Start, loops, checkpoint
<1>3. TypeOK' /\ revision' >= revision
  BY <1>1, <1>2 DEF TypeOK, table
<1>4. RowsOK' /\ ClaimsOK' /\ BatchOK' /\ EffectExactlyOnce'
  BY <1>2, <1>3, TableKept
<1>5. /\ \A j \in Instances : j # i => /\ up'[j] = up[j] /\ rev'[j] = rev[j]
                                       /\ mem'[j] = mem[j]
      /\ rev'[i] = revision /\ mem'[i] = disk
  BY <1>1, <1>2 DEF TypeOK
<1>6. CoherentMemory' /\ \A j \in Instances : rev'[j] <= revision'
  BY <1>1, <1>2, <1>5 DEF CoherentMemory, TypeOK
<1> QED BY <1>3, <1>4, <1>6 DEF IInv, MemoryOK

\* A process dies with its memory, its claims and its batches; its rows stay.
LEMMA CrashKeeps ==
  ASSUME IInv, NEW i \in Instances, Crash(i) PROVE IInv'
<1>1. /\ TypeOK /\ ClaimsOK /\ CoherentMemory
      /\ \A j \in Instances : rev[j] <= revision
  BY DEF IInv, MemoryOK
<1>2. /\ up' = [up EXCEPT ![i] = FALSE]
      /\ rev' = [rev EXCEPT ![i] = 0]
      /\ fault' = [fault EXCEPT ![i] = FALSE]
      /\ mem' = [mem EXCEPT ![i] = [id \in TaskIds |-> 0]]
      /\ pc' = [w \in Workers |-> IF Process(w) = i THEN "idle" ELSE pc[w]]
      /\ batch' = [w \in Workers |-> IF Process(w) = i THEN {} ELSE batch[w]]
      /\ claim' = [w \in Workers |-> IF Process(w) = i THEN NoClaim ELSE claim[w]]
      /\ UNCHANGED <<table, revision, disk>>
  BY DEF Crash, checkpoint
<1>3. TypeOK' /\ revision' >= revision
  <2>1. NoClaim \in ClaimType
    BY ConstantsAssumption DEF NoClaim, ClaimType
  <2>2. pc' \in [Workers -> Steps] /\ batch' \in [Workers -> SUBSET (TaskIds \X Nat)]
    BY <1>1, <1>2 DEF TypeOK, Steps
  <2>3. claim' \in [Workers -> ClaimType]
    BY <1>1, <1>2, <2>1 DEF TypeOK, ClaimType
  <2>4. mem' \in [Instances -> EngineStates]
    BY <1>1, <1>2 DEF TypeOK, EngineStates
  <2>5. /\ up' \in [Instances -> BOOLEAN] /\ rev' \in [Instances -> Nat]
        /\ fault' \in [Instances -> BOOLEAN]
    BY <1>1, <1>2 DEF TypeOK
  <2> QED BY <1>1, <1>2, <2>2, <2>3, <2>4, <2>5 DEF TypeOK, ClaimType, table
<1>4. \A w \in Workers : /\ claim'[w] = claim[w] \/ claim'[w] = NoClaim
                         /\ pc'[w] \in Busy => claim'[w] = claim[w] /\ pc[w] \in Busy
                         /\ pc'[w] = "call" => pc[w] = "call"
                         /\ batch'[w] \subseteq batch[w]
  BY <1>2 DEF Busy
<1>5. RowsOK' /\ ClaimsOK' /\ BatchOK' /\ EffectExactlyOnce'
  BY <1>2, <1>3, <1>4, TableKept
<1>6. /\ \A j \in Instances : j # i => /\ up'[j] = up[j] /\ rev'[j] = rev[j]
                                       /\ mem'[j] = mem[j]
      /\ ~up'[i] /\ rev'[i] = 0
  BY <1>1, <1>2 DEF TypeOK
<1>7. CoherentMemory' /\ \A j \in Instances : rev'[j] <= revision'
  BY <1>1, <1>2, <1>6 DEF CoherentMemory, TypeOK
<1> QED BY <1>3, <1>5, <1>7 DEF IInv, MemoryOK

\* Time passes for a lease.
LEMMA LeaseKeeps ==
  ASSUME IInv, NEW id \in TaskIds, LeaseRunsOut(id) PROVE IInv'
<1> DEFINE s == [task[id] EXCEPT !.live = FALSE]
<1>1. TypeOK /\ RowsOK /\ task' = [task EXCEPT ![id] = s]
  BY DEF IInv, LeaseRunsOut, TypeOK
<1>2. UNCHANGED <<lastId, accepted, checkpoint, service, pc, batch, claim>>
  BY DEF LeaseRunsOut, loops
<1>3. task[id] \in Rows /\ RowOK(task[id])
  BY <1>1 DEF TypeOK, RowsOK
<1>4. Quiet(task[id], s)
  BY <1>3 DEF Quiet, Rows, RowOK
<1> HIDE DEF s
<1>5. \A k \in TaskIds : Quiet(task[k], task'[k])
  BY <1>1, <1>4, TableQuiet DEF TypeOK
<1>6. TypeOK'
  BY <1>1, <1>2, <1>4 DEF TypeOK, Quiet, checkpoint, service
<1> QED BY <1>2, <1>5, <1>6, QuietStep DEF service

\* Time passes for a backoff.
LEMMA BackoffKeeps ==
  ASSUME IInv, NEW id \in TaskIds, BackoffElapses(id) PROVE IInv'
<1> DEFINE s == [task[id] EXCEPT !.due = TRUE]
<1>1. TypeOK /\ RowsOK /\ task' = [task EXCEPT ![id] = s]
  BY DEF IInv, BackoffElapses, TypeOK
<1>2. UNCHANGED <<lastId, accepted, checkpoint, service, pc, batch, claim>>
  BY DEF BackoffElapses, loops
<1>3. task[id] \in Rows /\ RowOK(task[id])
  BY <1>1 DEF TypeOK, RowsOK
<1>4. Quiet(task[id], s)
  BY <1>3 DEF Quiet, Rows, RowOK
<1> HIDE DEF s
<1>5. \A k \in TaskIds : Quiet(task[k], task'[k])
  BY <1>1, <1>4, TableQuiet DEF TypeOK
<1>6. TypeOK'
  BY <1>1, <1>2, <1>4 DEF TypeOK, Quiet, checkpoint, service
<1> QED BY <1>2, <1>5, <1>6, QuietStep DEF service

\* Every step, one lemma each, preserves the invariant.
LEMMA StepInvariant == IInv /\ [Next]_vars => IInv'
<1> SUFFICES ASSUME IInv, [Next]_vars PROVE IInv'
  OBVIOUS
<1>1. ASSUME NEW w \in Workers, LoopStep(w) PROVE IInv'
  BY <1>1, RecoverKeeps, ListKeeps, ClaimNextKeeps, EndPassKeeps, SealKeeps,
     StoreKeeps, ReclaimKeeps, ReclaimRefusedKeeps, ModelFailsKeeps,
     CompleteKeeps, ApplyFailsKeeps
     DEF LoopStep
<1>2. ASSUME NEW i \in Instances, NEW e \in Events, AcceptSignal(i, e) PROVE IInv'
  BY <1>2, AcceptKeeps
<1>3. ASSUME NEW i \in Instances, Save(i) \/ StaleCommit(i) \/ Start(i) \/ Crash(i)
      PROVE  IInv'
  BY <1>3, SaveKeeps, StaleCommitKeeps, StartKeeps, CrashKeeps
<1>4. ASSUME NEW id \in TaskIds, LeaseRunsOut(id) \/ BackoffElapses(id) PROVE IInv'
  BY <1>4, LeaseKeeps, BackoffKeeps
<1>5. ASSUME UNCHANGED vars PROVE IInv'
  <2>1. TypeOK /\ TypeOK'
    BY <1>5 DEF IInv, TypeOK, vars
  <2>2. \A id \in TaskIds : Quiet(task[id], task'[id])
    BY <1>5, TableQuiet DEF vars
  <2> QED BY <1>5, <2>1, <2>2, QuietStep DEF vars, checkpoint
<1> QED BY <1>1, <1>2, <1>3, <1>4, <1>5 DEF Next

\* The inductive invariant of the task machine.
THEOREM Invariance == Spec => []IInv
BY InitInvariant, StepInvariant, PTL DEF Spec

-----------------------------------------------------------------------------
(* What follows from it                                                    *)

\* Every variable of the task machine keeps its type.
THEOREM TypeCorrect == Spec => []TypeOK
<1>1. IInv => TypeOK
  BY DEF IInv
<1> QED BY <1>1, Invariance, PTL

\* The durable memory holds the effect of a task once when the task is done
\* and never otherwise, for any number of processes that crash, are overtaken
\* or lose an acknowledgement (TaskStore.complete).
THEOREM ExactlyOnce == Spec => []EffectExactlyOnce
<1>1. IInv => EffectExactlyOnce
  BY DEF IInv, MemoryOK
<1> QED BY <1>1, Invariance, PTL

\* An engine at the durable revision is the durable engine: what _rollback_effect
\* leaves behind after a failure may be committed later.
THEOREM Coherent == Spec => []CoherentMemory
<1>1. IInv => CoherentMemory
  BY DEF IInv, MemoryOK
<1> QED BY <1>1, Invariance, PTL

\* A product is about all the signals its row has taken in: none is merged into
\* a row behind the back of the model that was asked about it (_enqueue, claim).
THEOREM ProductIsComplete == Spec => []ProductCoversPayload
<1>1. IInv => ProductCoversPayload
  BY DEF IInv, RowsOK, RowOK, ProductCoversPayload
<1> QED BY <1>1, Invariance, PTL

\* The latest sealed context is the one of the call that gave the product, so
\* call_context() is the right one to validate it against.
THEOREM ProductIsSealed == Spec => []ProductMatchesSeal
<1>1. IInv => ProductMatchesSeal
  BY DEF IInv, RowsOK, RowOK, ProductMatchesSeal
<1> QED BY <1>1, Invariance, PTL

\* A state directory that has been used can be opened again (checkpoint()).
THEOREM CanAlwaysStart == Spec => []NeverBricked
<1>1. IInv => NeverBricked
  <2> SUFFICES ASSUME IInv, NEW id \in TaskIds, task[id].attempts > 0
               PROVE  revision # 0
    BY DEF NeverBricked, StartRefused
  <2>1. task[id].state # "none" /\ lastId \in Nat /\ id \in Nat /\ id > 0
    BY DEF IInv, RowsOK, RowOK, TypeOK, TaskIds, Rows
  <2>2. lastId > 0
    BY <2>1 DEF IInv, RowsOK
  <2> QED BY <2>2 DEF IInv, RowsOK
<1> QED BY <1>1, Invariance, PTL

-----------------------------------------------------------------------------
(* The task machine implements TaskPromise                                 *)

\* What may happen to a row that is not being finished.
RowMoves(r, s) ==
  /\ \/ s.key = r.key
     \/ r.state = "none" /\ Phase(s) = "accepted"
  /\ \/ Phase(s) = Phase(r)
     \/ Phase(r) = "unknown" /\ Phase(s) = "accepted"
     \/ Phase(r) = "accepted" /\ Phase(s) = "judged"
     \/ Phase(r) = "judged" /\ Phase(s) = "accepted" /\ r.key \in WorkflowKeys
     \/ Phase(r) \in {"accepted", "judged"} /\ Phase(s) = "dead"

\* The phase that TaskPromise sees, from the state and the product of a row.
LEMMA PhaseOf ==
  ASSUME NEW r \in Rows
  PROVE  /\ r.state = "none" <=> Phase(r) = "unknown"
         /\ r.state = "done" <=> Phase(r) = "done"
         /\ r.state = "dead" <=> Phase(r) = "dead"
         /\ r.state \in Unfinished =>
              Phase(r) = IF r.result = NoResult THEN "accepted" ELSE "judged"
BY DEF Phase, Rows, States, Unfinished

\* retry() reopens, keeps or kills a row; only a workflow row is reopened.
LEMMA RetriedMoves ==
  ASSUME NEW r \in Rows, RowOK(r), r.state \in Held, NEW remodel \in BOOLEAN,
         remodel => r.key \in WorkflowKeys
  PROVE  RowMoves(r, Retried(r, remodel))
<1> DEFINE s == Retried(r, remodel)
<1>1. s \in Rows /\ s.key = r.key
  BY RetriedQuiet DEF Quiet, Held
<1>2. s.state = IF Exhausted(r) THEN "dead"
                ELSE IF r.state = "applying" /\ ~remodel THEN "ready" ELSE "pending"
  BY DEF Retried, Rows
<1>3. s.result = IF remodel /\ ~Exhausted(r) THEN NoResult ELSE r.result
  BY DEF Retried, Rows
<1>4. Phase(r) = IF r.result = NoResult THEN "accepted" ELSE "judged"
  BY PhaseOf DEF Held, Unfinished
<1> HIDE DEF s
<1>5. ASSUME Exhausted(r) PROVE RowMoves(r, s)
  BY <1>1, <1>2, <1>4, <1>5, PhaseOf DEF RowMoves
<1>6. ASSUME ~Exhausted(r) PROVE RowMoves(r, s)
  <2>1. Phase(s) = IF s.result = NoResult THEN "accepted" ELSE "judged"
    BY <1>1, <1>2, <1>6, PhaseOf DEF Unfinished
  <2> QED BY <1>1, <1>3, <1>4, <1>6, <2>1 DEF RowMoves
<1> QED BY <1>5, <1>6 DEF s

\* recover_expired keeps or kills a row.
LEMMA RecoveredMoves ==
  ASSUME NEW r \in Rows, RowOK(r)
  PROVE  RowMoves(r, Recovered(r))
<1> DEFINE s == Recovered(r)
           e == Expired(r)
<1>1. s \in Rows /\ s.key = r.key
  BY RecoveredQuiet DEF Quiet
<1>2. /\ e.result = r.result /\ e \in Rows
      /\ \/ e.state = r.state
         \/ r.state \in Held /\ e.state \in {"dead", "ready", "pending"}
  <2>1. CASE r.state \in Held /\ ~r.live
    BY <2>1 DEF Expired, Rows, Held, States
  <2>2. CASE ~(r.state \in Held /\ ~r.live)
    BY <2>2 DEF Expired, Held
  <2> QED BY <2>1, <2>2
<1>3. /\ s.result = e.result
      /\ \/ s.state = e.state
         \/ e.state \in {"pending", "ready"} /\ s.state = "dead"
  BY <1>2 DEF Recovered, Rows
<1> HIDE DEF s, e
<1>4. \/ s.state = r.state
      \/ r.state \in Unfinished /\ s.state \in Unfinished
      \/ r.state \in Unfinished /\ s.state = "dead"
  BY <1>2, <1>3 DEF Unfinished, Held
<1>5. s.result = r.result
  BY <1>2, <1>3
<1>6. ASSUME s.state = r.state PROVE RowMoves(r, s)
  BY <1>1, <1>5, <1>6 DEF RowMoves, Phase
<1>7. ASSUME r.state \in Unfinished, s.state \in Unfinished PROVE RowMoves(r, s)
  BY <1>1, <1>5, <1>7, PhaseOf DEF RowMoves
<1>8. ASSUME r.state \in Unfinished, s.state = "dead" PROVE RowMoves(r, s)
  BY <1>1, <1>8, PhaseOf DEF RowMoves
<1> QED BY <1>4, <1>6, <1>7, <1>8 DEF s

\* A signal is merged into a row or accepted as a new one.
LEMMA ReceivedMoves ==
  ASSUME NEW r \in Rows, NEW s \in Rows, Received(r, s)
  PROVE  RowMoves(r, s)
<1>1. CASE s = r
  BY <1>1 DEF RowMoves
<1>2. CASE r.state = "none" /\ s.state = "pending" /\ s.result = NoResult
  BY <1>2, PhaseOf DEF RowMoves, Unfinished
<1>3. CASE /\ r.state = "pending" /\ s.state = "pending"
           /\ s.result = r.result /\ s.key = r.key
  BY <1>3, PhaseOf DEF RowMoves, Unfinished
<1> QED BY <1>1, <1>2, <1>3 DEF Received

\* A step that finishes no row and leaves the durable engine alone.
LEMMA MovesImplement ==
  ASSUME \A id \in TaskIds : RowMoves(task[id], task'[id]),
         \A id \in TaskIds : task[id] \in Rows /\ task'[id] \in Rows,
         disk' = disk
  PROVE  Promise!Next
<1> SUFFICES ASSUME NEW id \in TaskIds
    PROVE  /\ Phase(task'[id]) = Phase(task[id]) \/ Promise!Move(id)
           /\ disk'[id] = IF Promise!Finish(id) THEN disk[id] + 1 ELSE disk[id]
           /\ \/ (task'[id].key \in WorkflowKeys) = (task[id].key \in WorkflowKeys)
              \/ Promise!Accept(id)
  BY DEF Promise!Next
<1>1. RowMoves(task[id], task'[id])
  OBVIOUS
<1>2. Phase(task'[id]) = Phase(task[id]) \/ Promise!Move(id)
  BY <1>1 DEF RowMoves, Promise!Move, Promise!Accept, Promise!Judge,
     Promise!Reopen, Promise!Die
<1>3. ~Promise!Finish(id)
  BY <1>1 DEF RowMoves, Promise!Finish
<1>4. \/ task'[id].key = task[id].key
      \/ Promise!Accept(id)
  BY <1>1, PhaseOf DEF RowMoves, Promise!Accept
<1> QED BY <1>2, <1>3, <1>4

\* Nothing happens to a row.
LEMMA SameMoves == \A r : RowMoves(r, r)
BY DEF RowMoves

\* retry() reopens a round only for the workflow loop, on rows of its family.
LEMMA RetryMoves ==
  ASSUME IInv, NEW w \in Workers, Retry(w)
  PROVE  \A id \in TaskIds : RowMoves(task[id], task'[id])
<1>1. PICK remodel \in {FALSE, Family(w) = "workflow"} :
        task' = IF Owned(w, Held)
                THEN [task EXCEPT ![claim[w].id] = Retried(@, remodel)]
                ELSE task
  BY DEF Retry, Held
<1>2. TypeOK
  BY DEF IInv
<1>3. CASE Owned(w, Held)
  <2> DEFINE id == claim[w].id
  <2>1. /\ id \in TaskIds /\ task[id] \in Rows /\ RowOK(task[id])
        /\ task[id].state \in Held /\ task[id].key \in FamilyKeys(w)
    BY <1>3, OwnedRow
  <2>2. remodel \in BOOLEAN /\ (remodel => task[id].key \in WorkflowKeys)
    BY <2>1 DEF FamilyKeys
  <2>3. RowMoves(task[id], Retried(task[id], remodel))
    BY <2>1, <2>2, RetriedMoves
  <2>4. task' = [task EXCEPT ![id] = Retried(task[id], remodel)]
    BY <1>1, <1>3
  <2> QED BY <1>2, <2>1, <2>3, <2>4, SameMoves DEF TypeOK
<1>4. CASE ~Owned(w, Held)
  BY <1>1, <1>4, SameMoves
<1> QED BY <1>3, <1>4

\* Claiming a row does not change its phase.
LEMMA ClaimMoves ==
  ASSUME TypeOK, NEW w \in Workers, NEW id \in TaskIds, ClaimRow(w, id),
         task[id].state \in {"pending", "ready"}, task' \in [TaskIds -> Rows]
  PROVE  \A k \in TaskIds : RowMoves(task[k], task'[k])
<1>1. /\ task'[id].state \in {"running", "applying"}
      /\ task'[id].result = task[id].result /\ task'[id].key = task[id].key
  <2>1. task \in [TaskIds -> Rows] /\ task[id] \in Rows
    BY DEF TypeOK
  <2> QED BY <2>1 DEF ClaimRow, Rows
<1>2. \A k \in TaskIds : k # id => task'[k] = task[k]
  BY DEF ClaimRow, TypeOK
<1>3. RowMoves(task[id], task'[id])
  <2>1. task[id] \in Rows /\ task'[id] \in Rows
    BY DEF TypeOK
  <2> QED BY <1>1, <2>1, PhaseOf DEF RowMoves, Unfinished
<1> QED BY <1>2, <1>3, SameMoves

\* Sealing changes no phase; storing a product is Judge.
LEMMA SealAndStoreMove ==
  ASSUME IInv, NEW w \in Workers, SealContext(w) \/ StoreResult(w),
         task' \in [TaskIds -> Rows]
  PROVE  \A k \in TaskIds : RowMoves(task[k], task'[k])
<1> DEFINE id == claim[w].id
<1>1. Owned(w, Held) /\ task[id].state = "running" /\ TypeOK
  <2>1. Owned(w, {"running"})
    BY DEF SealContext, StoreResult
  <2> QED BY <2>1 DEF IInv, Owned, Held
<1>2. /\ id \in TaskIds /\ task[id] \in Rows /\ RowOK(task[id])
  BY <1>1, OwnedRow
<1>3. /\ \A k \in TaskIds : k # id => task'[k] = task[k]
      /\ task'[id].key = task[id].key
      /\ \/ task'[id].state = "running" /\ task'[id].result = task[id].result
         \/ task'[id].state = "ready"
  <2>1. task \in [TaskIds -> Rows] /\ task[id].state = "running"
    BY <1>1 DEF TypeOK
  <2>2. CASE SealContext(w)
    BY <1>2, <2>1, <2>2 DEF SealContext, Rows
  <2>3. CASE StoreResult(w)
    BY <1>2, <2>1, <2>3 DEF StoreResult, Rows
  <2> QED BY <2>2, <2>3
<1>4. RowMoves(task[id], task'[id])
  <2>1. Phase(task[id]) = "accepted"
    BY <1>1, <1>2, PhaseOf DEF RowOK, Unfinished
  <2>2. task'[id] \in Rows
    BY <1>2
  <2>3. Phase(task'[id]) \in {"accepted", "judged"}
    BY <1>3, <2>2, PhaseOf DEF Unfinished
  <2> QED BY <1>3, <2>1, <2>3 DEF RowMoves
<1> QED BY <1>3, <1>4, SameMoves

\* Finishing a row is Finish of the abstract machine; a follow-up is Accept.
LEMMA CompleteImplements ==
  ASSUME IInv, TypeOK', NEW w \in Workers, Complete(w)
  PROVE  Promise!Next
<1> DEFINE i == Process(w)
           id == claim[w].id
           r == task[id]
           t == [task EXCEPT ![id].state = "done", ![id].token = 0,
                             ![id].live = FALSE]
<1>1. /\ TypeOK /\ RowsOK /\ CoherentMemory /\ i \in Instances
      /\ up[i] /\ rev[i] = revision /\ disk' = [mem[i] EXCEPT ![id] = @ + 1]
      /\ r.state = "applying" /\ r.result # NoResult
  BY DEF IInv, MemoryOK, Complete, Healthy, Owned, Workers, Process
<1>2. Owned(w, Held)
  BY DEF Complete, Owned, Held
<1>3. id \in TaskIds /\ r \in Rows /\ RowOK(r)
  BY <1>2, OwnedRow
<1>4. /\ t \in [TaskIds -> Rows] /\ t[id].state = "done" /\ t[id].key = r.key
      /\ RowOK(t[id])
      /\ \A k \in TaskIds : k # id => t[k] = task[k]
  <2> DEFINE s == [r EXCEPT !.state = "done", !.token = 0, !.live = FALSE]
  <2>1. task \in [TaskIds -> Rows] /\ t = [task EXCEPT ![id] = s]
    BY <1>1, <1>3 DEF TypeOK
  <2>2. s \in Rows /\ s.state = "done" /\ s.key = r.key
    BY <1>3 DEF Rows, States
  <2>3. RowOK(s)
    <3>1. s.attempts = r.attempts /\ s.applies = r.applies /\ s.token = 0
          /\ s.result = r.result /\ s.payload = r.payload /\ s.seal = r.seal
      BY <1>3 DEF Rows
    <3>2. r.attempts \in Nat /\ r.applies \in Nat
      BY <1>3 DEF Rows
    <3> HIDE DEF s
    <3> QED BY <1>3, <2>2, <3>1, <3>2 DEF RowOK, Held
  <2> HIDE DEF s
  <2> QED BY <1>3, <2>1, <2>2, <2>3
<1>5. \/ task' = t
      \/ \E e \in Events : Enqueue(t, e)
  BY DEF Complete
<1> HIDE DEF t
<1>6. \A k \in TaskIds : Received(t[k], task'[k])
  <2>1. \A k \in TaskIds : RowOK(t[k]) /\ (t[k].state = "none" <=> k > lastId)
    BY <1>1, <1>3, <1>4 DEF RowsOK
  <2>2. lastId \in 0 .. MaxTasks /\ accepted \subseteq Events
    BY <1>1 DEF TypeOK
  <2> QED BY <1>4, <1>5, <2>1, <2>2, EnqueueKeeps DEF Received
<1>7. disk \in EngineStates /\ mem[i] = disk
  BY <1>1 DEF CoherentMemory, TypeOK
<1>8. disk'[id] = disk[id] + 1 /\ \A k \in TaskIds : k # id => disk'[k] = disk[k]
  BY <1>1, <1>3, <1>7 DEF EngineStates
<1>9. ASSUME NEW k \in TaskIds, k # id
      PROVE  /\ Phase(task'[k]) = Phase(task[k]) \/ Promise!Move(k)
             /\ ~Promise!Finish(k)
             /\ task'[k].key = task[k].key \/ Promise!Accept(k)
  <2>1. task[k] \in Rows /\ task'[k] \in Rows /\ RowMoves(task[k], task'[k])
    BY <1>1, <1>4, <1>6, <1>9, ReceivedMoves DEF TypeOK
  <2> QED BY <2>1, PhaseOf DEF RowMoves, Promise!Move, Promise!Accept,
          Promise!Judge, Promise!Reopen, Promise!Die, Promise!Finish
<1>10. Promise!Finish(id) /\ task'[id].key = r.key
  <2>1. task'[id] = t[id]
    BY <1>3, <1>4, <1>6 DEF Received
  <2>2. Phase(r) = "judged"
    BY <1>1, <1>3, PhaseOf DEF Unfinished
  <2>3. Phase(task'[id]) = "done"
    BY <1>3, <1>4, <2>1, PhaseOf
  <2> QED BY <1>3, <1>4, <2>1, <2>2, <2>3 DEF Promise!Finish
<1> SUFFICES ASSUME NEW k \in TaskIds
    PROVE  /\ Phase(task'[k]) = Phase(task[k]) \/ Promise!Move(k)
           /\ disk'[k] = IF Promise!Finish(k) THEN disk[k] + 1 ELSE disk[k]
           /\ \/ (task'[k].key \in WorkflowKeys) = (task[k].key \in WorkflowKeys)
              \/ Promise!Accept(k)
  BY DEF Promise!Next
<1>11. CASE k = id
  BY <1>8, <1>10, <1>11 DEF Promise!Move
<1>12. CASE k # id
  BY <1>8, <1>9, <1>12
<1> QED BY <1>11, <1>12

\* Every step of the task machine is a step of TaskPromise or a stutter.
LEMMA NextImplements ==
  ASSUME IInv, IInv', [Next]_vars
  PROVE  [Promise!Next]_(Promise!vars)
<1>1. /\ TypeOK /\ TypeOK' /\ RowsOK /\ CoherentMemory
      /\ \A id \in TaskIds : task[id] \in Rows /\ task'[id] \in Rows
      /\ task' \in [TaskIds -> Rows]
  BY DEF IInv, MemoryOK, TypeOK
<1>2. ASSUME disk' = disk, \A id \in TaskIds : RowMoves(task[id], task'[id])
      PROVE  Promise!Next
  BY <1>1, <1>2, MovesImplement
<1>3. ASSUME disk' = disk, task' = task PROVE Promise!Next
  BY <1>2, <1>3, SameMoves
<1>4. ASSUME NEW w \in Workers, LoopStep(w) PROVE Promise!Next
  <2>1. CASE RecoverExpired(w)
    <3>1. \A id \in TaskIds : RowMoves(task[id], task'[id])
      BY <1>1, <2>1, RecoveredMoves, SameMoves DEF RecoverExpired, RowsOK
    <3> QED BY <1>2, <2>1, <3>1 DEF RecoverExpired, checkpoint
  <2>2. CASE List(w) \/ EndPass(w) \/ ReclaimRefused(w)
    BY <1>3, <2>2 DEF List, EndPass, ReclaimRefused, table, checkpoint
  <2>3. CASE ClaimNext(w)
    <3>1. PICK item \in batch[w] :
            \/ Claimable(item[1], item[2]) /\ ClaimRow(w, item[1])
            \/ UNCHANGED task
      BY <2>3 DEF ClaimNext
    <3>2. item[1] \in TaskIds /\ disk' = disk
      BY <2>3 DEF IInv, BatchOK, ClaimNext, checkpoint
    <3> QED BY <1>1, <1>2, <1>3, <3>1, <3>2, ClaimMoves DEF Claimable
  <2>4. CASE Reclaim(w)
    <3>1. claim[w].id \in TaskIds /\ disk' = disk
      BY <1>1, <2>4 DEF IInv, ClaimsOK, ClaimOK, Busy, Reclaim, checkpoint, TypeOK, TaskIds
    <3> QED BY <1>1, <1>2, <1>3, <2>4, <3>1, ClaimMoves DEF Reclaim, Claimable
  <2>5. CASE SealContext(w) \/ StoreResult(w)
    <3>1. \A id \in TaskIds : RowMoves(task[id], task'[id])
      BY <1>1, <2>5, SealAndStoreMove
    <3>2. disk' = disk
      BY <2>5 DEF SealContext, StoreResult, checkpoint
    <3> QED BY <1>2, <3>1, <3>2
  <2>6. CASE ModelFails(w) \/ ApplyFails(w)
    <3>1. Retry(w) /\ disk' = disk
      BY <2>6 DEF ModelFails, ApplyFails, checkpoint
    <3> QED BY <1>2, <3>1, RetryMoves
  <2>7. CASE Complete(w)
    BY <1>1, <2>7, CompleteImplements
  <2> QED BY <1>4, <2>1, <2>2, <2>3, <2>4, <2>5, <2>6, <2>7 DEF LoopStep
<1>5. ASSUME NEW i \in Instances, NEW e \in Events, AcceptSignal(i, e)
      PROVE  Promise!Next
  <2>1. disk' = disk /\ Enqueue(task, e)
    BY <1>1, <1>5 DEF AcceptSignal, CoherentMemory
  <2>2. \A id \in TaskIds : Received(task[id], task'[id])
    <3>1. /\ task \in [TaskIds -> Rows] /\ accepted \subseteq Events
          /\ lastId \in 0 .. MaxTasks
      BY <1>1 DEF TypeOK
    <3> QED BY <1>1, <2>1, <3>1, EnqueueKeeps DEF RowsOK
  <2> QED BY <1>1, <1>2, <2>1, <2>2, ReceivedMoves
<1>6. ASSUME NEW i \in Instances, Save(i) \/ StaleCommit(i) \/ Start(i) \/ Crash(i)
      PROVE  Promise!Next
  <2>1. task' = task /\ disk' = disk
    BY <1>1, <1>6 DEF Save, StaleCommit, Start, Crash, CoherentMemory, table, checkpoint
  <2> QED BY <1>3, <2>1
<1>7. ASSUME NEW id \in TaskIds, LeaseRunsOut(id) \/ BackoffElapses(id)
      PROVE  Promise!Next
  <2>1. disk' = disk
    BY <1>7 DEF LeaseRunsOut, BackoffElapses, checkpoint
  <2>2. ASSUME NEW k \in TaskIds PROVE RowMoves(task[k], task'[k])
    <3>1. /\ task'[k].key = task[k].key /\ task'[k].state = task[k].state
          /\ task'[k].result = task[k].result
      BY <1>1, <1>7 DEF LeaseRunsOut, BackoffElapses, TypeOK, Rows
    <3> QED BY <3>1 DEF RowMoves, Phase
  <2> QED BY <1>2, <2>1, <2>2
<1>8. ASSUME UNCHANGED vars PROVE UNCHANGED Promise!vars
  BY <1>8 DEF vars, Promise!vars
<1> QED BY <1>4, <1>5, <1>6, <1>7, <1>8 DEF Next

\* The table, its loops, leases and crashes implement the promise made to the
\* callers of the store: rows live through their phases once and in order, the
\* effect becomes durable in the step that finishes the row, and a semantic row
\* never loses its product.
THEOREM Implements == Spec => KeepsPromise
<1>1. Init => Promise!Init
  <2> SUFFICES ASSUME Init PROVE Promise!Init
    OBVIOUS
  <2>1. \A id \in TaskIds : Phase(task[id]) = "unknown"
    BY BlankRow, PhaseOf DEF Init, Blank
  <2> QED BY <2>1 DEF Init, Promise!Init
<1>2. IInv /\ IInv' /\ [Next]_vars => [Promise!Next]_(Promise!vars)
  BY NextImplements
<1> QED BY <1>1, <1>2, Invariance, PTL DEF Spec, KeepsPromise, Promise!Spec
=============================================================================
