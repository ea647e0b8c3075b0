-------------------------- MODULE UnitPipeline_proofs --------------------------
(***************************************************************************)
(* Proofs about the capture pipeline, for any number of processes, turns   *)
(* and units per pass and any capacity of the queue: the engine absorbs    *)
(* the log once and in order, follow-up tasks are handed off once per      *)
(* turn, memory agrees with the disk, and the pipeline implements          *)
(* UnitPromise.                                                            *)
(***************************************************************************)
EXTENDS UnitPipeline, FiniteSetTheorems, SequenceTheorems, TLAPS

Busy == {"prepare", "save", "apply", "finish"}

\* The two databases: pending work is closed only beside a receipt, and a
\* request id is bound to one unit.
LogOK ==
  /\ \A u \in DOMAIN log : log[u].done => u \in receipts
  /\ \A u, v \in DOMAIN log : log[u].capture = log[v].capture => u = v

MemoryOK ==
  /\ \A i \in Instances : rev[i] <= revision
  /\ CoherentMemory

\* A pass has left no unit behind: whatever is older than a unit it has listed
\* is listed too, in work or absorbed.
PassOK(i) ==
  /\ pc[i] = "idle" => listed[i] = {}
  /\ \A u \in listed[i] : \A v \in 1 .. u - 1 :
       v \in listed[i] \/ v \in receipts \/ (pc[i] \in Busy /\ v = cur[i])
  /\ pc[i] \in Busy => /\ cur[i] \in DOMAIN log
                       /\ \A v \in 1 .. cur[i] - 1 : v \in receipts
  /\ pc[i] = "finish" => cur[i] \in receipts

PassesOK == \A i \in Instances : PassOK(i)

IInv ==
  /\ TypeOK
  /\ AbsorbedInLogOrder
  /\ MemoryOK
  /\ LogOK
  /\ HandedOffOnce
  /\ PassesOK

-----------------------------------------------------------------------------
(* The parts of the state a step touches                                   *)

\* The units of the log are numbered from 1.
LEMMA Log ==
  ASSUME TypeOK
  PROVE  /\ Len(log) \in Nat /\ DOMAIN log = 1 .. Len(log)
         /\ \A u \in DOMAIN log : log[u] \in Entries
  BY LenProperties, ElementOfSeq DEF TypeOK

\* The log but for results, backoffs and the closing of absorbed units.
SameUnits ==
  /\ log' \in Seq(Entries)
  /\ DOMAIN log' = DOMAIN log
  /\ \A u \in DOMAIN log :
       /\ log'[u].capture = log[u].capture
       /\ log'[u].done => log[u].done \/ u \in receipts

\* One entry of the log is updated (save_work_result, fail_work, finish_work).
LEMMA Entry ==
  ASSUME TypeOK, NEW u \in DOMAIN log, NEW e \in Entries,
         log' = [log EXCEPT ![u] = e]
  PROVE  /\ log' \in Seq(Entries) /\ DOMAIN log' = DOMAIN log
         /\ Len(log') = Len(log) /\ log'[u] = e
         /\ \A v \in DOMAIN log : v # u => log'[v] = log[v]
<1>1. log \in Seq(Entries) /\ DOMAIN log = 1 .. Len(log)
  BY Log DEF TypeOK
<1>2. log' \in Seq(Entries) /\ Len(log') = Len(log)
  BY <1>1, ExceptSeq
<1> QED
  BY <1>1, <1>2, LenProperties

\* The rest of what the steps of one pass leave alone.
SameEffects == UNCHANGED <<receipts, revision, disk, queue, handed, up, rev, mem>>

PassesTyped ==
  /\ pc' \in [Instances -> Steps]
  /\ listed' \in [Instances -> SUBSET (DOMAIN log)]
  /\ cur' \in [Instances -> Nat]
  /\ known' \in [Instances -> BOOLEAN]

\* Process i is the only one whose pass moves.
OnlyPass(i) ==
  /\ PassesTyped
  /\ \A j \in Instances \ {i} :
       pc'[j] = pc[j] /\ listed'[j] = listed[j] /\ cur'[j] = cur[j]

\* The passes of the other processes survive a step that only adds units and
\* receipts.
LEMMA OtherPasses ==
  ASSUME PassesOK, NEW i \in Instances, PassOK(i)',
         DOMAIN log \subseteq DOMAIN log', receipts \subseteq receipts',
         \A j \in Instances \ {i} :
           pc'[j] = pc[j] /\ listed'[j] = listed[j] /\ cur'[j] = cur[j]
  PROVE  PassesOK'
<1> SUFFICES ASSUME NEW j \in Instances, j # i PROVE PassOK(j)'
  BY DEF PassesOK
<1>1. PassOK(j) /\ pc'[j] = pc[j] /\ listed'[j] = listed[j] /\ cur'[j] = cur[j]
  BY DEF PassesOK
<1> QED
  BY <1>1 DEF PassOK

\* A step that leaves both databases alone but for what SameUnits allows.
LEMMA SameDatabases ==
  ASSUME IInv, SameUnits, SameEffects, fault' \in [Instances -> BOOLEAN],
         PassesTyped, PassesOK'
  PROVE  IInv'
<1>1. TypeOK /\ LogOK /\ MemoryOK /\ HandedOffOnce /\ AbsorbedInLogOrder
  BY DEF IInv
<1>2. TypeOK'
  BY <1>1 DEF TypeOK, SameUnits, SameEffects, PassesTyped
<1>3. AbsorbedInLogOrder' /\ MemoryOK'
  BY <1>1 DEF AbsorbedInLogOrder, MemoryOK, CoherentMemory, SameEffects
<1>4. LogOK'
  BY <1>1 DEF LogOK, SameUnits, SameEffects
<1>5. HandedOffOnce'
  <2>1. receipts \subseteq DOMAIN log /\ UNCHANGED <<receipts, handed>>
    BY <1>1 DEF TypeOK, SameEffects
  <2>2. \A u \in receipts : log'[u].capture = log[u].capture
    BY <2>1 DEF SameUnits
  <2> QED
    BY <1>1, <2>1, <2>2 DEF HandedOffOnce, Handoffs
<1> QED
  BY <1>2, <1>3, <1>4, <1>5 DEF IInv

\* A step of one pass of that kind.
LEMMA QuietStep ==
  ASSUME IInv, NEW i \in Instances,
         SameUnits, SameEffects, fault' \in [Instances -> BOOLEAN],
         OnlyPass(i), PassOK(i)'
  PROVE  IInv'
<1>1. PassesOK'
  BY OtherPasses DEF IInv, SameUnits, SameEffects, OnlyPass
<1> QED
  BY <1>1, SameDatabases DEF OnlyPass

\* Ending the pass.
LEMMA EndPassFacts ==
  ASSUME TypeOK, NEW i \in Instances, EndPass(i)
  PROVE  OnlyPass(i) /\ PassOK(i)'
<1>1. /\ pc' = [pc EXCEPT ![i] = "idle"]
      /\ listed' = [listed EXCEPT ![i] = {}]
      /\ cur' = cur /\ known' = known
  BY DEF EndPass
<1>2. OnlyPass(i)
  BY <1>1 DEF OnlyPass, PassesTyped, TypeOK, Steps
<1>3. pc'[i] = "idle" /\ listed'[i] = {}
  BY <1>1 DEF TypeOK
<1> QED
  BY <1>2, <1>3 DEF PassOK, Busy

\* fail_work() and the end of the pass.
LEMMA FailFacts ==
  ASSUME TypeOK, NEW i \in Instances, Fail(i), cur[i] \in DOMAIN log
  PROVE  SameUnits /\ OnlyPass(i) /\ PassOK(i)'
<1>1. OnlyPass(i) /\ PassOK(i)'
  BY EndPassFacts DEF Fail
<1>2. log' = log \/ log' = [log EXCEPT ![cur[i]].due = FALSE]
  BY DEF Fail
<1>3. SameUnits
  <2>1. CASE log' = log
    BY <2>1 DEF SameUnits, TypeOK
  <2>2. CASE log' = [log EXCEPT ![cur[i]].due = FALSE]
    <3> DEFINE e == [log[cur[i]] EXCEPT !.due = FALSE]
    <3>1. log[cur[i]] \in Entries
      BY Log
    <3>2. e \in Entries /\ e.capture = log[cur[i]].capture /\ e.done = log[cur[i]].done
      BY <3>1 DEF Entries
    <3>3. log' = [log EXCEPT ![cur[i]] = e]
      BY <2>2
    <3> HIDE DEF e
    <3> QED
      BY <3>2, <3>3, Entry DEF SameUnits
  <2> QED
    BY <1>2, <2>1, <2>2
<1> QED
  BY <1>1, <1>3

-----------------------------------------------------------------------------
(* Steps of a pass                                                         *)

\* pending_units: what is older than a listed unit is confirmed or listed.
LEMMA BeginKeeps ==
  ASSUME IInv, NEW i \in Instances, Begin(i) PROVE IInv'
<1>1. TypeOK /\ LogOK
  BY DEF IInv
<1>2. /\ pc' = [pc EXCEPT ![i] = "scan"] /\ listed' = [listed EXCEPT ![i] = Oldest]
      /\ UNCHANGED <<log, receipts, revision, disk, queue, handed, up, fault, rev,
                     mem, cur, known>>
  BY DEF Begin, tasksDb, service
<1>3. Oldest \subseteq DOMAIN log
  BY DEF Oldest, Pending
<1>4. SameUnits /\ SameEffects /\ OnlyPass(i) /\ fault' \in [Instances -> BOOLEAN]
  BY <1>1, <1>2, <1>3 DEF SameUnits, SameEffects, OnlyPass, PassesTyped, TypeOK, Steps
<1>5. ASSUME NEW u \in Oldest, NEW v \in 1 .. u - 1 PROVE v \in Oldest \/ v \in receipts
  <2>1. u \in DOMAIN log /\ v \in DOMAIN log /\ u \in Pending
    BY <1>1, <1>5 DEF Oldest, Pending, TypeOK
  <2>2. SUFFICES ASSUME v \in Pending PROVE v \in Oldest
    BY <1>1, <2>1 DEF LogOK, Pending
  <2> DEFINE V == {w \in Pending : w < v}
             U == {w \in Pending : w < u}
  <2>3. IsFiniteSet(U)
    <3>1. IsFiniteSet(1 .. Len(log)) /\ U \subseteq 1 .. Len(log)
      BY <1>1, Log, FS_Interval DEF Pending
    <3> QED
      BY <3>1, FS_Subset
  <2>4. V \subseteq U
    BY <1>1, <2>1 DEF Pending, TypeOK
  <2>5. Cardinality(V) <= Cardinality(U) /\ Cardinality(V) \in Nat /\ Cardinality(U) \in Nat
    BY <2>3, <2>4, FS_Subset, FS_CardinalityType
  <2>6. Cardinality(U) < Limit
    BY <1>5 DEF Oldest
  <2> HIDE DEF V, U
  <2>7. Cardinality(V) < Limit
    BY <2>5, <2>6, ConstantsAssumption
  <2> QED
    BY <2>2, <2>7 DEF Oldest, V
<1>6. PassOK(i)'
  <2>1. pc'[i] = "scan" /\ listed'[i] = Oldest /\ receipts' = receipts
    BY <1>1, <1>2 DEF TypeOK
  <2> QED
    BY <2>1, <1>5 DEF PassOK, Busy
<1> QED
  BY <1>4, <1>6, QuietStep

\* process_pending_units: the oldest listed unit has no older one left to absorb.
LEMMA PickKeeps ==
  ASSUME IInv, NEW i \in Instances, Pick(i) PROVE IInv'
<1>1. TypeOK /\ PassOK(i)
  BY DEF IInv, PassesOK
<1>2. PICK u \in listed[i] :
        /\ IsNext(i, u)
        /\ IF BackingOff(u) THEN EndPass(i)
           ELSE /\ listed' = [listed EXCEPT ![i] = @ \ {u}]
                /\ cur' = [cur EXCEPT ![i] = u]
                /\ known' = [known EXCEPT ![i] = log[u].result]
                /\ pc' = [pc EXCEPT ![i] = "prepare"]
  BY DEF Pick
<1>3. /\ pc[i] = "scan"
      /\ UNCHANGED <<log, receipts, revision, disk, queue, handed, up, fault, rev, mem>>
  BY DEF Pick, tasksDb, service
<1>4. SameUnits /\ SameEffects /\ fault' \in [Instances -> BOOLEAN]
  BY <1>1, <1>3 DEF SameUnits, SameEffects, TypeOK
<1>5. CASE BackingOff(u)
  BY <1>1, <1>2, <1>4, <1>5, EndPassFacts, QuietStep
<1>6. CASE ~BackingOff(u)
  <2>1. u \in DOMAIN log /\ u \in Nat /\ log[u].result \in BOOLEAN
    <3>1. u \in DOMAIN log
      BY <1>1, <1>2 DEF TypeOK
    <3> QED
      BY <1>1, <3>1, Log DEF Entries
  <2>2. OnlyPass(i)
    <3>1. pc' \in [Instances -> Steps] /\ cur' \in [Instances -> Nat]
      BY <1>1, <1>2, <1>6, <2>1 DEF TypeOK, Steps
    <3>2. known' \in [Instances -> BOOLEAN]
      BY <1>1, <1>2, <1>6, <2>1 DEF TypeOK
    <3>3. listed' \in [Instances -> SUBSET (DOMAIN log)]
      <4> DEFINE S == SUBSET (DOMAIN log)
      <4>1. listed \in [Instances -> S] /\ listed' = [listed EXCEPT ![i] = @ \ {u}]
        BY <1>1, <1>2, <1>6 DEF TypeOK
      <4>2. listed[i] \ {u} \in S
        BY <4>1
      <4> HIDE DEF S
      <4>3. listed' \in [Instances -> S]
        BY <4>1, <4>2
      <4> QED
        BY <4>3 DEF S
    <3> QED
      BY <1>1, <1>2, <1>6, <3>1, <3>2, <3>3 DEF OnlyPass, PassesTyped, TypeOK
  <2>3. /\ pc'[i] = "prepare" /\ listed'[i] = listed[i] \ {u} /\ cur'[i] = u
        /\ UNCHANGED <<log, receipts>>
    BY <1>1, <1>2, <1>3, <1>6 DEF TypeOK
  <2>4. \A v \in 1 .. u - 1 : v \in receipts
    <3> SUFFICES ASSUME NEW v \in 1 .. u - 1 PROVE v \in receipts
      OBVIOUS
    <3>1. v \in listed[i] \/ v \in receipts
      BY <1>1, <1>3 DEF PassOK, Busy
    <3>2. v \notin listed[i]
      BY <1>2, <2>1 DEF IsNext
    <3> QED
      BY <3>1, <3>2
  <2>5. \A w \in listed'[i] : \A v \in 1 .. w - 1 :
          v \in listed'[i] \/ v \in receipts \/ v = u
    BY <1>1, <1>3, <2>3 DEF PassOK, Busy
  <2>6. PassOK(i)'
    BY <2>1, <2>3, <2>4, <2>5 DEF PassOK, Busy
  <2> QED
    BY <1>4, <2>2, <2>6, QuietStep
<1> QED
  BY <1>5, <1>6

\* A pass that has reached the end of its list.
LEMMA PassDoneKeeps ==
  ASSUME IInv, NEW i \in Instances, PassDone(i) PROVE IInv'
<1>1. TypeOK /\ EndPass(i)
      /\ UNCHANGED <<log, receipts, revision, disk, queue, handed, up, fault, rev, mem>>
  BY DEF IInv, PassDone, tasksDb, service
<1>2. SameUnits /\ SameEffects /\ fault' \in [Instances -> BOOLEAN]
  BY <1>1 DEF SameUnits, SameEffects, TypeOK
<1> QED
  BY <1>1, <1>2, EndPassFacts, QuietStep

\* A step within the work on one unit: only its place in process_unit moves.
LEMMA InUnit ==
  ASSUME IInv, NEW i \in Instances, pc[i] \in Busy, NEW step \in Busy,
         pc' = [pc EXCEPT ![i] = step], UNCHANGED <<listed, cur, known, receipts>>,
         SameUnits, step = "finish" => cur[i] \in receipts
  PROVE  OnlyPass(i) /\ PassOK(i)'
<1>1. TypeOK /\ PassOK(i)
  BY DEF IInv, PassesOK
<1>2. OnlyPass(i)
  BY <1>1 DEF OnlyPass, PassesTyped, TypeOK, Busy, Steps
<1>3. pc'[i] = step /\ DOMAIN log' = DOMAIN log
  BY <1>1 DEF TypeOK, SameUnits
<1> QED
  BY <1>1, <1>2, <1>3 DEF PassOK, Busy

\* process_unit up to its transaction.
LEMMA PrepareKeeps ==
  ASSUME IInv, NEW i \in Instances, Prepare(i) \/ SaveResult(i) \/ Replay(i) PROVE IInv'
<1>1. TypeOK /\ PassOK(i) /\ pc[i] \in Busy /\ cur[i] \in DOMAIN log
  BY DEF IInv, PassesOK, PassOK, Prepare, SaveResult, Replay, Busy
<1>2. PICK step \in Busy :
        /\ pc' = [pc EXCEPT ![i] = step]
        /\ step = "finish" => cur[i] \in receipts
  BY DEF Prepare, SaveResult, Replay, Busy
<1>3. /\ UNCHANGED <<receipts, revision, disk, queue, handed, up, fault, rev, mem,
                     listed, cur, known>>
      /\ \/ log' = log
         \/ log' = [log EXCEPT ![cur[i]].result = TRUE, ![cur[i]].due = TRUE]
  BY DEF Prepare, SaveResult, Replay, tasksDb, service
<1>4. SameUnits
  <2>1. CASE log' = log
    BY <1>1, <2>1 DEF SameUnits, TypeOK
  <2>2. CASE log' = [log EXCEPT ![cur[i]].result = TRUE, ![cur[i]].due = TRUE]
    <3> DEFINE e == [log[cur[i]] EXCEPT !.result = TRUE, !.due = TRUE]
    <3>1. log[cur[i]] \in Entries
      BY <1>1, Log
    <3>2. e \in Entries /\ e.capture = log[cur[i]].capture /\ e.done = log[cur[i]].done
      BY <3>1 DEF Entries
    <3>3. log' = [log EXCEPT ![cur[i]] = e]
      BY <1>1, <2>2
    <3> HIDE DEF e
    <3> QED
      BY <1>1, <3>2, <3>3, Entry DEF SameUnits
  <2> QED
    BY <1>3, <2>1, <2>2
<1>5. SameEffects /\ fault' \in [Instances -> BOOLEAN]
  BY <1>1, <1>3 DEF SameEffects, TypeOK
<1>6. OnlyPass(i) /\ PassOK(i)'
  BY <1>1, <1>2, <1>3, <1>4, InUnit
<1> QED
  BY <1>4, <1>5, <1>6, QuietStep

\* Every failure that rolls its transaction back.
LEMMA FailureKeeps ==
  ASSUME IInv, NEW i \in Instances, SaveRefused(i) \/ ApplyRefused(i) \/ Fails(i)
  PROVE  IInv'
<1>1. TypeOK /\ Fail(i) /\ cur[i] \in DOMAIN log
  BY DEF IInv, PassesOK, PassOK, SaveRefused, ApplyRefused, Fails, Busy
<1>2. /\ UNCHANGED <<receipts, revision, disk, queue, handed, up, rev, mem>>
      /\ fault' = fault \/ fault' = [fault EXCEPT ![i] = @ \/ rev[i] # revision]
  BY DEF SaveRefused, ApplyRefused, Fails, tasksDb, service
<1>3. SameEffects
  BY <1>2 DEF SameEffects
<1>4. fault' \in [Instances -> BOOLEAN]
  BY <1>1, <1>2 DEF TypeOK
<1> QED
  BY <1>1, <1>3, <1>4, FailFacts, QuietStep

\* apply_unit: the unit is the next one the engine has to absorb.
LEMMA NextUnit ==
  ASSUME IInv, NEW i \in Instances, pc[i] = "apply", cur[i] \notin receipts
  PROVE  cur[i] = Len(disk) + 1 /\ cur[i] \in DOMAIN log
<1>1. /\ TypeOK /\ AbsorbedInLogOrder /\ cur[i] \in DOMAIN log
      /\ \A v \in 1 .. cur[i] - 1 : v \in receipts
  BY DEF IInv, PassesOK, PassOK, Busy
<1>2. Len(disk) \in Nat /\ cur[i] \in Nat /\ cur[i] >= 1 /\ receipts = 1 .. Len(disk)
  BY <1>1 DEF TypeOK, AbsorbedInLogOrder
<1>3. cur[i] > Len(disk)
  BY <1>2
<1>4. ~(cur[i] > Len(disk) + 1)
  BY <1>1, <1>2
<1> QED
  BY <1>1, <1>2, <1>3, <1>4

\* finish_work: the unit that is confirmed has its receipt.
LEMMA FinishKeeps ==
  ASSUME IInv, NEW i \in Instances, Finish(i) PROVE IInv'
<1>1. /\ TypeOK /\ PassOK(i) /\ pc[i] = "finish"
      /\ cur[i] \in DOMAIN log /\ cur[i] \in receipts
  BY DEF IInv, PassesOK, PassOK, Finish, Busy
<1>2. /\ log' = [log EXCEPT ![cur[i]].done = TRUE, ![cur[i]].due = TRUE]
      /\ UNCHANGED <<receipts, revision, disk, queue, handed, up, fault, rev, mem>>
      /\ \/ pc' = [pc EXCEPT ![i] = "scan"] /\ UNCHANGED <<listed, cur, known>>
         \/ EndPass(i)
  BY DEF Finish, tasksDb, service
<1>3. SameUnits
  <2> DEFINE e == [log[cur[i]] EXCEPT !.done = TRUE, !.due = TRUE]
  <2>1. log[cur[i]] \in Entries
    BY <1>1, Log
  <2>2. e \in Entries /\ e.capture = log[cur[i]].capture
    BY <2>1 DEF Entries
  <2>3. log' = [log EXCEPT ![cur[i]] = e]
    BY <1>1, <1>2
  <2> HIDE DEF e
  <2> QED
    BY <1>1, <2>2, <2>3, Entry DEF SameUnits
<1>4. SameEffects /\ fault' \in [Instances -> BOOLEAN]
  BY <1>1, <1>2 DEF SameEffects, TypeOK
<1>5. OnlyPass(i) /\ PassOK(i)'
  <2>1. CASE pc' = [pc EXCEPT ![i] = "scan"] /\ UNCHANGED <<listed, cur, known>>
    <3>1. OnlyPass(i)
      BY <1>1, <2>1 DEF OnlyPass, PassesTyped, TypeOK, Steps
    <3>2. pc'[i] = "scan" /\ receipts' = receipts
      BY <1>1, <1>2, <2>1 DEF TypeOK
    <3> QED
      BY <1>1, <2>1, <3>1, <3>2 DEF PassOK, Busy
  <2> QED
    BY <1>1, <1>2, <2>1, EndPassFacts
<1> QED
  BY <1>3, <1>4, <1>5, QuietStep

-----------------------------------------------------------------------------
(* The transaction                                                         *)

\* What apply_unit commits, whether or not its acknowledgement arrives.
LEMMA Commit ==
  ASSUME IInv, NEW i \in Instances, Apply(i)
  PROVE  /\ cur[i] = Len(disk) + 1 /\ cur[i] \in DOMAIN log
         /\ disk' = Append(disk, cur[i]) /\ mem[i] = disk
         /\ receipts' = receipts \cup {cur[i]}
<1>1. CoherentMemory /\ up[i] /\ rev[i] = revision /\ pc[i] = "apply"
      /\ cur[i] \notin receipts
  BY DEF IInv, MemoryOK, Apply, Healthy
<1>2. disk' = Append(mem[i], cur[i]) /\ receipts' = receipts \cup {cur[i]}
  BY DEF Apply
<1> QED
  BY <1>1, <1>2, NextUnit DEF CoherentMemory

\* What becomes of the process that applies: it knows that the transaction has
\* committed, or it stops itself.
LEMMA Outcome ==
  ASSUME IInv, NEW i \in Instances, Apply(i)
  PROVE  /\ SameUnits /\ OnlyPass(i) /\ PassOK(i)'
         /\ fault' \in [Instances -> BOOLEAN]
         /\ \/ /\ rev' = [rev EXCEPT ![i] = revision + 1]
               /\ mem' = [mem EXCEPT ![i] = disk']
            \/ UNCHANGED <<rev, mem>>
<1>1. TypeOK /\ PassOK(i) /\ pc[i] = "apply" /\ cur[i] \in DOMAIN log
  BY DEF IInv, PassesOK, PassOK, Apply, Busy
<1>2. /\ disk' = Append(mem[i], cur[i]) /\ receipts' = receipts \cup {cur[i]}
      /\ \/ /\ rev' = [rev EXCEPT ![i] = revision + 1]
            /\ mem' = [mem EXCEPT ![i] = Append(mem[i], cur[i])]
            /\ pc' = [pc EXCEPT ![i] = "finish"]
            /\ UNCHANGED <<log, fault, listed, cur, known>>
         \/ /\ fault' = [fault EXCEPT ![i] = TRUE]
            /\ Fail(i)
            /\ UNCHANGED <<rev, mem>>
  BY DEF Apply
<1>3. CASE /\ rev' = [rev EXCEPT ![i] = revision + 1]
           /\ mem' = [mem EXCEPT ![i] = Append(mem[i], cur[i])]
           /\ pc' = [pc EXCEPT ![i] = "finish"]
           /\ UNCHANGED <<log, fault, listed, cur, known>>
  <2>1. SameUnits /\ fault' \in [Instances -> BOOLEAN]
    BY <1>1, <1>3 DEF SameUnits, TypeOK
  <2>2. OnlyPass(i)
    BY <1>1, <1>3 DEF OnlyPass, PassesTyped, TypeOK, Steps
  <2>3. pc'[i] = "finish"
    BY <1>1, <1>3 DEF TypeOK
  <2>4. PassOK(i)'
    BY <1>1, <1>2, <1>3, <2>3 DEF PassOK, Busy
  <2>5. mem' = [mem EXCEPT ![i] = disk']
    BY <1>2, <1>3
  <2> QED
    BY <1>3, <2>1, <2>2, <2>4, <2>5
<1>4. CASE fault' = [fault EXCEPT ![i] = TRUE] /\ Fail(i) /\ UNCHANGED <<rev, mem>>
  <2>1. fault' \in [Instances -> BOOLEAN]
    BY <1>1, <1>4 DEF TypeOK
  <2> QED
    BY <1>1, <1>4, <2>1, FailFacts
<1> QED
  BY <1>2, <1>3, <1>4

\* apply_unit, with every outcome of its commit.
LEMMA ApplyKeeps ==
  ASSUME IInv, NEW i \in Instances, Apply(i) PROVE IInv'
<1> DEFINE u == cur[i]
           c == log[u].capture
<1>1. /\ TypeOK /\ AbsorbedInLogOrder /\ MemoryOK /\ LogOK /\ HandedOffOnce
      /\ PassesOK
  BY DEF IInv
<1>2. /\ u = Len(disk) + 1 /\ u \in DOMAIN log
      /\ disk' = Append(disk, u) /\ mem[i] = disk
      /\ receipts' = receipts \cup {u}
  BY Commit
<1>3. /\ SameUnits /\ OnlyPass(i) /\ PassOK(i)' /\ fault' \in [Instances -> BOOLEAN]
      /\ \/ /\ rev' = [rev EXCEPT ![i] = revision + 1]
            /\ mem' = [mem EXCEPT ![i] = disk']
         \/ UNCHANGED <<rev, mem>>
  BY Outcome
<1>4. /\ u \notin receipts /\ rev[i] = revision /\ queue + Handoffs(c) <= Capacity
      /\ queue' = queue + Handoffs(c)
      /\ handed' = [handed EXCEPT ![c] = @ + Handoffs(c)]
      /\ revision' = revision + 1 /\ up' = up
  BY DEF Apply, Fits
<1>5. c \in Captures /\ Handoffs(c) \in 1 .. 2
  BY <1>1, <1>2, Log DEF Entries, Handoffs
<1>6. /\ Len(disk) \in Nat /\ disk' \in Seq(Nat) /\ Len(disk') = Len(disk) + 1
      /\ disk'[u] = u /\ \A n \in 1 .. Len(disk) : disk'[n] = disk[n]
  BY <1>1, <1>2 DEF TypeOK
<1>7. TypeOK'
  <2>1. receipts' \subseteq DOMAIN log'
    BY <1>1, <1>2, <1>3 DEF TypeOK, SameUnits
  <2>2. queue' \in 0 .. Capacity
    BY <1>1, <1>4, <1>5, ConstantsAssumption DEF TypeOK
  <2>3. handed' \in [Captures -> Nat]
    BY <1>1, <1>4, <1>5 DEF TypeOK
  <2>4. revision' \in Nat /\ up' \in [Instances -> BOOLEAN]
    BY <1>1, <1>4 DEF TypeOK
  <2>5. rev' \in [Instances -> Nat]
    <3>1. rev \in [Instances -> Nat] /\ revision + 1 \in Nat
      BY <1>1 DEF TypeOK
    <3> QED
      BY <1>3, <3>1
  <2>6. mem' \in [Instances -> Seq(Nat)]
    BY <1>1, <1>3, <1>6 DEF TypeOK
  <2> QED
    BY <1>3, <1>6, <2>1, <2>2, <2>3, <2>4, <2>5, <2>6
       DEF TypeOK, SameUnits, OnlyPass, PassesTyped
<1>8. AbsorbedInLogOrder'
  BY <1>1, <1>2, <1>6 DEF AbsorbedInLogOrder
<1>9. MemoryOK'
  <2> SUFFICES ASSUME NEW j \in Instances
               PROVE  /\ rev'[j] <= revision'
                      /\ up'[j] /\ rev'[j] = revision' => mem'[j] = disk'
    BY DEF MemoryOK, CoherentMemory
  <2>1. rev[j] \in Nat /\ revision \in Nat /\ rev[j] <= revision
    BY <1>1 DEF TypeOK, MemoryOK
  <2>2. CASE rev'[j] = rev[j]
    BY <1>4, <2>1, <2>2
  <2>3. CASE rev'[j] # rev[j]
    BY <1>1, <1>3, <1>4, <2>1, <2>3 DEF TypeOK
  <2> QED
    BY <2>2, <2>3
<1>10. LogOK'
  BY <1>1, <1>2, <1>3 DEF LogOK, SameUnits
<1>11. HandedOffOnce'
  <2> SUFFICES ASSUME NEW d \in Captures
               PROVE  handed'[d] = IF \E v \in receipts' : log'[v].capture = d
                                   THEN Handoffs(d) ELSE 0
    BY DEF HandedOffOnce, Handoffs
  <2>1. receipts \subseteq DOMAIN log /\ handed \in [Captures -> Nat]
    BY <1>1 DEF TypeOK
  <2>2. \A v \in receipts' : log'[v].capture = log[v].capture
    BY <1>2, <1>3, <2>1 DEF SameUnits
  <2>3. handed[d] = IF \E v \in receipts : log[v].capture = d THEN Handoffs(d) ELSE 0
    BY <1>1 DEF HandedOffOnce
  <2>4. CASE d = c
    <3>1. ~ \E v \in receipts : log[v].capture = d
      BY <1>1, <1>2, <1>4, <2>1, <2>4 DEF LogOK
    <3>2. handed'[d] = Handoffs(d)
      BY <1>4, <1>5, <2>1, <2>3, <2>4, <3>1
    <3>3. \E v \in receipts' : log'[v].capture = d
      BY <1>2, <2>2, <2>4
    <3> QED
      BY <3>2, <3>3
  <2>5. CASE d # c
    <3>1. handed'[d] = handed[d]
      BY <1>4, <2>1, <2>5
    <3>2. (\E v \in receipts' : log'[v].capture = d)
            <=> (\E v \in receipts : log[v].capture = d)
      BY <1>2, <2>2, <2>5
    <3> QED
      BY <2>3, <3>1, <3>2
  <2> QED
    BY <2>4, <2>5
<1>12. PassesOK'
  BY <1>1, <1>2, <1>3, OtherPasses DEF SameUnits, OnlyPass
<1> QED
  BY <1>7, <1>8, <1>9, <1>10, <1>11, <1>12 DEF IInv

-----------------------------------------------------------------------------
(* Around the pipeline                                                     *)

\* append_unit: a request id that is bound already is not bound again.
LEMMA AcceptKeeps ==
  ASSUME IInv, NEW i \in Instances, NEW c \in Captures, Accept(i, c) PROVE IInv'
<1> DEFINE e == [capture |-> c, done |-> FALSE, result |-> FALSE, due |-> TRUE]
<1>1. /\ TypeOK /\ AbsorbedInLogOrder /\ MemoryOK /\ LogOK /\ HandedOffOnce
      /\ PassesOK
  BY DEF IInv
<1>2. /\ \A u \in DOMAIN log : log[u].capture # c
      /\ log' = Append(log, e)
      /\ UNCHANGED <<receipts, revision, disk, queue, handed, up, fault, rev, mem,
                     pc, listed, cur, known>>
  BY DEF Accept, tasksDb, service, pass
<1>3. e \in Entries /\ e.capture = c /\ ~e.done
  BY DEF Entries
<1>4. log \in Seq(Entries) /\ Len(log) \in Nat /\ DOMAIN log = 1 .. Len(log)
  BY <1>1, Log DEF TypeOK
<1> HIDE DEF e
<1>5. /\ log' \in Seq(Entries) /\ Len(log') = Len(log) + 1
      /\ log'[Len(log) + 1] = e /\ \A u \in 1 .. Len(log) : log'[u] = log[u]
  BY <1>2, <1>3, <1>4, AppendProperties
<1>6. DOMAIN log' = DOMAIN log \cup {Len(log) + 1}
  BY <1>4, <1>5, LenProperties
<1>7. TypeOK'
  <2>1. receipts' \subseteq DOMAIN log'
    BY <1>1, <1>2, <1>6 DEF TypeOK
  <2>2. listed' \in [Instances -> SUBSET (DOMAIN log')]
    BY <1>1, <1>2, <1>6 DEF TypeOK
  <2> QED
    BY <1>1, <1>2, <1>5, <2>1, <2>2 DEF TypeOK
<1>8. AbsorbedInLogOrder' /\ MemoryOK'
  BY <1>1, <1>2 DEF AbsorbedInLogOrder, MemoryOK, CoherentMemory
<1>9. LogOK'
  <2>1. \A u \in DOMAIN log' : log'[u].done => u \in receipts'
    BY <1>1, <1>2, <1>3, <1>4, <1>5, <1>6 DEF LogOK
  <2>2. \A u, v \in DOMAIN log' : log'[u].capture = log'[v].capture => u = v
    BY <1>1, <1>2, <1>3, <1>4, <1>5, <1>6 DEF LogOK
  <2> QED
    BY <2>1, <2>2 DEF LogOK
<1>10. HandedOffOnce'
  <2>1. \A u \in receipts : log'[u] = log[u]
    BY <1>1, <1>4, <1>5 DEF TypeOK
  <2>2. ASSUME NEW d \in Captures
        PROVE  (\E u \in receipts' : log'[u].capture = d)
                 <=> (\E u \in receipts : log[u].capture = d)
    BY <1>2, <2>1
  <2> QED
    BY <1>1, <1>2, <2>2 DEF HandedOffOnce, Handoffs
<1>11. PassesOK'
  BY <1>1, <1>2, <1>6 DEF PassesOK, PassOK
<1> QED
  BY <1>7, <1>8, <1>9, <1>10, <1>11 DEF IInv

\* Any other effect: it writes the state that the process holds, which is the
\* one on the disk.
LEMMA OtherEffectKeeps ==
  ASSUME IInv, NEW i \in Instances, OtherEffect(i) PROVE IInv'
<1>1. /\ TypeOK /\ AbsorbedInLogOrder /\ MemoryOK /\ LogOK /\ HandedOffOnce
      /\ PassesOK
  BY DEF IInv
<1>2. /\ up[i] /\ rev[i] = revision
      /\ revision' = revision + 1 /\ disk' = mem[i]
      /\ queue' \in 0 .. Capacity
      /\ \/ rev' = [rev EXCEPT ![i] = revision + 1] /\ UNCHANGED fault
         \/ fault' = [fault EXCEPT ![i] = TRUE] /\ UNCHANGED rev
      /\ UNCHANGED <<log, receipts, handed, up, mem, pc, listed, cur, known>>
  BY <1>1 DEF OtherEffect, Healthy, pass, TypeOK
<1>3. disk' = disk /\ mem[i] = disk
  BY <1>1, <1>2 DEF MemoryOK, CoherentMemory
<1>4. TypeOK'
  <2>1. fault' \in [Instances -> BOOLEAN] /\ rev' \in [Instances -> Nat]
    <3>1. rev \in [Instances -> Nat] /\ revision + 1 \in Nat
          /\ fault \in [Instances -> BOOLEAN]
      BY <1>1 DEF TypeOK
    <3> QED
      BY <1>2, <3>1
  <2>2. revision' \in Nat
    BY <1>1, <1>2 DEF TypeOK
  <2> QED
    BY <1>1, <1>2, <1>3, <2>1, <2>2 DEF TypeOK
<1>5. MemoryOK'
  <2> SUFFICES ASSUME NEW j \in Instances
               PROVE  /\ rev'[j] <= revision'
                      /\ up'[j] /\ rev'[j] = revision' => mem'[j] = disk'
    BY DEF MemoryOK, CoherentMemory
  <2>1. rev[j] \in Nat /\ revision \in Nat /\ rev[j] <= revision
    BY <1>1 DEF TypeOK, MemoryOK
  <2>2. CASE rev'[j] = rev[j]
    BY <1>2, <2>1, <2>2
  <2>3. CASE rev'[j] # rev[j]
    BY <1>1, <1>2, <1>3, <2>1, <2>3 DEF TypeOK
  <2> QED
    BY <2>2, <2>3
<1>6. AbsorbedInLogOrder' /\ LogOK' /\ HandedOffOnce' /\ PassesOK'
  BY <1>1, <1>2, <1>3
     DEF AbsorbedInLogOrder, LogOK, HandedOffOnce, Handoffs, PassesOK, PassOK
<1> QED
  BY <1>4, <1>5, <1>6 DEF IInv

\* A task leaves the queue.
LEMMA TaskSettlesKeeps ==
  ASSUME IInv, TaskSettles PROVE IInv'
<1>1. /\ TypeOK /\ AbsorbedInLogOrder /\ MemoryOK /\ LogOK /\ HandedOffOnce
      /\ PassesOK
  BY DEF IInv
<1>2. /\ queue > 0 /\ queue' = queue - 1
      /\ UNCHANGED <<log, receipts, revision, disk, handed, up, fault, rev, mem,
                     pc, listed, cur, known>>
  BY DEF TaskSettles, service, pass
<1>3. TypeOK'
  BY <1>1, <1>2, ConstantsAssumption DEF TypeOK
<1> QED
  BY <1>1, <1>2, <1>3 DEF IInv, AbsorbedInLogOrder, MemoryOK, CoherentMemory,
     LogOK, HandedOffOnce, Handoffs, PassesOK, PassOK

\* recover_or_init loads the durable engine state.
LEMMA StartKeeps ==
  ASSUME IInv, NEW i \in Instances, Start(i) PROVE IInv'
<1>1. /\ TypeOK /\ AbsorbedInLogOrder /\ MemoryOK /\ LogOK /\ HandedOffOnce
      /\ PassesOK
  BY DEF IInv
<1>2. /\ up' = [up EXCEPT ![i] = TRUE] /\ rev' = [rev EXCEPT ![i] = revision]
      /\ mem' = [mem EXCEPT ![i] = disk]
      /\ UNCHANGED <<log, receipts, revision, disk, queue, handed, fault,
                     pc, listed, cur, known>>
  BY DEF Start, tasksDb, pass
<1>3. TypeOK'
  <2>1. up' \in [Instances -> BOOLEAN] /\ rev' \in [Instances -> Nat]
        /\ mem' \in [Instances -> Seq(Nat)]
    BY <1>1, <1>2 DEF TypeOK
  <2> QED
    BY <1>1, <1>2, <2>1 DEF TypeOK
<1>4. MemoryOK'
  BY <1>1, <1>2 DEF MemoryOK, CoherentMemory, TypeOK
<1>5. AbsorbedInLogOrder' /\ LogOK' /\ HandedOffOnce' /\ PassesOK'
  BY <1>1, <1>2
     DEF AbsorbedInLogOrder, LogOK, HandedOffOnce, Handoffs, PassesOK, PassOK
<1> QED
  BY <1>3, <1>4, <1>5 DEF IInv

\* A process that dies takes its memory and its pass with it.
LEMMA CrashKeeps ==
  ASSUME IInv, NEW i \in Instances, Crash(i) PROVE IInv'
<1>1. /\ TypeOK /\ AbsorbedInLogOrder /\ MemoryOK /\ LogOK /\ HandedOffOnce
      /\ PassesOK
  BY DEF IInv
<1>2. /\ up' = [up EXCEPT ![i] = FALSE] /\ fault' = [fault EXCEPT ![i] = FALSE]
      /\ rev' = [rev EXCEPT ![i] = 0] /\ mem' = [mem EXCEPT ![i] = << >>]
      /\ pc' = [pc EXCEPT ![i] = "idle"] /\ listed' = [listed EXCEPT ![i] = {}]
      /\ cur' = [cur EXCEPT ![i] = 0] /\ known' = [known EXCEPT ![i] = FALSE]
      /\ UNCHANGED <<log, receipts, revision, disk, queue, handed>>
  BY DEF Crash, tasksDb
<1>3. TypeOK'
  <2>1. /\ up' \in [Instances -> BOOLEAN] /\ fault' \in [Instances -> BOOLEAN]
        /\ known' \in [Instances -> BOOLEAN]
    BY <1>1, <1>2 DEF TypeOK
  <2>2. rev' \in [Instances -> Nat] /\ cur' \in [Instances -> Nat]
    BY <1>1, <1>2 DEF TypeOK
  <2>3. mem' \in [Instances -> Seq(Nat)]
    <3>1. << >> \in Seq(Nat)
      OBVIOUS
    <3> QED
      BY <1>1, <1>2, <3>1 DEF TypeOK
  <2>4. pc' \in [Instances -> Steps] /\ listed' \in [Instances -> SUBSET (DOMAIN log)]
    BY <1>1, <1>2 DEF TypeOK, Steps
  <2> QED
    BY <1>1, <1>2, <2>1, <2>2, <2>3, <2>4 DEF TypeOK
<1>4. MemoryOK'
  BY <1>1, <1>2 DEF MemoryOK, CoherentMemory, TypeOK
<1>5. AbsorbedInLogOrder' /\ LogOK' /\ HandedOffOnce'
  BY <1>1, <1>2 DEF AbsorbedInLogOrder, LogOK, HandedOffOnce, Handoffs
<1>6. PassesOK'
  <2>1. pc'[i] = "idle" /\ listed'[i] = {}
    BY <1>1, <1>2 DEF TypeOK
  <2>2. PassOK(i)'
    BY <2>1 DEF PassOK, Busy
  <2>3. \A j \in Instances \ {i} :
          pc'[j] = pc[j] /\ listed'[j] = listed[j] /\ cur'[j] = cur[j]
    BY <1>1, <1>2 DEF TypeOK
  <2> QED
    BY <1>1, <1>2, <2>2, <2>3, OtherPasses
<1> QED
  BY <1>3, <1>4, <1>5, <1>6 DEF IInv

\* A backoff runs out.
LEMMA BackoffKeeps ==
  ASSUME IInv, BackoffElapses PROVE IInv'
<1>1. TypeOK /\ PassesOK
  BY DEF IInv
<1>2. PICK u \in DOMAIN log : log' = [log EXCEPT ![u].due = TRUE]
  BY DEF BackoffElapses
<1>3. UNCHANGED <<receipts, revision, disk, queue, handed, up, fault, rev, mem,
                  pc, listed, cur, known>>
  BY DEF BackoffElapses, tasksDb, service, pass
<1>4. SameUnits
  <2> DEFINE e == [log[u] EXCEPT !.due = TRUE]
  <2>1. log[u] \in Entries
    BY <1>1, Log
  <2>2. e \in Entries /\ e.capture = log[u].capture /\ e.done = log[u].done
    BY <2>1 DEF Entries
  <2>3. log' = [log EXCEPT ![u] = e]
    BY <1>2
  <2> HIDE DEF e
  <2> QED
    BY <1>1, <2>2, <2>3, Entry DEF SameUnits
<1>5. SameEffects /\ fault' \in [Instances -> BOOLEAN] /\ PassesTyped
  BY <1>1, <1>3 DEF SameEffects, PassesTyped, TypeOK
<1>6. PassesOK'
  BY <1>1, <1>3, <1>4 DEF PassesOK, PassOK, SameUnits
<1> QED
  BY <1>4, <1>5, <1>6, SameDatabases

-----------------------------------------------------------------------------
(* The invariant                                                           *)

\* The empty log, the fresh databases and no process running.
LEMMA InitInvariant == Init => IInv
<1> SUFFICES ASSUME Init PROVE IInv
  OBVIOUS
<1>1. log \in Seq(Entries) /\ DOMAIN log = {} /\ disk \in Seq(Nat) /\ Len(disk) = 0
  BY DEF Init
<1>2. TypeOK
  BY <1>1, ConstantsAssumption DEF Init, TypeOK, Steps
<1>3. AbsorbedInLogOrder /\ LogOK
  BY <1>1 DEF Init, AbsorbedInLogOrder, LogOK
<1>4. MemoryOK
  BY DEF Init, MemoryOK, CoherentMemory
<1>5. HandedOffOnce
  BY DEF Init, HandedOffOnce
<1>6. PassesOK
  BY DEF Init, PassesOK, PassOK, Busy
<1> QED
  BY <1>2, <1>3, <1>4, <1>5, <1>6 DEF IInv

\* Every step of every process preserves it.
LEMMA StepInvariant == IInv /\ [Next]_vars => IInv'
<1> SUFFICES ASSUME IInv, [Next]_vars PROVE IInv'
  OBVIOUS
<1>1. CASE UNCHANGED vars
  BY <1>1 DEF vars, IInv, TypeOK, AbsorbedInLogOrder, MemoryOK, CoherentMemory,
     LogOK, HandedOffOnce, Handoffs, PassesOK, PassOK
<1>2. ASSUME NEW i \in Instances, PassStep(i) PROVE IInv'
  BY <1>2, BeginKeeps, PickKeeps, PassDoneKeeps, PrepareKeeps, FailureKeeps,
     ApplyKeeps, FinishKeeps DEF PassStep
<1>3. ASSUME NEW i \in Instances,
             \/ \E c \in Captures : Accept(i, c)
             \/ Fails(i) \/ OtherEffect(i) \/ Start(i) \/ Crash(i)
      PROVE  IInv'
  BY <1>3, AcceptKeeps, FailureKeeps, OtherEffectKeeps, StartKeeps, CrashKeeps
<1>4. CASE TaskSettles \/ BackoffElapses
  BY <1>4, TaskSettlesKeeps, BackoffKeeps
<1> QED
  BY <1>1, <1>2, <1>3, <1>4 DEF Next

\* The inductive invariant holds in every reachable state.
THEOREM Invariance == Spec => []IInv
<1> QED
  BY InitInvariant, StepInvariant, PTL DEF Spec

\* The types of the two databases, the processes and their passes.
THEOREM TypeCorrect == Spec => []TypeOK
<1>1. IInv => TypeOK
  BY DEF IInv
<1> QED
  BY <1>1, Invariance, PTL

\* No unit is absorbed twice or before an older one, whatever overtakes, fails,
\* backs off or dies.
THEOREM AbsorbsInOrder == Spec => []AbsorbedInLogOrder
<1>1. IInv => AbsorbedInLogOrder
  BY DEF IInv
<1> QED
  BY <1>1, Invariance, PTL

\* A process that may write the checkpoint holds what the disk holds.
THEOREM Coherent == Spec => []CoherentMemory
<1>1. IInv => CoherentMemory
  BY DEF IInv, MemoryOK
<1> QED
  BY <1>1, Invariance, PTL

\* The follow-up tasks of a turn are enqueued once, with its effect.
THEOREM HandsOffOnce == Spec => []HandedOffOnce
<1>1. IInv => HandedOffOnce
  BY DEF IInv
<1> QED
  BY <1>1, Invariance, PTL

-----------------------------------------------------------------------------
(* Implementing UnitPromise                                                *)

Closed == DOMAIN log \ Pending

\* Neither the log grows nor an entry is closed.
SameClosed ==
  /\ DOMAIN log' = DOMAIN log
  /\ \A u \in DOMAIN log : log'[u].done = log[u].done

\* The closed entries are finitely many, and all of them absorbed.
LEMMA ClosedFacts ==
  ASSUME IInv
  PROVE  /\ IsFiniteSet(Closed) /\ Cardinality(Closed) \in Nat
         /\ Closed \subseteq 1 .. Len(disk)
         /\ Len(disk) \in Nat
         /\ Closed = {u \in DOMAIN log : log[u].done}
<1>1. TypeOK /\ LogOK /\ AbsorbedInLogOrder
  BY DEF IInv
<1>2. Len(disk) \in Nat
  BY <1>1 DEF TypeOK
<1>3. Closed = {u \in DOMAIN log : log[u].done}
  BY DEF Closed, Pending
<1>4. Closed \subseteq 1 .. Len(disk)
  BY <1>1, <1>3 DEF LogOK, AbsorbedInLogOrder
<1>5. IsFiniteSet(Closed)
  <2>1. 0 \in Int /\ 1 \in Int /\ Len(disk) \in Int
    BY <1>2
  <2>2. IsFiniteSet(1 .. Len(disk))
    BY <2>1, FS_Interval
  <2> QED
    BY <1>4, <2>2, FS_Subset
<1> QED
  BY <1>2, <1>3, <1>4, <1>5, FS_CardinalityType

\* An entry that is rewritten without being closed.
LEMMA EntryNotClosed ==
  ASSUME TypeOK, NEW u \in DOMAIN log, NEW r \in BOOLEAN, NEW d \in BOOLEAN,
         log' = [log EXCEPT ![u].result = r, ![u].due = d]
  PROVE  SameClosed
<1> DEFINE e == [log[u] EXCEPT !.result = r, !.due = d]
<1>1. log[u] \in Entries
  BY Log
<1>2. e \in Entries /\ e.done = log[u].done /\ log' = [log EXCEPT ![u] = e]
  BY <1>1 DEF Entries
<1> HIDE DEF e
<1> QED
  BY <1>2, Entry DEF SameClosed

\* fail_work() closes nothing.
LEMMA FailNotClosed ==
  ASSUME TypeOK, NEW i \in Instances, cur[i] \in DOMAIN log, Fail(i)
  PROVE  SameClosed
<1>1. CASE log' = log
  BY <1>1 DEF SameClosed
<1>2. CASE log' = [log EXCEPT ![cur[i]].due = FALSE]
  <2>1. log[cur[i]] \in Entries
    BY Log
  <2> DEFINE e == [log[cur[i]] EXCEPT !.due = FALSE]
  <2>2. e \in Entries /\ e.done = log[cur[i]].done /\ log' = [log EXCEPT ![cur[i]] = e]
    BY <1>2, <2>1 DEF Entries
  <2> HIDE DEF e
  <2> QED
    BY <2>2, Entry DEF SameClosed
<1> QED
  BY <1>1, <1>2 DEF Fail

\* A step that neither accepts, absorbs nor confirms is a stutter.
LEMMA Stutters ==
  ASSUME IInv, IInv', SameClosed, Len(disk') = Len(disk)
  PROVE  UNCHANGED Promise!vars
<1>1. Closed' = Closed
  BY ClosedFacts DEF SameClosed, Closed, Pending
<1>2. Len(log') = Len(log)
  <2>1. /\ Len(log) \in Nat /\ DOMAIN log = 1 .. Len(log)
        /\ Len(log') \in Nat /\ DOMAIN log' = 1 .. Len(log')
    BY LenProperties DEF IInv, TypeOK
  <2> QED
    BY <2>1 DEF SameClosed
<1> QED
  BY <1>1, <1>2 DEF Promise!vars, Closed

\* append_unit accepts one unit.
LEMMA AcceptImplements ==
  ASSUME IInv, IInv', NEW i \in Instances, NEW c \in Captures, Accept(i, c)
  PROVE  Promise!Accept
<1> DEFINE e == [capture |-> c, done |-> FALSE, result |-> FALSE, due |-> TRUE]
<1>1. log' = Append(log, e) /\ disk' = disk
  BY DEF Accept, tasksDb
<1>2. log \in Seq(Entries) /\ e \in Entries /\ ~e.done
      /\ Len(log) \in Nat /\ DOMAIN log = 1 .. Len(log)
  BY Log DEF IInv, TypeOK, Entries
<1> HIDE DEF e
<1>3. /\ Len(log') = Len(log) + 1 /\ log'[Len(log) + 1] = e
      /\ \A u \in 1 .. Len(log) : log'[u] = log[u]
      /\ log' \in Seq(Entries)
  BY <1>1, <1>2, AppendProperties
<1>4. DOMAIN log' = DOMAIN log \cup {Len(log) + 1}
  BY <1>2, <1>3, LenProperties
<1>5. Closed' = Closed
  BY <1>2, <1>3, <1>4 DEF Closed, Pending
<1> QED
  BY <1>1, <1>3, <1>5 DEF Promise!Accept, Closed

\* apply_unit absorbs one unit, also when its acknowledgement is lost.
LEMMA ApplyImplements ==
  ASSUME IInv, IInv', NEW i \in Instances, Apply(i)
  PROVE  Promise!Absorb
<1>1. /\ cur[i] = Len(disk) + 1 /\ cur[i] \in DOMAIN log
      /\ disk' = Append(disk, cur[i])
  BY Commit
<1>2. TypeOK /\ disk \in Seq(Nat) /\ Len(disk) \in Nat /\ Len(log) \in Nat
      /\ DOMAIN log = 1 .. Len(log) /\ cur[i] \in Nat
  <2>1. TypeOK
    BY DEF IInv
  <2>2. disk \in Seq(Nat) /\ cur[i] \in Nat
    BY <2>1 DEF TypeOK
  <2> QED
    BY <2>1, <2>2, Log, LenProperties
<1>3. Len(disk') = Len(disk) + 1 /\ Len(disk) < Len(log)
  BY <1>1, <1>2, AppendProperties
<1>4. SameClosed
  <2>1. log' = log \/ Fail(i)
    BY DEF Apply
  <2>2. CASE log' = log
    BY <2>2 DEF SameClosed
  <2> QED
    BY <1>1, <1>2, <2>1, <2>2, FailNotClosed
<1>5. Closed' = Closed /\ Len(log') = Len(log)
  <2>1. Closed' = Closed
    BY <1>4 DEF SameClosed, Closed, Pending
  <2>2. Len(log') \in Nat /\ DOMAIN log' = 1 .. Len(log')
    BY LenProperties DEF IInv, TypeOK
  <2> QED
    BY <1>2, <1>4, <2>1, <2>2 DEF SameClosed
<1> QED
  BY <1>3, <1>5 DEF Promise!Absorb, Closed

\* finish_work confirms one unit, or finds it confirmed by another process.
LEMMA FinishImplements ==
  ASSUME IInv, IInv', NEW i \in Instances, Finish(i)
  PROVE  Promise!Confirm \/ UNCHANGED Promise!vars
<1>1. /\ TypeOK /\ cur[i] \in DOMAIN log /\ cur[i] \in receipts
      /\ AbsorbedInLogOrder
  BY DEF IInv, PassesOK, PassOK, Finish, Busy
<1>2. log' = [log EXCEPT ![cur[i]].done = TRUE, ![cur[i]].due = TRUE] /\ disk' = disk
  BY DEF Finish, tasksDb
<1>3. /\ DOMAIN log' = DOMAIN log /\ Len(log') = Len(log) /\ log'[cur[i]].done
      /\ \A u \in DOMAIN log : u # cur[i] => log'[u] = log[u]
  <2> DEFINE e == [log[cur[i]] EXCEPT !.done = TRUE, !.due = TRUE]
  <2>1. log[cur[i]] \in Entries
    BY <1>1, Log
  <2>2. e \in Entries /\ e.done
    BY <2>1 DEF Entries
  <2>3. log' = [log EXCEPT ![cur[i]] = e]
    BY <1>1, <1>2
  <2> HIDE DEF e
  <2> QED
    BY <1>1, <2>2, <2>3, Entry
<1>4. Closed' = Closed \cup {cur[i]}
  BY <1>1, <1>3 DEF Closed, Pending
<1>5. CASE cur[i] \in Closed
  <2>1. Closed' = Closed
    BY <1>4, <1>5
  <2> QED
    BY <1>2, <1>3, <2>1 DEF Promise!vars, Closed
<1>6. CASE cur[i] \notin Closed
  <2>1. Cardinality(Closed') = Cardinality(Closed) + 1
    BY <1>4, <1>6, ClosedFacts, FS_AddElement
  <2>2. Cardinality(Closed) < Len(disk)
    <3>1. Closed' \subseteq 1 .. Len(disk)
      BY <1>1, <1>4, ClosedFacts DEF AbsorbedInLogOrder
    <3>2. IsFiniteSet(1 .. Len(disk)) /\ Cardinality(1 .. Len(disk)) = Len(disk)
      <4>1. Len(disk) \in Nat /\ 1 \in Int /\ Len(disk) \in Int
        BY ClosedFacts
      <4>2. /\ IsFiniteSet(1 .. Len(disk))
            /\ Cardinality(1 .. Len(disk)) = IF 1 > Len(disk) THEN 0 ELSE Len(disk) - 1 + 1
        BY <4>1, FS_Interval
      <4> QED
        BY <4>1, <4>2
    <3>3. Cardinality(Closed') <= Len(disk)
      BY <3>1, <3>2, FS_Subset
    <3> QED
      BY <2>1, <3>3, ClosedFacts
  <2> QED
    BY <1>2, <1>3, <2>1, <2>2 DEF Promise!Confirm, Closed
<1> QED
  BY <1>5, <1>6

\* Every step of the two databases is one of the promise, or a stutter.
LEMMA StepImplements ==
  ASSUME IInv, IInv', [Next]_vars PROVE [Promise!Next]_(Promise!vars)
<1>1. TypeOK /\ PassesOK
  BY DEF IInv
<1>2. ASSUME log' = log, disk' = disk PROVE UNCHANGED Promise!vars
  BY <1>2, Stutters DEF SameClosed
<1>3. CASE UNCHANGED vars
  BY <1>2, <1>3 DEF vars
<1>4. ASSUME NEW i \in Instances, PassStep(i) PROVE [Promise!Next]_(Promise!vars)
  <2>1. CASE Begin(i) \/ Pick(i) \/ PassDone(i) \/ Prepare(i) \/ Replay(i)
    BY <1>2, <2>1 DEF Begin, Pick, PassDone, Prepare, Replay, tasksDb
  <2>2. CASE SaveResult(i)
    <3>1. cur[i] \in DOMAIN log
      BY <1>1, <2>2 DEF SaveResult, PassesOK, PassOK, Busy
    <3>2. SameClosed /\ disk' = disk
      BY <1>1, <2>2, <3>1, EntryNotClosed DEF SaveResult, tasksDb
    <3> QED
      BY <3>2, Stutters
  <2>3. CASE SaveRefused(i) \/ ApplyRefused(i)
    <3>1. cur[i] \in DOMAIN log /\ Fail(i) /\ disk' = disk
      BY <1>1, <2>3 DEF SaveRefused, ApplyRefused, PassesOK, PassOK, Busy, tasksDb
    <3> QED
      BY <1>1, <3>1, FailNotClosed, Stutters
  <2>4. CASE Apply(i)
    BY <2>4, ApplyImplements DEF Promise!Next
  <2>5. CASE Finish(i)
    BY <2>5, FinishImplements DEF Promise!Next
  <2> QED
    BY <1>4, <2>1, <2>2, <2>3, <2>4, <2>5 DEF PassStep
<1>5. ASSUME NEW i \in Instances, NEW c \in Captures, Accept(i, c)
      PROVE  [Promise!Next]_(Promise!vars)
  BY <1>5, AcceptImplements DEF Promise!Next
<1>6. ASSUME NEW i \in Instances, Fails(i) PROVE UNCHANGED Promise!vars
  <2>1. cur[i] \in DOMAIN log /\ Fail(i) /\ disk' = disk
    BY <1>1, <1>6 DEF Fails, PassesOK, PassOK, Busy, tasksDb
  <2> QED
    BY <1>1, <2>1, FailNotClosed, Stutters
<1>7. ASSUME NEW i \in Instances, OtherEffect(i) PROVE UNCHANGED Promise!vars
  <2>1. disk' = disk /\ log' = log
    BY <1>7 DEF OtherEffect, Healthy, IInv, MemoryOK, CoherentMemory
  <2> QED
    BY <1>2, <2>1
<1>8. ASSUME NEW i \in Instances, Start(i) \/ Crash(i) PROVE UNCHANGED Promise!vars
  BY <1>2, <1>8 DEF Start, Crash, tasksDb
<1>9. CASE TaskSettles
  BY <1>2, <1>9 DEF TaskSettles
<1>10. CASE BackoffElapses
  <2>1. PICK u \in DOMAIN log : log' = [log EXCEPT ![u].due = TRUE]
    BY <1>10 DEF BackoffElapses
  <2>2. log[u] \in Entries
    BY <1>1, Log
  <2>3. log' = [log EXCEPT ![u].result = log[u].result, ![u].due = TRUE]
    BY <2>1, <2>2 DEF Entries
  <2>4. SameClosed /\ disk' = disk
    BY <1>1, <1>10, <2>2, <2>3, EntryNotClosed DEF BackoffElapses, tasksDb, Entries
  <2> QED
    BY <2>4, Stutters
<1> QED
  BY <1>3, <1>4, <1>5, <1>6, <1>7, <1>8, <1>9, <1>10 DEF Next

\* Units are accepted, absorbed and confirmed one at a time and in that order,
\* although the two databases are never written together.
THEOREM Implements == Spec => KeepsPromise
<1>1. Init => Promise!Init
  <2> SUFFICES ASSUME Init PROVE Promise!Init
    OBVIOUS
  <2>1. Len(log) = 0 /\ Len(disk) = 0 /\ DOMAIN log \ Pending = {}
    BY DEF Init
  <2>2. Cardinality({}) = 0
    BY FS_EmptySet
  <2> QED
    BY <2>1, <2>2 DEF Promise!Init
<1>2. IInv /\ IInv' /\ [Next]_vars => [Promise!Next]_(Promise!vars)
  BY StepImplements
<1> QED
  BY <1>1, <1>2, Invariance, PTL DEF Spec, KeepsPromise, Promise!Spec
=============================================================================
