---------------------------- MODULE UnitPipeline ----------------------------
(***************************************************************************)
(* From a captured turn to its effect in the engine (service/observe.py):  *)
(* observe() writes the turn to the evidence log (log.sqlite) together     *)
(* with an entry of pending work, and process_pending_units(), which the   *)
(* request threads and the recovery thread of every process call, takes    *)
(* the pending units in log order: it saves the extraction result, applies *)
(* the unit to the engine in one transaction of the other database         *)
(* (tasks.sqlite: effect, follow-up tasks, checkpoint and receipt) and     *)
(* then closes the entry in the log.                                       *)
(*                                                                         *)
(* The two databases are never written in one transaction, and a process   *)
(* may die, or be overtaken by a second process on the same directory,     *)
(* between any two steps.  The engine state is abstracted to the sequence  *)
(* of units it has absorbed.  An operator named _Faulty is a plausible     *)
(* wrong version of the definition after it; nothing uses it.              *)
(***************************************************************************)
EXTENDS Naturals, Sequences, FiniteSets

CONSTANTS
  Instances,     \* sidecar processes on the state directory
  Captures,      \* request ids of the turns that clients observe
  Dissatisfied,  \* turns that also call for a reviewer task
  Limit,         \* units listed by one pass
  Capacity,      \* TaskStore.capacity
  MaxOther       \* bound: checkpoints written by other effects

ASSUME ConstantsAssumption ==
  /\ IsFiniteSet(Captures) /\ Dissatisfied \subseteq Captures
  /\ Limit \in Nat \ {0}
  /\ Capacity \in Nat
  /\ MaxOther \in Nat

VARIABLES
  log,       \* log.sqlite: units by id, each with its pending work
  receipts,  \* units with a receipt in unit_receipts
  revision,  \* revision of the durable checkpoint
  disk,      \* durable engine state: the units absorbed, in order
  queue,     \* unfinished rows of the tasks table
  handed,    \* follow-up tasks enqueued for each capture
  up,        \* the process is running
  fault,     \* service._checkpoint_fault
  rev,       \* service._checkpoint_revision
  mem,       \* engine state in the process
  pc,        \* where the pass of the process stands (_unit_busy is held)
  listed,    \* units listed by the pass and not reached yet
  cur,       \* the unit in process_unit
  known      \* work["result"] was there when the entry was read

tasksDb == <<receipts, revision, disk, queue, handed>>
service == <<up, fault, rev, mem>>
pass == <<pc, listed, cur, known>>
vars == <<log, receipts, revision, disk, queue, handed, up, fault, rev, mem,
          pc, listed, cur, known>>

Entries == [capture : Captures, done : BOOLEAN, result : BOOLEAN, due : BOOLEAN]
Steps == {"idle", "scan", "prepare", "save", "apply", "finish"}

TypeOK ==
  /\ log \in Seq(Entries)
  /\ receipts \subseteq DOMAIN log
  /\ revision \in Nat
  /\ disk \in Seq(Nat)
  /\ queue \in 0 .. Capacity
  /\ handed \in [Captures -> Nat]
  /\ up \in [Instances -> BOOLEAN]
  /\ fault \in [Instances -> BOOLEAN]
  /\ rev \in [Instances -> Nat]
  /\ mem \in [Instances -> Seq(Nat)]
  /\ pc \in [Instances -> Steps]
  /\ listed \in [Instances -> SUBSET (DOMAIN log)]
  /\ cur \in [Instances -> Nat]
  /\ known \in [Instances -> BOOLEAN]

Init ==
  /\ log = << >>
  /\ receipts = {}
  /\ revision = 0
  /\ disk = << >>
  /\ queue = 0
  /\ handed = [c \in Captures |-> 0]
  /\ up = [i \in Instances |-> FALSE]
  /\ fault = [i \in Instances |-> FALSE]
  /\ rev = [i \in Instances |-> 0]
  /\ mem = [i \in Instances |-> << >>]
  /\ pc = [i \in Instances |-> "idle"]
  /\ listed = [i \in Instances |-> {}]
  /\ cur = [i \in Instances |-> 0]
  /\ known = [i \in Instances |-> FALSE]

Healthy(i) == up[i] /\ ~fault[i]
Pending == {u \in DOMAIN log : ~log[u].done}

\* The Limit lowest of the pending units.
Oldest == {u \in Pending : Cardinality({v \in Pending : v < u}) < Limit}

-----------------------------------------------------------------------------
(* observe(): acceptance in the log                                        *)

\* The request id is not looked up.
Accept_Faulty(i, c) ==
  /\ Healthy(i)
  /\ Len(log) <= Cardinality(Captures)
  /\ log' = Append(log, [capture |-> c, done |-> FALSE, result |-> FALSE, due |-> TRUE])
  /\ UNCHANGED <<tasksDb, service, pass>>

\* append_unit: a request id that is already bound is a replay and changes
\* nothing; otherwise unit, pending work and binding are one transaction.
Accept(i, c) ==
  /\ Healthy(i)
  /\ \A u \in DOMAIN log : log[u].capture # c
  /\ log' = Append(log, [capture |-> c, done |-> FALSE, result |-> FALSE, due |-> TRUE])
  /\ UNCHANGED <<tasksDb, service, pass>>

-----------------------------------------------------------------------------
(* process_pending_units() and process_unit()                              *)

Begin(i) ==
  /\ Healthy(i)
  /\ pc[i] = "idle"
  /\ Pending # {}
  /\ listed' = [listed EXCEPT ![i] = Oldest]
  /\ pc' = [pc EXCEPT ![i] = "scan"]
  /\ UNCHANGED <<log, tasksDb, service, cur, known>>

EndPass(i) ==
  /\ pc' = [pc EXCEPT ![i] = "idle"]
  /\ listed' = [listed EXCEPT ![i] = {}]
  /\ UNCHANGED <<cur, known>>

IsNext(i, u) == u \in listed[i] /\ \A v \in listed[i] : u <= v

\* The unit is still backing off from a failure and has not been applied.
BackingOff(u) == ~log[u].due /\ u \notin receipts

\* A unit that is backing off is passed over.
Pick_Faulty(i) ==
  /\ up[i]
  /\ pc[i] = "scan"
  /\ \E u \in listed[i] :
       /\ \A v \in listed[i] : u <= v
       /\ listed' = [listed EXCEPT ![i] = @ \ {u}]
       /\ IF BackingOff(u) THEN UNCHANGED <<pc, cur, known>>
          ELSE /\ cur' = [cur EXCEPT ![i] = u]
               /\ known' = [known EXCEPT ![i] = log[u].result]
               /\ pc' = [pc EXCEPT ![i] = "prepare"]
  /\ UNCHANGED <<log, tasksDb, service>>

\* The oldest listed unit is taken up, unless it is backing off: then the pass
\* ends, for no younger unit may overtake it.
Pick(i) ==
  /\ up[i]
  /\ pc[i] = "scan"
  /\ \E u \in listed[i] :
       /\ IsNext(i, u)
       /\ IF BackingOff(u) THEN EndPass(i)
          ELSE /\ listed' = [listed EXCEPT ![i] = @ \ {u}]
               /\ cur' = [cur EXCEPT ![i] = u]
               /\ known' = [known EXCEPT ![i] = log[u].result]
               /\ pc' = [pc EXCEPT ![i] = "prepare"]
  /\ UNCHANGED <<log, tasksDb, service>>

PassDone(i) ==
  /\ up[i]
  /\ pc[i] = "scan" /\ listed[i] = {}
  /\ EndPass(i)
  /\ UNCHANGED <<log, tasksDb, service>>

\* A result that was saved before is made again.
Prepare_Faulty(i) ==
  /\ up[i]
  /\ pc[i] = "prepare"
  /\ pc' = [pc EXCEPT ![i] = IF cur[i] \in receipts THEN "apply" ELSE "save"]
  /\ UNCHANGED <<log, tasksDb, service, listed, cur, known>>

\* Candidates are generated only for a unit with neither result nor receipt.
Prepare(i) ==
  /\ up[i]
  /\ pc[i] = "prepare"
  /\ pc' = [pc EXCEPT ![i] = IF known[i] \/ cur[i] \in receipts THEN "apply" ELSE "save"]
  /\ UNCHANGED <<log, tasksDb, service, listed, cur, known>>

\* The entry is closed by the failure.
Fail_Faulty(i) ==
  /\ log' = [log EXCEPT ![cur[i]].done = TRUE]
  /\ EndPass(i)

\* fail_work(): the pending entry backs off, and the exception ends the pass.
Fail(i) ==
  /\ log' = IF log[cur[i]].done THEN log ELSE [log EXCEPT ![cur[i]].due = FALSE]
  /\ EndPass(i)

\* save_work_result(), after the model has answered outside the lock.
SaveResult(i) ==
  /\ up[i]
  /\ pc[i] = "save"
  /\ ~log[cur[i]].done /\ ~log[cur[i]].result
  /\ log' = [log EXCEPT ![cur[i]].result = TRUE, ![cur[i]].due = TRUE]
  /\ pc' = [pc EXCEPT ![i] = "apply"]
  /\ UNCHANGED <<tasksDb, service, listed, cur, known>>

\* ... which is refused when another process has saved a result, or closed the
\* entry, meanwhile.
SaveRefused(i) ==
  /\ up[i]
  /\ pc[i] = "save"
  /\ log[cur[i]].done \/ log[cur[i]].result
  /\ Fail(i)
  /\ UNCHANGED <<tasksDb, service>>

\* hauler_due for every unit, reviewer_due for a dissatisfied one.
Handoffs(c) == IF c \in Dissatisfied THEN 2 ELSE 1

\* Every one of the follow-up tasks finds a free slot.
Fits(c) == queue + Handoffs(c) <= Capacity

\* Another process has applied the unit: apply_unit() returns its receipt.
Replay(i) ==
  /\ Healthy(i)
  /\ pc[i] = "apply"
  /\ rev[i] = revision
  /\ cur[i] \in receipts
  /\ pc' = [pc EXCEPT ![i] = "finish"]
  /\ UNCHANGED <<log, tasksDb, service, listed, cur, known>>

\* apply_unit() commits effect, follow-up tasks, checkpoint and receipt.  When
\* the acknowledgement is lost, the memory is rolled back and the process stops
\* itself; the unit backs off although it has its receipt.
Apply(i) ==
  LET c == log[cur[i]].capture
      effect == Append(mem[i], cur[i])
  IN
  /\ Healthy(i)
  /\ pc[i] = "apply"
  /\ rev[i] = revision
  /\ cur[i] \notin receipts
  /\ Fits(c)
  /\ queue' = queue + Handoffs(c)
  /\ handed' = [handed EXCEPT ![c] = @ + Handoffs(c)]
  /\ revision' = revision + 1
  /\ disk' = effect
  /\ receipts' = receipts \cup {cur[i]}
  /\ \/ /\ rev' = [rev EXCEPT ![i] = revision + 1]
        /\ mem' = [mem EXCEPT ![i] = effect]
        /\ pc' = [pc EXCEPT ![i] = "finish"]
        /\ UNCHANGED <<log, fault, listed, cur, known>>
     \/ /\ fault' = [fault EXCEPT ![i] = TRUE]
        /\ Fail(i)
        /\ UNCHANGED <<rev, mem>>
  /\ UNCHANGED up

\* The effect of the refused unit stays in the memory.
ApplyRefused_Faulty(i) ==
  /\ up[i]
  /\ pc[i] = "apply"
  /\ rev[i] = revision /\ cur[i] \notin receipts
  /\ ~Fits(log[cur[i]].capture)
  /\ mem' = [mem EXCEPT ![i] = Append(@, cur[i])]
  /\ Fail(i)
  /\ UNCHANGED <<tasksDb, up, fault, rev>>

\* The service is faulted, the checkpoint has moved on (which faults it) or the
\* follow-up tasks do not fit: the transaction and the memory are rolled back.
ApplyRefused(i) ==
  /\ up[i]
  /\ pc[i] = "apply"
  /\ \/ fault[i]
     \/ rev[i] # revision
     \/ cur[i] \notin receipts /\ ~Fits(log[cur[i]].capture)
  /\ fault' = [fault EXCEPT ![i] = @ \/ rev[i] # revision]
  /\ Fail(i)
  /\ UNCHANGED <<tasksDb, up, rev, mem>>

\* finish_work(); an entry another process has closed meanwhile is fine.  The
\* semantic tasks that are run next may raise and end the pass.
Finish(i) ==
  /\ up[i]
  /\ pc[i] = "finish"
  /\ log' = [log EXCEPT ![cur[i]].done = TRUE, ![cur[i]].due = TRUE]
  /\ \/ pc' = [pc EXCEPT ![i] = "scan"] /\ UNCHANGED <<listed, cur, known>>
     \/ EndPass(i)
  /\ UNCHANGED <<tasksDb, service>>

\* A database error, an effect over its budget or any other exception.
Fails(i) ==
  /\ up[i]
  /\ pc[i] \in {"prepare", "save", "apply", "finish"}
  /\ Fail(i)
  /\ UNCHANGED <<tasksDb, service>>

-----------------------------------------------------------------------------
(* Around the pipeline                                                     *)

\* Any other effect that writes the checkpoint (recall, feedback, a task, a
\* save); it may enqueue a task, and its acknowledgement may be lost.
OtherEffect(i) ==
  /\ Healthy(i)
  /\ rev[i] = revision
  /\ revision < Len(disk) + MaxOther
  /\ revision' = revision + 1
  /\ disk' = mem[i]
  /\ queue' \in {queue, queue + 1} \cap (0 .. Capacity)
  /\ \/ rev' = [rev EXCEPT ![i] = revision + 1] /\ UNCHANGED fault
     \/ fault' = [fault EXCEPT ![i] = TRUE] /\ UNCHANGED rev
  /\ UNCHANGED <<log, receipts, handed, up, mem, pass>>

\* A task ends (module TaskStore).
TaskSettles ==
  /\ queue > 0
  /\ queue' = queue - 1
  /\ UNCHANGED <<log, receipts, revision, disk, handed, service, pass>>

\* recover_or_init: the checkpoint is loaded.
Start(i) ==
  /\ ~up[i]
  /\ up' = [up EXCEPT ![i] = TRUE]
  /\ rev' = [rev EXCEPT ![i] = revision]
  /\ mem' = [mem EXCEPT ![i] = disk]
  /\ UNCHANGED <<log, tasksDb, fault, pass>>

\* The process exits between any two steps.
Crash(i) ==
  /\ up[i]
  /\ up' = [up EXCEPT ![i] = FALSE]
  /\ fault' = [fault EXCEPT ![i] = FALSE]
  /\ rev' = [rev EXCEPT ![i] = 0]
  /\ mem' = [mem EXCEPT ![i] = << >>]
  /\ pc' = [pc EXCEPT ![i] = "idle"]
  /\ listed' = [listed EXCEPT ![i] = {}]
  /\ cur' = [cur EXCEPT ![i] = 0]
  /\ known' = [known EXCEPT ![i] = FALSE]
  /\ UNCHANGED <<log, tasksDb>>

BackoffElapses ==
  /\ \E u \in DOMAIN log :
       ~log[u].due /\ log' = [log EXCEPT ![u].due = TRUE]
  /\ UNCHANGED <<tasksDb, service, pass>>

PassStep(i) ==
  \/ Begin(i) \/ Pick(i) \/ PassDone(i) \/ Prepare(i) \/ SaveResult(i)
  \/ SaveRefused(i) \/ Replay(i) \/ Apply(i) \/ ApplyRefused(i) \/ Finish(i)

Next ==
  \/ \E i \in Instances :
       \/ \E c \in Captures : Accept(i, c)
       \/ PassStep(i) \/ Fails(i) \/ OtherEffect(i) \/ Start(i) \/ Crash(i)
  \/ TaskSettles \/ BackoffElapses

Spec == Init /\ [][Next]_vars

-----------------------------------------------------------------------------
(* Safety                                                                  *)

\* The durable engine has absorbed exactly the units with a receipt, each once
\* and in log order, although two processes may work on the same unit, units
\* back off and acknowledgements are lost: nothing overtakes an older unit.
AbsorbedInLogOrder ==
  /\ receipts = 1 .. Len(disk)
  /\ \A n \in 1 .. Len(disk) : disk[n] = n

\* A process at the durable revision holds the durable engine state.
CoherentMemory ==
  \A i \in Instances : up[i] /\ rev[i] = revision => mem[i] = disk

\* Every turn, however often it is sent, gives rise to its follow-up tasks
\* exactly once, and only together with its effect.
HandedOffOnce ==
  \A c \in Captures :
    handed[c] = IF \E u \in receipts : log[u].capture = c THEN Handoffs(c) ELSE 0

\* Accepted, absorbed and confirmed: the two databases as one log with two
\* cursors (module UnitPromise).
Promise == INSTANCE UnitPromise WITH
  accepted <- Len(log),
  absorbed <- Len(disk),
  confirmed <- Cardinality(DOMAIN log \ Pending)

\* Units are accepted, absorbed and confirmed one by one; the pending work of a
\* unit is closed only after its effect is durable.
KeepsPromise == Promise!Spec

-----------------------------------------------------------------------------
(* Liveness                                                                *)

\* The recovery thread keeps passing, a process that is down is started and one
\* that has faulted restarted, backoffs elapse and tasks settle.
FairSpec ==
  /\ Spec
  /\ \A i \in Instances :
       /\ WF_vars(PassStep(i)) /\ WF_vars(Start(i)) /\ WF_vars(fault[i] /\ Crash(i))
  /\ WF_vars(TaskSettles) /\ WF_vars(BackoffElapses)

\* A failure nothing in the pipeline calls for, or a kill.
Trouble ==
  \E i \in Instances :
    \/ Fails(i) /\ ~SaveRefused(i) /\ ~ApplyRefused(i)
    \/ ~fault[i] /\ Crash(i)

\* Unless processes are killed or the databases fail over and over, every
\* accepted turn is absorbed by the engine and confirmed: no backoff, refused
\* result, full queue or stale process holds up the log for ever.
EveryUnitConfirmed ==
  \/ []<><<Trouble>>_vars
  \/ \A n \in 1 .. Cardinality(Captures) :
       Len(log) >= n ~> (Len(log) >= n /\ log[n].done)
=============================================================================
