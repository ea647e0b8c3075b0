# TLA+ specifications of the Dynamics-memory sidecar

Dynamics-memory gives a coding agent a long-term memory. The repository holds the
memory *sidecar* and, beside it, the OpenCode agent it is built for. A plugin of
that agent captures every turn of a conversation and sends it to the sidecar, a
Python process that keeps an append-only evidence log, distils memories out of
it with the help of language models, and answers recalls. The interesting part,
and the part specified here, is everything that has to stay right while models
are slow, processes die, requests are repeated and two processes overlap on one
state directory.

All paths below are relative to the repository; `hm/` stands for `hybrid_memory/`,
`core/` in the rows about the agent for `agent/core/src/`.

## 1. Inventory

| Component | Code | State | Operations | Status |
|---|---|---|---|---|
| Durable task machine | `hm/store/tasks.py`, `hm/store/schema.py`, `hm/dispatch/policy.py` | `tasks.sqlite`: rows with state, payload, version, attempts, token, lease, result; sealed contexts; checkpoint and its revision; receipts | enqueue/merge, list, claim, seal, store result, retry, recover, complete, checkpoint | `TaskStore` |
| Semantic and workflow loops | `hm/dispatch/worker.py` | the pass of each loop: batch, claimed row | `run_semantic_tasks`, `DispatchWorker.process_once` | `TaskStore` |
| Service core | `hm/service/service.py`, `hm/service/lifecycle.py`, `hm/store/state.py` | engine in memory, revision, `checkpoint_fault`, one reentrant lock | start, save, rollback of an effect, fault | `TaskStore`, `UnitPipeline` |
| Capture pipeline | `hm/service/observe.py`, `hm/store/evidence.py` | `log.sqlite`: units, pending work, request ids; `unit_receipts` in `tasks.sqlite` | observe, the pass over pending units | `UnitPipeline` |
| Turn delivery | `.opencode/plugin/memory-bridge.ts` | outbox in memory and on disk, the flush | capture, deliver, load, dispose | `Delivery` |
| Feedback, recall | `hm/service/feedback.py`, `hm/service/recall.py` | registry of retrievals, capture receipts | feedback, recall | rules of acceptance in `Delivery` |
| Tool budgets | `hm/service/budgets.py`, `hm/service/tools.py` | `_budgets` | open, close, admit, settle | `Budget` |
| Effects | `hm/dispatch/effects.py` | memories, tensions, reviews | the decisions of the Selector, the verdicts on a tension | the transaction in `TaskStore`, what it does to a contested claim in `Review` |
| Investigation worker | `hm/legacy/loop.py`, `hm/store/tasks.py` | rows of two more kinds, `operations` (receipts), `daily_runs`; the pass of the worker | claim under the daily cap, ask the agent, store and apply its product | `Investigation` |
| Operations | `hm/service/operate.py` | | propose, resolve, diagnose: as tool calls of the agent or by the worker | their transactions in `Investigation` |
| Human review | `hm/service/review.py`, `hm/agents/selector.py` | `human_reviews`, the flag `pending_review` of memories | propose a change to a human, keep the old or accept the new | `Review` |
| Session core of the agent | `core/session.ts`, `core/session/input.ts`, `core/session/run-coordinator.ts`, `core/session/runner/llm.ts`, `core/session/runner/publish-llm-event.ts` | `session_input` rows, tool calls, the coordinator's entry, the drain fiber | prompt, resume, interrupt; promote, ask, settle tool calls | `SessionRun` |
| Event log of the agent | `core/event.ts`, `core/database/` | sequence per aggregate, projections | publish, replay, sync between workspaces | a commit is one step of `SessionRun`; otherwise not modelled |
| Background jobs, permissions | `core/background-job.ts`, `core/permission.ts` | waiters | | not modelled |
| Memory engine | `hm/core/` | memories with lineage, tensions, values | ingest, retrieve, maintain, consolidate | supersession and withdrawal in `Review`; the rest is not modelled |
| Signal queue | `hm/core/signals.py` | bounded merging queue | emit, take, drain | not modelled |
| Agents, model client, semantics, embedding, guards | `hm/agents/`, `hm/llm/`, `hm/semantics/`, `hm/embed/`, `hm/guards/` | none of their own | calls to external models, text rules | a nondeterministic answer or failure |
| Transport | `hm/transport/` | | HTTP routes | the answers to `/observe` and `/feedback` |
| Health, config, shims, the rest of the agent (server, terminal, SDK, providers, code mode), `eval/`, `analysis/` | | | | not modelled |

**How they interact.** The plugin posts a turn to `/observe`. The request thread
appends the unit and its pending work to `log.sqlite` and then calls
`process_pending_units`, as a recovery thread also does every two seconds. For
every pending unit, oldest first, it asks a model for candidates outside the
service lock, saves the answer, and then applies the unit under the lock in one
transaction of `tasks.sqlite`: engine effect, follow-up tasks, checkpoint and
receipt. Afterwards it closes the pending work in the other database. Follow-up
tasks and the signals the engine emits are rows of the tasks table; the semantic
loop and the workflow loop claim them, ask a model, store its product, claim
them again and apply the product, again with the checkpoint in the same
transaction. All effects of a process share its engine in memory, its revision
number and its lock; processes share only the two databases.

The investigation worker is a third loop over the tasks table. The agent it asks
calls back into the service while it works, under the lease of the row. The
Selector's decisions, the verdicts of the semantic loop and the decisions of a
human all change the versions of one claim; the rows of `human_reviews` and the
`pending_review` flags in the engine state have to say the same.

In the agent, callers of the session service admit prompts to a durable inbox and
wake a coordinator, which forks at most one drain per session; the drain promotes
prompts into the conversation, streams the model's answer and waits for the tool
fibers it started. Its turns are what the plugin captures.

**What is hard.** Two databases that are never written in one transaction; a
commit whose acknowledgement is lost, after which memory and disk disagree; a
restarted process next to one that has not died yet; leases that run out under a
model call; capacity that a completing task both frees and needs; backoff of an
old unit while young ones wait; requests that are served long after the client
has given up on them; an investigation that is applied operation by operation, twice;
versions that are retired under a review that waits; interrupts that race
wake-ups, and tool fibers that end after their call was settled. `PROJECT.json` lists each of these hazards at its line with
the properties that look for it.

**What makes each part correct.**

* Tasks: an effect is durable exactly once iff its task is done; a product fits
  the payload and the sealed context of its row; no late loop changes anything;
  no signal is lost or duplicated; the queue stays within its capacity; every row
  ends; the directory can always be opened.
* Service: memory equals disk whenever the revisions agree.
* Capture: the engine absorbs the log in its order, each unit once; follow-up
  tasks are enqueued once per turn; everything accepted is confirmed in the end.
* Delivery: the log has each turn once and in order; one retrieval is credited
  once, after its turn; nothing leaves the outbox too early; no turn blocks the
  others for ever, except one whose body is too large (a remark in section 3).
* Investigations: every operation of a product takes effect once, whoever applies
  it; a row is finished with all of them applied, or refused as verdicts; runs are
  counted and capped.
* Reviews: what a human has yet to decide about stays in force and frozen;
  nothing disappears behind a retired version.
* Sessions: one drain at a time, no wake-up lost, every input shown once and in
  its turn, every tool call settled once and before the model is asked again.
* Budgets: text handed out and promised stays within the window; no reservation
  leaks; a read is charged to the investigation that admitted it.

## 2. Modules

| Module | What it is |
|---|---|
| `TaskPromise` | abstract: the life of a task as its callers see it |
| `TaskStore` | the tasks table, both loops of every process, checkpoint, crash, start; implements `TaskPromise` |
| `TaskStore_proofs` | theorems about `TaskStore`: effects, products, start-up, the refinement |
| `TaskQueue_proofs` | theorems about `TaskStore` as a queue |
| `UnitPromise` | abstract: a log with two cursors (absorbed, confirmed) |
| `UnitPipeline` | `observe`, the pass over the pending units, the two databases; implements `UnitPromise` |
| `UnitPipeline_proofs` | theorems about `UnitPipeline` |
| `Delivery` | the plugin's outbox and flush, requests in flight, the sidecar's answers |
| `Delivery_proofs` | theorems about `Delivery` |
| `Investigation` | the investigation worker of every process, its agent's tool calls, the calendar |
| `Investigation_proofs` | theorems about `Investigation` |
| `Review` | the versions of a claim, the Selector, verdicts, the queue of human reviews |
| `Review_proofs` | theorems about `Review` |
| `SessionPromise` | abstract: inputs shown in order, tool calls settled between requests |
| `SessionRun` | inbox, coordinator, drain, tools, interrupts and crashes of a session; implements `SessionPromise` |
| `SessionRun_proofs` | theorems about `SessionRun` |
| `Budget`, `Budget_proofs` | tool budgets and theorems about them |
| `MC*` | constants and symmetry for TLC; the values are in the `.cfg` files |

An operator whose name ends in `_Faulty` is a wrong version of the definition
that follows it (a dropped guard, a forgotten token, an off-by-one). No
specification uses it; put in place of the right one, it makes the property
named in `PROJECT.json` fail, which is how we know that the property looks at
the code it is meant for.

### TaskStore

One SQLite transaction is one action, because the service lock and `BEGIN
IMMEDIATE` make it one; what lies between two transactions of a loop (the model
call, the second claim) is a program counter.

| Action | Code |
|---|---|
| `AcceptSignal` (`Enqueue`, `Mergeable`, `Merged`, `QueueFull`) | `tasks.py _enqueue` inside `effects.effect_transaction` or `apply_unit` |
| `RecoverExpired` (`Expired`, `Recovered`) | `tasks.py recover_expired`, both halves |
| `List`, `ClaimNext`, `EndPass` | `worker.py` the loops; `tasks.py list_tasks`, `claim` |
| `SealContext`, `StoreResult` | `tasks.py store_call_context`, `store_result` |
| `Reclaim`, `ReclaimRefused` | the second claim of the pass |
| `ModelFails`, `ApplyFails`, `Retry` | the `except` blocks of the loops; `tasks.py retry`; `service.py _rollback_effect` |
| `Complete` | `tasks.py complete` with the effect, the follow-up and the checkpoint |
| `Save`, `StaleCommit`, `Start`, `Crash` | `lifecycle.py save`, `recover_or_init`; `service.py _check_checkpoint_error` |
| `LeaseRunsOut`, `BackoffElapses` | the comparisons with `lease_until` and `next_run_at` |

Simplifications. Time is two flags, `live` and `due`, that change at any moment:
every order of expiry and other steps is a behaviour. The random token is the
number of the claim, which is unique per row. A payload is the set of signals
merged into it. The engine state is a count of effects per task: enough to see
an effect lost or doubled. A reason for a failure is not modelled, only what it
does. Errors of the database other than a lost acknowledgement of a commit, and
the clock going backwards, are left out. The rollback of a failed effect and the
retry that follows it are one action: the lock is released in between, but the
row is still owned, by a token nobody else has. The semantic loop looks at the
fault before each claim, as line 151 does. `recover_expired` and the claim after
it are separate steps; so are two loops of one process.

### UnitPipeline

The deployment with three agents (the default of `transport/bootstrap.py`), in
which each absorbed unit hands a task to the hauler and a dissatisfied one also
to the reviewer. `_unit_busy` makes a process run one pass at a time, so a pass
is a program counter per process. `Accept` is `append_unit`; `Begin`, `Pick`,
`PassDone` are `process_pending_units`; `Prepare`, `SaveResult`, `SaveRefused`,
`Apply`, `ApplyRefused`, `Replay`, `Finish` are `process_unit`; `Fail` is
`fail_work`; `OtherEffect` stands for every other transaction that moves the
checkpoint. The engine state is the sequence of units it has absorbed. Unit ids
are dense: the lower bounds on ids that `append_unit` is given never exceed the
next one here.

### Delivery

One plugin, one outbox file, one request at a time. `net` is the set of the
requests ever sent: each of them may be served at any later time, once, several
times or never, also long after the plugin has stopped waiting for it. The sidecar answers with the outcomes `hm/transport/http.py` can
produce; its databases survive restarts, so a restart is an answer that is lost
or refused. A retrieval may be evicted from the registry at any time. Writing
the file may fail `MaxLost` times, and the plugin may be killed between any two
steps. A body the sidecar does not take is refused for good (`Rejected`, a 400) or
answered with the same 413 every time (`TooLarge`), which the plugin takes for an
answer worth trying again. Not modelled: two editors sharing one file, a file that cannot be parsed
(it is set aside), and a failure in an older unit that makes `/observe` answer
400 for a new one.

### Investigation

One row is claimed twice, to ask the agent and to apply its product. `RecoverExpired`,
`List`, `SkipRecent`, `Defer` are the loop of `process_once`; `Look` and `Claim` are
what `_claim` reads and the transaction of `tasks.py claim` that checks it again;
`Tool` and `Apply` are both `_task_once` with `apply_operation`, by the agent through
its budget and by the worker; `Finish` and `Retry` are `finish` and `retry`. The
revision of a process is abstracted to `current`, whether it equals the durable one:
that is all the code ever asks of it. Proposals, verdicts and the diagnosis are the
operations, numbered in the order `_apply` takes them; a verdict may be refused by
the causal bound, which rolls it back and leaves it out: the claim record keeps, as a
history, which operations this claim saw refused. Date, backoff, lease and
TTL are flags that change at any moment. The daily cap is read three times (when the
row is listed, in `_claim`, in `claim`); dropping the last one alone changes nothing
a run could see, because the claim also checks the revision, which every other claim
has moved on.

### Review

A step is one transaction under the service lock, so interleaving is between
transactions: a batch of the Selector (`Select`, at most two decisions with an
effect, all or nothing), a verdict (`Verdict`), a retrieval that suppresses one of
two similar memories (`Suppress`) and a human decision (`KeepOld`, `AcceptNew`).
`NormalizeClaim` is what the service makes of a decision on a claim, `Apply` what
applying it does, `CloseRetiredRelations` the end of every batch and decision,
`Rep` the chain of replacements a verdict follows. One claim scope is modelled, with
two wordings of one value, another value and a text without a claim. Left open or
left out: scores and sources, aggregates and contradictions, eviction and deletion,
the durable recheck of a review (its stale branch cannot be taken: that is
`TargetsAreFrozen`), the restamping of verdicts, which only queues them again, and
proposals the user has turned down, which come out as a rejected candidate.
`MaxReviews` is `MAX_PENDING_REVIEWS`, at which the service refuses the batch. The
legacy propose and resolve are switched off in this deployment
(`hm/transport/http.py:232`).

### SessionRun

A step is what runs between two points where a fiber may yield, and the commit of
one durable event. The coordinator: `Wake`, `Resume`, `Interrupt`, `Settle`. The
inbox: `Prompt`, `PublishAdmitted`, `Promote`. The drain: `LookSteer`, `LookQueue`,
`FailOpen`, `Prepare`, `PromoteQueued`, `PickSteers`, `PromoteSteer`, then a turn
(`Ask`, `CallTool`, `HostedResult`, `ProviderError`, `StreamEnds`, `ToolReturns`,
`ToolBreaks`, `FinishTurn`, `TurnInterrupted`), then `LookSteerAgain` and
`LookQueueAgain`. A crash keeps the inbox and the calls. `owed` is a history
variable: inputs whose wake-up was neither followed by their promotion nor voided
(by an interrupt, a drain that failed without a follow-up, or a crash, all of which
give up pending wake-ups by design). Compaction, permissions, fork and revert, and
the text of the conversation are left out.

### Budget

`Call` and `BeginWindow` are `admit` with and without a window, `EndWindow` the
`finally` of `log_window`, `Settle` its two assignments. A closed budget lives on
in the threads that read on it, exactly as the dictionary object does in the code.

## 3. What the runs check

| Run | Instance | Shows |
|---|---|---|
| `tasks_two_processes` | 2 processes, both loops each, 2 signals of which one becomes a row, 2 model and 2 apply attempts, 3 saved revisions; processes symmetric | `EffectExactlyOnce`, `CoherentMemory`, `ProductMatchesSeal`, `NeverBricked`, `LateLoopHarmless`; implements `TaskPromise` |
| `tasks_queue` | 1 process with the workflow loop, 2 signals that merge or follow one another and one of a kind this loop does not consume, queue of 2, 3 rows, 2 model and 2 apply attempts; fair | `ProductCoversPayload`, `OneUnclaimedPerKey`, `SignalsKept`, `WithinCapacity`, `EverySignalSettles` |
| `units_two_processes` | 2 processes, 2 turns (one dissatisfied), passes of 2, queue of 2; fair | `AbsorbedInLogOrder`, `CoherentMemory`, `HandedOffOnce`, `EveryUnitConfirmed`; implements `UnitPromise` |
| `delivery` | 5 turns: one with a retrieval, one refused, one with an empty retrieval, one too large and one behind it; 2 attempts, 1 failed write; fair | `LogInTurnOrder`, `CreditOnceAndAfter`, `NothingForgotten`, `EveryTurnDelivered` |
| `investigation` | 2 processes, 2 signals with one question, 2 operations of which the first is a verdict, 2 days with one run each, 2 attempts of each kind, one earlier row that was answered; processes symmetric | `OperationExactlyOnce`, `DoneMeansApplied`, `RunsCounted`, `BoundFitsPayload`, `NoStrayOperation` |
| `session_wake` | 2 callers, 2 inputs, 2 drain fibers, no tool calls; fair | `OneDrain`, `NoLostWakeup`, `OwedIsServed`; implements `SessionPromise` |
| `session_turns` | 1 caller, 2 inputs, 2 tool calls, 2 steps | `ToolLoopBounded`; implements `SessionPromise` |
| `review` | 4 texts, 3 versions, 2 waiting reviews | `TargetsAreFrozen`, `FreezeGoesFirst`, `NothingMergedIntoRetired` |
| `budget` | 3 threads, 2 signals, window of 3 | `WithinWindow`, `NothingLeaks`, `ChargedToItsOwn` |

The type invariant of `TaskStore`, `Delivery` and `Budget` is checked too; where it
is missing from a run it is proved for every instance (section 5).

**Why these bounds.** A hazard of the task machine needs one row, two parties
and a third step: two processes with two loops give four parties, and two
attempts of each kind give every row a retry and an end. Merging and capacity need
two signals of one key and one row more than the queue holds; the kinds that replace
their payload or have no key are not instantiated there (`ProductIsComplete` is
proved with them). Liveness needs limits of two: with one, every failure is a row's
last, and no row ever waits with attempts used, is modelled anew, or is found
exhausted by the second half of `recover_expired`. Both loops together with three
such rows are beyond TLC, and they share nothing but the queue; so the run has the
workflow loop, whose rows can do all the semantic ones can and be modelled anew, and
a row that only takes up room (`OtherKeys`: `effects.effect_transaction` enqueues
`recall_miss` and `extract_due` whichever worker the start-up has chosen). The pipeline needs a unit that backs off with another behind it,
and a queue that takes the follow-ups of one dissatisfied unit but not of two units.
An investigation needs two parties and one row that is asked about twice: two
attempts, two operations, so that a crash can fall between them, and a second day.
The first operation is the verdict, so that one that is not refused comes after it.
The earlier row is done from the start, which makes `SkipRecent` reachable; a second
active row takes the instance beyond eight million states and adds no step. A session is checked twice,
because its two halves multiply: what races on the coordinator (two callers against
each other and the drain, with inputs of both deliveries) needs no tool calls, and
what races inside a turn needs one caller who may prompt, wait or interrupt. A review
needs a target, a related version and a replacement, and a second review about the
same ones. A delivery needs a turn that succeeds, one that is refused and one
behind it, one that is too large and one behind that, and one retry. Nothing in the code depends on larger numbers; what can
be proved for all of them is proved (section 5). Bounds that exist only for TLC
are named `Max...` and are explained where they are declared. With symmetry only
safety is checked.

**Divergences.** Three runs are expected to fail; each checks a statement of the
documentation that the code does not keep.

* `tasks_product_dropped`. `docs/durable-tasks.md:21` says that an exhausted task
  keeps its product. In the workflow loop (`hm/dispatch/worker.py:303`) a
  `ValueError` while applying clears the product and reopens the row even when
  it has no model attempt left, and the next `recover_expired` kills it without
  one.
* `delivery_accepted`. `docs/capture-delivery.md:19` says that an observe whose
  turn is in the log is answered with `accepted: true` even when its effect is
  not complete. `hm/transport/http.py:246` answers a `Degraded` without it, and
  line 259 a `CheckpointConflict` that carries no unit. The plugin then sends the
  turn again, which the receipt makes harmless.
* `review_stuck`. `analysis/target-architecture.md:198` says that a change of any
  version makes a review stale. `close_retired_relations`
  (`hm/dispatch/effects.py:212`) and `accept_new` (`hm/service/review.py:102`) only
  look at the *target* of a review. When a related version is retired while the
  target stays in force, for instance by `keep_old` on another proposal about the
  same versions, the review stays pending, every decision on it is refused
  (`review.py:63`), and its target stays frozen.

**A remark on freezes.** The flag of a *related* version is not recomputed when its
review goes stale through the target (`effects.py:203`, `215`): the version stays
frozen although no review is about it, until a later decision about it. The model
does the same. No document says which freeze a related version should keep.

**A remark on faults.** `docs/durable-tasks.md:82` says that a service with a
checkpoint fault refuses further writes. The semantic loop looks at the fault before
each claim (`worker.py:151`); `DispatchWorker.process_once` (`worker.py:259`) never
does: it goes on recovering and claiming rows and calling models for tasks whose
effects it can no longer commit. What it does reaches neither an effect nor another
loop's product (`EffectExactlyOnce`, `LateLoopHarmless` hold with it).

**A remark on large turns.** `docs/capture-delivery.md:38` names the answers that are
to be tried again (time-outs, failed connections, 408, 429, 500, 502, 503, 504 and a
503 without `accepted`). `observeAck` and `feedbackAck` (`memory-bridge.ts:382`) turn it
around: whatever is not 401, 400, 404 or 409 is tried again, so also the 413 that
`parse_body` gives every body over `MAX_BODY` (`hm/transport/dto.py:59`). The plugin
does not limit a turn, and `flushOutbox` stops at the first one that is stuck (line
455): a turn of more than four megabytes is sent again by every flush and nothing
behind it is delivered any more. `EveryTurnDelivered` says what is left: whatever lies
before such a turn is delivered. The same holds of the 415, which the plugin never
gets, since it always sends JSON.

**A remark on attempts.** With two overlapping processes the workflow loop can
exceed the bound on model calls by one: process B recovers expired rows, process A
reopens the round of an exhausted row (`retry_model`), and B, which does not recover
again before its claims, lists and claims it. The next recovery ends the row, so
nothing but one model call is lost. With one process the bounds are exact, which is
part of `EverySignalSettles`.

## 4. Fairness

* `TaskStore!FairSpec`: each loop that can step does so; a process that is down
  is started; one that has faulted is restarted (the documentation asks the
  operator for that); leases and backoffs elapse. The loops are daemon threads
  that catch every exception, and each wait in them has a timeout. Kills of a
  healthy process are assumed to end: no bound on attempts could help a task that
  never gets a process for long enough.
* `UnitPipeline!FairSpec`: the same for passes; tasks settle (what `TaskStore`
  shows), so the queue drains. `Trouble` collects failures nothing in the
  pipeline calls for, and kills; refusals the pipeline itself causes (a stale
  process, a full queue, a result another process has saved) are not trouble and
  must be survived.
* `Delivery!FairSpec`: a scheduled flush runs and the request that is waited for
  is served. `EveryTurnDelivered` assumes that the plugin is loaded again and
  again, because a stuck turn is only retried by the next capture, dispose or
  load, and that time-outs, refusals, failed writes and kills end. A 413 does not:
  it is not counted as trouble, and what it holds up is excepted in the property.

* `SessionRun!FairSpec`: every drain fiber that can move does, which includes that a
  provider's stream and the tools end: nothing in the session core times them out,
  and a caller who does not want to wait interrupts. `OwedIsServed` assumes that
  drains do not fail for ever before they promote; callers owe nothing.

Weak fairness is enough throughout: the actions it is put on stay enabled until
they, or an alternative to them, happen.

## 5. What is proved

`TaskStore_proofs` proves, for any number of processes, signals, kinds and rows
and any limits:

| Theorem | Property |
|---|---|
| `TypeCorrect` | `TypeOK` |
| `ExactlyOnce` | `EffectExactlyOnce` |
| `Coherent` | `CoherentMemory` |
| `ProductIsComplete` | `ProductCoversPayload` |
| `ProductIsSealed` | `ProductMatchesSeal` |
| `CanAlwaysStart` | `NeverBricked` |
| `Implements` | `KeepsPromise`: the task machine implements `TaskPromise` |

The invariants are not inductive by themselves. `IInv` adds: a token is never
larger than the number of claims of its row, so a spent claim cannot match a later
one (`RowsOK`, `ClaimsOK`); an owned claim was made on the payload the
row still has, because a claimed row is no longer mergeable; a listed or held row
exists and is of the loop's own kinds (`BatchOK`), so that no loop reopens a row of
the other family; a row exists only beside a checkpoint; and no process is ahead of
the durable revision (`MemoryOK`). Every step is then a case of its own. The
refinement needs one more observation: the phase of a row changes only along the
moves of `TaskPromise`, and effects change in the very step that makes a row done.

`TaskQueue_proofs` continues it with what concerns the queue:

| Theorem | Property |
|---|---|
| `NoDoubleRow` | `OneUnclaimedPerKey` |
| `NoSignalLost` | `SignalsKept` |
| `QueueBounded` | `WithinCapacity` |
| `LateIsHarmless` | `LateLoopHarmless` |

Only `_enqueue` puts a signal into a row. Of every other step it is shown that a row
`Settles`: key and payload stay, and a row neither becomes unfinished nor waits
unclaimed if it was not so before, since a row that comes back to pending has
attempts. `QInv` then has three parts with a case for `_enqueue` each: no two waiting
rows share a key, every accepted signal is in one row and under its own key, and the
open rows fit the capacity. Completion is the interesting step of the last one: the
finished row leaves the open rows before the follow-up joins them.

`Budget_proofs` proves `TypeCorrect` (`TypeOK`), `WindowHolds` (`WithinWindow`),
`ChargesItsOwn` (`ChargedToItsOwn`) and `GivesBack` (`NothingLeaks`) for any number of
threads and investigations. A settlement never charges more than it gives back, so
used plus reserved never grows but by an admission, which stays within what is left.
That nothing leaks needs a sum: what a budget has reserved is what its readers were
promised. The promises are counted as pairs of a reader and a character, so that one
read joins or leaves the set at a time and no recursive sum is needed.

`UnitPipeline_proofs` proves the four state properties of the pipeline
(`TypeCorrect`, `AbsorbsInOrder`, `Coherent`, `HandsOffOnce`) and that it implements
`UnitPromise` (`Implements`), for any number of processes, turns and units per pass.
`AbsorbedInLogOrder` is not inductive: why should the unit that a pass brings to
`apply_unit` be the next one? The strengthening is what a pass knows about the units
before it (`PassOK`): whatever is older than a unit it has listed is listed too, in
its hands, or has its receipt; and everything older than the unit in its hands has
its receipt. That is established by `pending_units`, which takes the *oldest*
pending units (an older one that is not listed is closed, and a closed entry has
its receipt, `LogOK`), kept by taking the units in order and stopping at one that
backs off, and not disturbed by other processes, which only add receipts. With
`receipts = 1 .. Len(disk)` the unit is then `Len(disk) + 1` (`NextUnit`).
`HandedOffOnce` needs in addition that a request id is bound to one unit. For the
refinement, closed entries are a finite set within the receipts, so that a
confirmation that is not a repetition leaves room for itself.

`Delivery_proofs` proves, for any number of turns, attempts and failed writes and
whatever is retrieved, empty or refused:

| Theorem | Property |
|---|---|
| `TypeCorrect` | `TypeOK` |
| `OrderedLog` | `LogInTurnOrder` |
| `CreditedOnce` | `CreditOnceAndAfter` |
| `KeptUntilDone` | `NothingForgotten` |

The plugin changes marks in its outbox and never the sidecar; the sidecar only moves
forward (`Grows`: no turn leaves the log, no credit is taken back, a captured turn
does not come back into the registry). So the invariant says what a mark means at the
sidecar (`ItemOK`: a turn marked as done is logged; one whose feedback is closed is
`Finished`), and a mark that was right stays right. `LogInTurnOrder` holds although
any request ever sent may be served at any time: as long as no write was lost, a
request for a turn is only in `net` when everything before the turn is logged or
refused (`OrderOK`), and that never becomes untrue. `CreditOnceAndAfter` needs that
an id of a feedback belongs to one turn, in the outbox, the file and the net (`IdsOK`).

`Investigation_proofs` proves, for any number of processes, rows, signals, operations
and days and every limit:

| Theorem | Property |
|---|---|
| `TypeCorrect` | `TypeOK` |
| `AppliedOnce` | `OperationExactlyOnce` |
| `NothingLeftOut` | `DoneMeansApplied` |
| `BoundOfPayload` | `BoundFitsPayload` |
| `EveryRunCounted` | `RunsCounted` |
| `OnlyTheHolder` | `NoStrayOperation` |

The invariant relates a row to the workers that have claimed it, told apart by their
tokens: a token is the number of a claim, so the worker whose token the row still has
is the last one that claimed it, and the row is where this worker brought it (`HeldOK`:
what it has left to apply, together with the receipts and the verdicts it saw refused,
is the product; as nothing but `Finish` makes a row done (`OnlyFinishCloses`), and it
asks that nothing is left, `DoneMeansApplied` follows). Everything that may happen to a row behind a worker's back is stated once
(`Evolves`) and shown of every change to the table. What `_claim` has read stays good
for the claim if the version is still the same (`LookOK`): that is `BoundFitsPayload`.
For `RunsCounted` the two tables of counters are compared by their `Marks`, one for
each count: a claim adds one mark to both in the same transaction, and no other step
touches either (`StepUncounted`).

`SessionRun_proofs` proves, for any inputs, callers, fibers, calls and steps:

| Theorem | Property |
|---|---|
| `TypeCorrect` | `TypeOK` |
| `Serialized` | `OneDrain` |
| `LoopBounded` | `ToolLoopBounded` |
| `WakeupsKept` | `NoLostWakeup` |
| `Implements` | `KeepsPromise`: a session implements `SessionPromise` |

`NoLostWakeup` is almost inductive: it needs that the entry is live exactly when its
drain is (`Single`), and that what is owed is admitted and not promoted (`OwedOK`). The
refinement needs more: no call is running in the phases from which the model is asked
(`Quiet`), a running call in a turn is one of its own publisher (`TurnOK`), and what
`promoteSteers` has picked is all there is below its cutoff, so that promoting it in
order leaves out nothing older (`BatchOK`). `ToolLoopBounded` follows from relating the
turns spent to the step (`ChainOK`).

`Review_proofs` proves, for any texts and values and any numbers of memories and of
waiting reviews:

| Theorem | Property |
|---|---|
| `TargetsFrozen` | `TargetsAreFrozen` |
| `FreezeFirst` | `FreezeGoesFirst` |
| `NoneIntoRetired` | `NothingMergedIntoRetired` |
| `ChainsEnd` | every chain of replacements ends |

A step follows chains that earlier steps have made, and what a walk along a chain
computes would need an induction. `Rep` is therefore not recursive: it is the member
of the least set closed under replacement that was not replaced. The proof hands a
representative function on from step to step (`Chained`, `IsRep`), and where there is
one, `Rep` is that function (`RepIs`); `ReplacedChain` says once how it changes when
versions are replaced. Between transactions a state is at rest (`Rested`):

* A live target of a review is frozen, and a version a review was compared with was
  in force then, or had just become one with the target for having its value
  (`ReviewOK`, `PeerOK`). So the version that `accept_new` selects because it says
  already what was accepted is in force, or the target says so too (`SelectedLive`).
* The ends of a tension stand for versions in force, and one that is frozen stands for
  itself only (`TensionOK`). `apply_conflict` looks at the freeze of the two *ends*,
  and `submit_verdicts` then merges their *representatives*: what makes the two agree
  is that `close_retired_relations` drops every tension with an end that has been
  retired, in the same transaction in which anything becomes frozen.

A batch is judged once and applied decision by decision, so the second decision is
applied to a state it was not judged against. `Batch` says what holds in between: no
target of a review has been retired, and while the version that scored highest is in
force, the others of the claim are too, or have been merged into it for having its
value. `Decided` is what normalisation promises about a decision, and
`DecisionApplies` shows that each of them keeps `Batch`.

The only assumptions are the named ones in the modules: limits are natural
numbers, attempt limits, steps and the capacity of the task machine's queue are
positive, a pass lists at least one unit, captures, signals and operations are
finitely many, every signal has a key, the two loops consume disjoint sets of kinds.

**Only model-checked.** Everything about liveness: `EverySignalSettles`,
`EveryUnitConfirmed`, `EveryTurnDelivered` and `OwedIsServed`, since the prover has no
rules for fairness here. Every other property of a passing run is a theorem.

## 6. Plan

Done: `TaskStore` first, because every other part commits through it; then
`UnitPipeline` and `Delivery`, which bring the turns in; `Budget`; `Investigation`,
the third loop; `Review`, what becomes of the memories; and `SessionRun`, the agent
whose turns are captured.

Next would be, in this order:

1. The event log of the agent: publish with a sequence per aggregate, listeners that
   are notified after the commit, and the sync between workspaces: what becomes of the
   events of a workspace that no longer owns the session
   (`agent/opencode/src/control-plane/workspace.ts:587`).
2. Lineage with aggregates, and what capacity may retire.
3. Background jobs and permissions: waiters that outlive their caller.
4. `Signals`: the in-memory queue of a bare engine against an unbounded merging one.

## 7. Not modelled

* Floating-point dynamics of values and confidence, ranking, text rules, embeddings,
  the content of prompts and answers, pickling and the migration of old snapshots:
  no state that steps of several actors could disagree about, or no finite state.
* Most of the agent. It makes up nearly all of the lines of this repository that
  count as implementation, and most of it is generated (the SDK), tables (providers
  and their transforms, language servers), rendering (the terminal) or an interpreter
  of its own (code mode). The modules stand for the code that coordinates; by lines
  that is a small part of the repository, and no honest model would make it a large one.
* The read side of the service: health, search, statistics, the lists of reviews and
  tasks. The health view reads the memories without the lock; the service accepts that.
* Two editors on one directory: they overwrite each other's outbox file; the plugin
  does not support it.
* The evaluation harness and the analyses.
