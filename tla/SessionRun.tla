----------------------------- MODULE SessionRun -----------------------------
(***************************************************************************)
(* One session of the agent core: the durable inbox of prompts             *)
(* (session/input.ts), the coordinator that lets one drain of the session  *)
(* run at a time (session/run-coordinator.ts), and the drain itself        *)
(* (session/runner/llm.ts), which promotes prompts into the conversation,  *)
(* asks the model and settles the tool calls of its answer.                *)
(*                                                                         *)
(* Callers prompt, resume and interrupt concurrently with the drain; a     *)
(* step is what runs between two points where a fiber may yield, and the   *)
(* commit of one durable event is one step.  A crash loses every fiber,    *)
(* caller and coordinator entry and keeps the database.  Sessions share    *)
(* nothing here, so there is one.  The content of prompts, answers and     *)
(* results is left out: an input is its delivery mode, a tool call its     *)
(* outcome.  A compaction builds the request again, promotes nothing and   *)
(* changes nothing that is modelled.                                       *)
(*                                                                         *)
(* Definitions with _Faulty in their name are plausible mistakes, used by  *)
(* nothing.                                                                *)
(***************************************************************************)
EXTENDS Naturals, FiniteSets

CONSTANTS
  Inputs,    \* message ids a caller may prompt with
  Callers,   \* concurrent callers of the session service
  Calls,     \* tool calls the model may make, numbered: a bound
  Fibers,    \* identities of drain fibers, recycled when one ends
  MaxSteps   \* agent.steps: the last step of a chain has no tools

ASSUME ConstantsAssumption ==
  /\ Calls \subseteq Nat
  /\ MaxSteps \in Nat \ {0}
  /\ Inputs # {} /\ Fibers # {}

VARIABLES
  sequence,  \* the session's sequence, counted in admissions only: it is
             \* compared with the admitted_seq of inbox rows and nothing else
  inbox,     \* session_input rows, by message id
  call,      \* durable state of each tool call
  hosted,    \* calls the provider executes itself
  entry,     \* the coordinator's entry for the session
  drain,     \* what each drain fiber is doing
  caller,    \* what each caller is doing
  owed       \* inputs whose wake no interrupt, failed drain or crash voided

vars == <<sequence, inbox, call, hosted, entry, drain, caller, owed>>

Deliveries == {"steer", "queue"}
NoRow == [delivery |-> "steer", admitted |-> 0, promoted |-> FALSE]
Rows == [delivery : Deliveries, admitted : 0 .. sequence,
         promoted : BOOLEAN]
CallStates == {"none", "running", "success", "failed"}

Phases == {"idle", "look", "lookQueue", "failOpen", "prepare", "promoteQueued",
           "pickSteers", "promoteSteers", "request", "stream", "await",
           "lookAgain", "lookQueueAgain"}
Drains == [at : Phases,
           force : BOOLEAN,                         \* run, not wake, started it
           promotion : {"none"} \cup Deliveries,
           cutoff : Nat, batch : SUBSET Inputs,     \* of promoteSteers
           step : Nat, spent : Nat,  \* turns ended since an input was promoted
           mine : SUBSET Calls,                     \* the publisher's tools
           live : SUBSET Calls,                     \* tool fibers running
           refused : BOOLEAN,                       \* providerFailed
           failed : BOOLEAN,                        \* the stream failed
           tools : {"ok", "failed", "declined"},    \* what join reports
           signaled : BOOLEAN]                      \* Fiber.interrupt was called

Fresh(force) ==
  [at |-> "look", force |-> force, promotion |-> "none", cutoff |-> 0,
   batch |-> {}, step |-> 1, spent |-> 0, mine |-> {}, live |-> {},
   refused |-> FALSE, failed |-> FALSE, tools |-> "ok", signaled |-> FALSE]
IdleDrain == [Fresh(FALSE) EXCEPT !.at = "idle"]

Entries == [live : BOOLEAN, pendingWake : BOOLEAN, stopping : BOOLEAN,
            owner : Fibers]
NewEntry(f) ==
  [live |-> TRUE, pendingWake |-> FALSE, stopping |-> FALSE, owner |-> f]
NoEntry == [NewEntry(CHOOSE f \in Fibers : TRUE) EXCEPT !.live = FALSE]

\* What a caller does: nothing; inside prompt, about to commit the input or to
\* wake the session; inside run, waiting for the entry or, because it is
\* stopping, to run again; inside interrupt, waiting for the fiber to end.
CallerStates == {"idle", "publish", "wake", "joined", "delayed", "again",
                 "stopping"}
CallerRecords == [at : CallerStates, input : Inputs, delivery : Deliveries]
IdleCaller == [at |-> "idle", input |-> CHOOSE i \in Inputs : TRUE,
               delivery |-> "steer"]

TypeOK ==
  /\ sequence \in Nat
  /\ inbox \in [Inputs -> Rows]
  /\ call \in [Calls -> CallStates]
  /\ hosted \subseteq Calls
  /\ entry \in Entries
  /\ drain \in [Fibers -> Drains]
  /\ caller \in [Callers -> CallerRecords]
  /\ owed \subseteq Inputs

Init ==
  /\ sequence = 0
  /\ inbox = [i \in Inputs |-> NoRow]
  /\ call = [t \in Calls |-> "none"]
  /\ hosted = {}
  /\ entry = NoEntry
  /\ drain = [f \in Fibers |-> IdleDrain]
  /\ caller = [c \in Callers |-> IdleCaller]
  /\ owed = {}

-----------------------------------------------------------------------------
\* The inbox.

Admitted(i) == inbox[i].admitted > 0
Pending(d) == {i \in Inputs : /\ Admitted(i) /\ ~inbox[i].promoted
                              /\ inbox[i].delivery = d}
Earliest(S) == {i \in S :
                  \A j \in S : inbox[i].admitted <= inbox[j].admitted}

\* publish(Prompted) with projectPrompted: for a row that was promoted
\* meanwhile it is a LifecycleConflict, which is rolled back and swallowed.
Promote(i) ==
  /\ inbox' = [inbox EXCEPT ![i].promoted = TRUE]
  /\ owed' = owed \ {i}
  /\ UNCHANGED sequence

-----------------------------------------------------------------------------
\* The coordinator.

\* run or wake on an idle key; the first fiber that is free gets the drain.
FreeFibers == {f \in Fibers : drain[f].at = "idle"}
StartDrain(force) ==
  LET f == CHOOSE g \in FreeFibers : TRUE IN
  /\ ~entry.live /\ FreeFibers # {}
  /\ drain' = [drain EXCEPT ![f] = Fresh(force)]
  /\ entry' = NewEntry(f)

Wake_Faulty ==
  \/ /\ entry.live
     /\ entry' = [entry EXCEPT !.pendingWake = entry.stopping]
     /\ UNCHANGED drain
  \/ StartDrain(FALSE)
Wake ==
  \/ /\ entry.live
     /\ entry' = [entry EXCEPT !.pendingWake = TRUE]
     /\ UNCHANGED drain
  \/ StartDrain(FALSE)

\* Those who wait for entry.done, and for the end of the fiber, go on.
Released ==
  [c \in Callers |->
     CASE caller[c].at \in {"joined", "stopping"} -> IdleCaller
       [] caller[c].at = "delayed" -> [IdleCaller EXCEPT !.at = "again"]
       [] OTHER -> caller[c]]

\* settle(): the drain of fiber f ended.  A wake that came meanwhile runs
\* again on the same entry after a success, on a successor otherwise.
Settle_Faulty(f, success) ==
  /\ drain' = [drain EXCEPT ![f] = IF success /\ entry.pendingWake
                                   THEN Fresh(FALSE) ELSE IdleDrain]
  /\ entry' = IF success /\ entry.pendingWake THEN NewEntry(f) ELSE NoEntry
  /\ caller' = IF success /\ entry.pendingWake THEN caller ELSE Released
  /\ UNCHANGED owed
Settle(f, success) ==
  LET restart == success /\ ~entry.stopping /\ entry.pendingWake IN
  /\ drain' = [drain EXCEPT ![f] = IF entry.pendingWake THEN Fresh(FALSE)
                                   ELSE IdleDrain]
  /\ entry' = IF entry.pendingWake THEN NewEntry(f) ELSE NoEntry
  /\ caller' = IF restart THEN caller ELSE Released
  /\ owed' = IF success \/ entry.pendingWake THEN owed ELSE {}

-----------------------------------------------------------------------------
\* The callers.

\* V2Session.prompt up to the first look at the inbox, which finds no row ...
Prompt(c, i, d) ==
  /\ caller[c].at = "idle"
  /\ ~Admitted(i)
  /\ caller' = [caller EXCEPT ![c] =
                  [at |-> "publish", input |-> i, delivery |-> d]]
  /\ UNCHANGED <<sequence, inbox, call, hosted, entry, drain, owed>>

\* ... or the row of an earlier prompt with the same delivery; with another
\* one it is a conflict, and without resume nothing follows.
Retry(c, i) ==
  /\ caller[c].at = "idle"
  /\ Admitted(i)
  /\ caller' = [caller EXCEPT ![c] =
                  [IdleCaller EXCEPT !.at = "wake", !.input = i]]
  /\ UNCHANGED <<sequence, inbox, call, hosted, entry, drain, owed>>

\* publish(PromptAdmitted): the row of another caller is a LifecycleConflict,
\* after which admit returns the stored row, compared as in a retry.
PublishAdmitted_Faulty(c, resume) ==
  LET i == caller[c].input IN
  /\ caller[c].at = "publish"
  /\ inbox' = [inbox EXCEPT ![i] = [delivery |-> caller[c].delivery,
                                    admitted |-> sequence + 1,
                                    promoted |-> FALSE]]
  /\ sequence' = sequence + 1
  /\ caller' = [caller EXCEPT ![c] =
       IF resume THEN [IdleCaller EXCEPT !.at = "wake", !.input = i]
       ELSE IdleCaller]
  /\ UNCHANGED <<call, hosted, entry, drain, owed>>
PublishAdmitted(c, resume) ==
  LET i == caller[c].input
      d == caller[c].delivery
      row == IF Admitted(i) THEN inbox[i]
             ELSE [delivery |-> d, admitted |-> sequence + 1,
                   promoted |-> FALSE] IN
  /\ caller[c].at = "publish"
  /\ inbox' = [inbox EXCEPT ![i] = row]
  /\ sequence' = IF Admitted(i) THEN sequence ELSE sequence + 1
  /\ caller' = [caller EXCEPT ![c] =
       IF row.delivery = d /\ resume
       THEN [IdleCaller EXCEPT !.at = "wake", !.input = i] ELSE IdleCaller]
  /\ UNCHANGED <<call, hosted, entry, drain, owed>>

\* The last step of prompt: execution.wake.
Return(c) ==
  LET i == caller[c].input IN
  /\ caller[c].at = "wake"
  /\ caller' = [caller EXCEPT ![c] = IdleCaller]
  /\ Wake
  /\ owed' = IF inbox[i].promoted THEN owed ELSE owed \cup {i}
  /\ UNCHANGED <<sequence, inbox, call, hosted>>

\* run(): joins the entry, waits when it is stopping, or starts a drain.
Resume(c) ==
  /\ caller[c].at \in {"idle", "again"}
  /\ \/ /\ entry.live
        /\ caller' = [caller EXCEPT ![c] =
             [IdleCaller EXCEPT !.at = IF entry.stopping THEN "delayed"
                                       ELSE "joined"]]
        /\ UNCHANGED <<entry, drain>>
     \/ /\ StartDrain(TRUE)
        /\ caller' = [caller EXCEPT ![c] = [IdleCaller EXCEPT !.at = "joined"]]
  /\ UNCHANGED <<sequence, inbox, call, hosted, owed>>

\* interrupt(): nothing to do on an idle key.
Interrupt_Faulty(c) ==
  /\ caller[c].at = "idle"
  /\ entry.live
  /\ entry' = NoEntry
  /\ drain' = [drain EXCEPT ![entry.owner] = [@ EXCEPT !.signaled = TRUE]]
  /\ caller' = [caller EXCEPT ![c] = [IdleCaller EXCEPT !.at = "stopping"]]
  /\ owed' = {}
  /\ UNCHANGED <<sequence, inbox, call, hosted>>
Interrupt(c) ==
  /\ caller[c].at = "idle"
  /\ entry.live
  /\ entry' = [entry EXCEPT !.stopping = TRUE, !.pendingWake = FALSE]
  /\ drain' = [drain EXCEPT ![entry.owner] = [@ EXCEPT !.signaled = TRUE]]
  /\ caller' = [caller EXCEPT ![c] = [IdleCaller EXCEPT !.at = "stopping"]]
  /\ owed' = {}
  /\ UNCHANGED <<sequence, inbox, call, hosted>>

Crash ==
  /\ entry' = NoEntry
  /\ drain' = [f \in Fibers |-> IdleDrain]
  /\ caller' = [c \in Callers |-> IdleCaller]
  /\ owed' = {}
  /\ UNCHANGED <<sequence, inbox, call, hosted>>

-----------------------------------------------------------------------------
\* The drain.  Moves(f, phases) is the guard of a step an interrupt prevents.

Moves(f, phase) == drain[f].at = phase /\ ~drain[f].signaled
Goes(f, to) == drain' = [drain EXCEPT ![f] = [@ EXCEPT !.at = to]]

\* run(): look for steering input first, for queued input only without it.
LookSteer(f) ==
  /\ Moves(f, "look")
  /\ drain' = [drain EXCEPT ![f] =
       IF Pending("steer") # {}
       THEN [@ EXCEPT !.at = "failOpen", !.force = FALSE, !.promotion = "steer"]
       ELSE [@ EXCEPT !.at = "lookQueue", !.promotion = "none"]]
  /\ UNCHANGED <<sequence, inbox, call, hosted, entry, caller, owed>>

LookQueue(f) ==
  LET queued == Pending("queue") # {} IN
  /\ Moves(f, "lookQueue")
  /\ \/ /\ queued \/ drain[f].force
        /\ drain' = [drain EXCEPT ![f] =
             [@ EXCEPT !.at = "failOpen", !.force = FALSE,
                       !.promotion = IF queued THEN "queue" ELSE "none"]]
        /\ UNCHANGED <<entry, caller, owed>>
     \/ /\ ~queued /\ ~drain[f].force
        /\ Settle(f, TRUE)
  /\ UNCHANGED <<sequence, inbox, call, hosted>>

\* failInterruptedTools: calls an earlier process left without an outcome.
FailOpen_Faulty(f) ==
  /\ Moves(f, "failOpen")
  /\ Goes(f, "prepare")
  /\ UNCHANGED <<sequence, inbox, call, hosted, entry, caller, owed>>
FailOpen(f) ==
  /\ Moves(f, "failOpen")
  /\ \/ /\ \E t \in Calls : /\ call[t] = "running"
                            /\ call' = [call EXCEPT ![t] = "failed"]
        /\ UNCHANGED drain
     \/ /\ \A t \in Calls : call[t] # "running"
        /\ Goes(f, "prepare")
        /\ UNCHANGED call
  /\ UNCHANGED <<sequence, inbox, hosted, entry, caller, owed>>

\* A turn begins: the cutoff is the sequence before anything is promoted.
Prepare(f) ==
  /\ Moves(f, "prepare")
  /\ drain' = [drain EXCEPT ![f] =
       [@ EXCEPT !.cutoff = IF drain[f].promotion = "none" THEN 0 ELSE sequence,
                 !.promotion = "none",
                 !.at = CASE drain[f].promotion = "none" -> "request"
                          [] drain[f].promotion = "steer" -> "pickSteers"
                          [] drain[f].promotion = "queue" -> "promoteQueued"]]
  /\ UNCHANGED <<sequence, inbox, call, hosted, entry, caller, owed>>

\* promoteNextQueued: the oldest queued input alone.
PromoteQueued(f) ==
  /\ Moves(f, "promoteQueued")
  /\ \/ /\ \E i \in Earliest(Pending("queue")) : Promote(i)
        /\ drain' = [drain EXCEPT ![f] =
             [@ EXCEPT !.at = "pickSteers", !.step = 1, !.spent = 0]]
     \/ /\ Pending("queue") = {}
        /\ Goes(f, "pickSteers")
        /\ UNCHANGED <<sequence, inbox, owed>>
  /\ UNCHANGED <<call, hosted, entry, caller>>

\* promoteSteers: select the rows up to the cutoff, then publish in order.
PickSteers(f) ==
  LET rows == {i \in Pending("steer") : inbox[i].admitted <= drain[f].cutoff}
  IN
  /\ Moves(f, "pickSteers")
  /\ drain' = [drain EXCEPT ![f] =
       [@ EXCEPT !.batch = rows, !.cutoff = 0,
                 !.at = IF rows = {} THEN "request" ELSE "promoteSteers"]]
  /\ UNCHANGED <<sequence, inbox, call, hosted, entry, caller, owed>>

PromoteSteer(f) ==
  /\ Moves(f, "promoteSteers")
  /\ \E i \in Earliest(drain[f].batch) :
       /\ Promote(i)
       /\ drain' = [drain EXCEPT ![f] =
            [@ EXCEPT !.batch = drain[f].batch \ {i},
                      !.step = 1, !.spent = 0,
                      !.at = IF drain[f].batch = {i} THEN "request"
                             ELSE "promoteSteers"]]
  /\ UNCHANGED <<call, hosted, entry, caller>>

\* llm.stream(request)
Ask(f) ==
  /\ Moves(f, "request")
  /\ drain' = [drain EXCEPT ![f] = [@ EXCEPT !.at = "stream"]]
  /\ UNCHANGED <<sequence, inbox, call, hosted, entry, caller, owed>>

\* The calls of a set that have no outcome yet fail.
FailUnsettled(S) ==
  [t \in Calls |-> IF t \in S /\ call[t] = "running" THEN "failed" ELSE call[t]]

\* A tool call of the answer: the provider runs a hosted one, a local one gets
\* a fiber, or fails with every unsettled call when the last step has no tools.
LastStep_Faulty(f) == drain[f].step > MaxSteps
LastStep(f) == drain[f].step >= MaxSteps
CallTool(f, t, byProvider) ==
  /\ Moves(f, "stream") /\ ~drain[f].refused
  /\ call[t] = "none" /\ \A u \in Calls : u < t => call[u] # "none"
  /\ hosted' = IF byProvider THEN hosted \cup {t} ELSE hosted
  /\ call' = IF ~byProvider /\ LastStep(f)
             THEN [FailUnsettled(drain[f].mine) EXCEPT ![t] = "failed"]
             ELSE [call EXCEPT ![t] = "running"]
  /\ drain' = [drain EXCEPT ![f] =
       [@ EXCEPT !.mine = drain[f].mine \cup {t},
                 !.live = IF byProvider \/ LastStep(f) THEN drain[f].live
                          ELSE drain[f].live \cup {t}]]
  /\ UNCHANGED <<sequence, inbox, entry, caller, owed>>

\* The provider reports the result of a call it executed.
HostedResult(f, t, outcome) ==
  /\ Moves(f, "stream") /\ ~drain[f].refused
  /\ t \in drain[f].mine \cap hosted /\ call[t] = "running"
  /\ call' = [call EXCEPT ![t] = outcome]
  /\ UNCHANGED <<sequence, inbox, hosted, entry, drain, caller, owed>>

\* A provider error event: the rest of the stream is ignored.
ProviderError(f) ==
  /\ Moves(f, "stream") /\ ~drain[f].refused
  /\ drain' = [drain EXCEPT ![f] = [@ EXCEPT !.refused = TRUE]]
  /\ UNCHANGED <<sequence, inbox, call, hosted, entry, caller, owed>>

\* The stream ends; an LLMError fails the hosted calls, a defect nothing.
StreamEnds(f, how) ==
  /\ Moves(f, "stream")
  /\ drain' = [drain EXCEPT ![f] =
       [@ EXCEPT !.at = "await", !.failed = how # "ok"]]
  /\ call' = IF how = "failed" /\ ~drain[f].refused
             THEN FailUnsettled(drain[f].mine \cap hosted) ELSE call
  /\ UNCHANGED <<sequence, inbox, hosted, entry, caller, owed>>

\* A tool fiber publishes its result: one that was settled stays as it is.
ToolReturns(f, t, outcome) ==
  /\ drain[f].at \in {"stream", "await"} /\ t \in drain[f].live
  /\ call' = [call EXCEPT ![t] = IF @ = "running" THEN outcome ELSE @]
  /\ drain' = [drain EXCEPT ![f] = [@ EXCEPT !.live = drain[f].live \ {t}]]
  /\ UNCHANGED <<sequence, inbox, hosted, entry, caller, owed>>

\* A tool fiber ends without a result: its output cannot be stored, it has a
\* defect, or the user declined it.  The first one is what join reports.
ToolBreaks(f, t, how) ==
  /\ drain[f].at \in {"stream", "await"} /\ t \in drain[f].live
  /\ drain' = [drain EXCEPT ![f] =
       [@ EXCEPT !.live = drain[f].live \ {t},
                 !.tools = IF drain[f].tools = "ok" THEN how
                           ELSE drain[f].tools]]
  /\ UNCHANGED <<sequence, inbox, call, hosted, entry, caller, owed>>

\* needsContinuation: a local tool was started.
NeedsContinuation(f) ==
  ~drain[f].refused /\ ~LastStep(f) /\ drain[f].mine \ hosted # {}

\* awaitToolFibers ends when all tools did or one broke; what follows cannot
\* be interrupted.  Calls without an outcome get one, the scope of the turn
\* ends its fibers, and the drain fails, takes another turn or looks for input.
FinishTurn(f) ==
  LET d == drain[f] IN
  /\ Moves(f, "await")
  /\ d.live = {} \/ d.tools # "ok"
  /\ call' = FailUnsettled(IF d.tools # "ok" \/ d.refused THEN d.mine
                           ELSE IF d.failed THEN {} ELSE d.mine \cap hosted)
  /\ \/ /\ d.tools = "declined" \/ d.failed
        /\ Settle(f, FALSE)
     \/ /\ d.tools # "declined" /\ ~d.failed
        /\ drain' = [drain EXCEPT ![f] =
             [Fresh(FALSE) EXCEPT
                !.at = IF NeedsContinuation(f) THEN "prepare" ELSE "lookAgain",
                !.promotion = "steer", !.step = d.step + 1,
                !.spent = d.spent + 1]]
        /\ UNCHANGED <<entry, caller, owed>>
  /\ UNCHANGED <<sequence, inbox, hosted>>

\* The interrupt reaches the stream or the wait for the tools: their fibers
\* are ended (FiberSet.clear) and every call without an outcome fails.
TurnInterrupted(f) ==
  /\ drain[f].at \in {"stream", "await"} /\ drain[f].signaled
  /\ call' = FailUnsettled(drain[f].mine)
  /\ Settle(f, FALSE)
  /\ UNCHANGED <<sequence, inbox, hosted>>

\* The turn needs no continuation: steering input does, then queued input.
LookSteerAgain(f) ==
  /\ Moves(f, "lookAgain")
  /\ Goes(f, IF Pending("steer") # {} THEN "prepare" ELSE "lookQueueAgain")
  /\ UNCHANGED <<sequence, inbox, call, hosted, entry, caller, owed>>

LookQueueAgain(f) ==
  /\ Moves(f, "lookQueueAgain")
  /\ \/ /\ Pending("queue") # {}
        /\ drain' = [drain EXCEPT ![f] =
             [@ EXCEPT !.at = "prepare", !.promotion = "queue", !.step = 1]]
        /\ UNCHANGED <<entry, caller, owed>>
     \/ /\ Pending("queue") = {}
        /\ Settle(f, TRUE)
  /\ UNCHANGED <<sequence, inbox, call, hosted>>

\* Outside the stream and its settlement a drain ends where it stands: by the
\* interrupt, or by a failure or defect of what it reads.
Breakable == Phases \ {"idle", "stream", "await"}
Interrupted(f) ==
  /\ drain[f].at \in Breakable /\ drain[f].signaled
  /\ Settle(f, FALSE)
  /\ UNCHANGED <<sequence, inbox, call, hosted>>
Fail(f) ==
  /\ drain[f].at \in Breakable /\ ~drain[f].signaled
  /\ Settle(f, FALSE)
  /\ UNCHANGED <<sequence, inbox, call, hosted>>

-----------------------------------------------------------------------------
Outcomes == {"success", "failed"}

Turn(f) ==
  \/ Ask(f)
  \/ \E t \in Calls : \/ \E byProvider \in BOOLEAN : CallTool(f, t, byProvider)
                      \/ \E o \in Outcomes : HostedResult(f, t, o)
                      \/ \E o \in Outcomes : ToolReturns(f, t, o)
                      \/ \E how \in {"failed", "declined"} : ToolBreaks(f, t, how)
  \/ ProviderError(f)
  \/ \E how \in {"ok", "failed", "died"} : StreamEnds(f, how)
  \/ FinishTurn(f) \/ TurnInterrupted(f)

Advance(f) ==
  \/ LookSteer(f) \/ LookQueue(f) \/ FailOpen(f) \/ Prepare(f)
  \/ PromoteQueued(f) \/ PickSteers(f) \/ PromoteSteer(f) \/ Turn(f)
  \/ LookSteerAgain(f) \/ LookQueueAgain(f) \/ Interrupted(f)

Prompts(c) ==
  \/ \E i \in Inputs : Retry(c, i) \/ \E d \in Deliveries : Prompt(c, i, d)
  \/ \E resume \in BOOLEAN : PublishAdmitted(c, resume)
  \/ Return(c)

Next ==
  \/ \E f \in Fibers : Advance(f) \/ Fail(f)
  \/ \E c \in Callers : Prompts(c) \/ Resume(c) \/ Interrupt(c)
  \/ Crash

Spec == Init /\ [][Next]_vars

\* The event loop runs every fiber that can move; the provider's answer and
\* the tools end.
FairSpec ==
  /\ Spec
  /\ \A f \in Fibers : WF_vars(Advance(f))

-----------------------------------------------------------------------------
\* "Serializes execution for each key": however prompts, resumes, interrupts
\* and failures interleave, at most one drain of the session is alive, and it
\* is the one the coordinator's entry owns.
OneDrain ==
  \A f \in Fibers :
    drain[f].at # "idle" => entry.live /\ entry.owner = f

\* The phases from which a drain still looks for input of a delivery.
WillLook(d) ==
  IF d = "steer" THEN Phases \ {"idle", "lookQueue", "lookQueueAgain"}
  ELSE Phases \ {"idle"}

\* No wake-up is lost: an input whose wake was not voided is either going to
\* be seen by the drain that runs, or has a follow-up registered.
NoLostWakeup ==
  \A i \in owed :
    /\ entry.live
    /\ LET d == drain[entry.owner] IN
         \/ entry.pendingWake
         \/ ~d.signaled /\ d.at \in WillLook(inbox[i].delivery)

\* The loop a model may drive with its own tool calls ends: between two
\* promotions no more than MaxSteps turns are taken, although continuations,
\* steering and compaction all pass the step on.
ToolLoopBounded == \A f \in Fibers : drain[f].spent <= MaxSteps

\* The session keeps the promise of SessionPromise through interleaving
\* callers, interrupts, failing tools and streams, and crashes.
Promise == INSTANCE SessionPromise WITH
  place <- [i \in Inputs |-> inbox[i].admitted],
  delivery <- [i \in Inputs |-> inbox[i].delivery],
  shown <- {i \in Inputs : inbox[i].promoted},
  call <- call,
  asking <- \E f \in Fibers : drain[f].at = "stream"
KeepsPromise == Promise!Spec

\* Unless drains fail again and again before they promote, an input whose wake
\* was not voided is promoted, or voided later: it never just stays pending.
OwedIsServed ==
  <>[][\A f \in Fibers : ~Fail(f)]_vars
    => \A i \in Inputs : (i \in owed) ~> (i \notin owed)
=============================================================================
