------------------------- MODULE SessionRun_proofs --------------------------
(***************************************************************************)
(* Proofs about a session, for any inputs, callers, tool calls and agent   *)
(* steps: one drain at a time, no wake-up lost, a bounded tool loop, and   *)
(* the session implements SessionPromise.                                  *)
(***************************************************************************)
EXTENDS SessionRun, TLAPS

-----------------------------------------------------------------------------
(* Types                                                                   *)

LEMMA FreshType ==
  ASSUME NEW force \in BOOLEAN
  PROVE  Fresh(force) \in Drains /\ IdleDrain \in Drains
BY ConstantsAssumption DEF Fresh, IdleDrain, Drains, Phases, Deliveries

LEMMA EntryType ==
  /\ NoEntry \in Entries /\ ~NoEntry.live /\ ~NoEntry.pendingWake
  /\ \A f \in Fibers :
       /\ NewEntry(f) \in Entries
       /\ NewEntry(f).live /\ NewEntry(f).owner = f
       /\ ~NewEntry(f).pendingWake
<1>1. (CHOOSE f \in Fibers : TRUE) \in Fibers
  BY ConstantsAssumption
<1> QED
  BY <1>1 DEF NoEntry, NewEntry, Entries

LEMMA CallerType ==
  IdleCaller \in CallerRecords
<1>1. (CHOOSE i \in Inputs : TRUE) \in Inputs
  BY ConstantsAssumption
<1> QED
  BY <1>1 DEF IdleCaller, CallerRecords, CallerStates, Deliveries

LEMMA FailType ==
  ASSUME TypeOK, NEW S
  PROVE  FailUnsettled(S) \in [Calls -> CallStates]
BY DEF TypeOK, FailUnsettled, CallStates

LEMMA ReleasedType ==
  ASSUME TypeOK
  PROVE  Released \in [Callers -> CallerRecords]
<1> SUFFICES ASSUME NEW c \in Callers
             PROVE  Released[c] \in CallerRecords
  BY DEF Released
<1>1. caller[c] \in CallerRecords
  BY DEF TypeOK
<1>2. [IdleCaller EXCEPT !.at = "again"] \in CallerRecords
  BY CallerType DEF CallerRecords, CallerStates
<1> QED
  BY <1>1, <1>2, CallerType DEF Released

\* The fiber StartDrain picks was free, and it becomes the entry's owner.
LEMMA Started ==
  ASSUME TypeOK, NEW force \in BOOLEAN, StartDrain(force)
  PROVE  \E f \in Fibers :
           /\ ~entry.live /\ drain[f].at = "idle"
           /\ drain' = [drain EXCEPT ![f] = Fresh(force)]
           /\ entry' = NewEntry(f)
<1>1. (CHOOSE f \in FreeFibers : TRUE) \in FreeFibers
  BY DEF StartDrain
<1> QED
  BY <1>1 DEF StartDrain, FreeFibers

LEMMA StartType ==
  ASSUME TypeOK, NEW force \in BOOLEAN, StartDrain(force)
  PROVE  drain' \in [Fibers -> Drains] /\ entry' \in Entries
<1>1. PICK f \in Fibers : /\ drain' = [drain EXCEPT ![f] = Fresh(force)]
                          /\ entry' = NewEntry(f)
  BY Started
<1> QED
  BY <1>1, FreshType, EntryType DEF TypeOK

LEMMA WakeType ==
  ASSUME TypeOK, Wake
  PROVE  drain' \in [Fibers -> Drains] /\ entry' \in Entries
<1>1. CASE StartDrain(FALSE)
  BY <1>1, StartType
<1>2. CASE /\ entry' = [entry EXCEPT !.pendingWake = TRUE]
           /\ UNCHANGED drain
  BY <1>2 DEF TypeOK, Entries
<1> QED
  BY <1>1, <1>2 DEF Wake

LEMMA SettleType ==
  ASSUME TypeOK, NEW f \in Fibers, NEW success \in BOOLEAN, Settle(f, success)
  PROVE  /\ drain' \in [Fibers -> Drains] /\ entry' \in Entries
         /\ caller' \in [Callers -> CallerRecords] /\ owed' \subseteq Inputs
<1>1. drain' \in [Fibers -> Drains]
  BY FreshType DEF Settle, TypeOK
<1>2. entry' \in Entries
  BY EntryType DEF Settle
<1>3. caller' \in [Callers -> CallerRecords] /\ owed' \subseteq Inputs
  BY ReleasedType DEF Settle, TypeOK
<1> QED
  BY <1>1, <1>2, <1>3

LEMMA DrainType ==
  ASSUME TypeOK, NEW f \in Fibers,
         drain' = [drain EXCEPT ![f] = drain'[f]], drain'[f] \in Drains
  PROVE  drain' \in [Fibers -> Drains]
BY DEF TypeOK

LEMMA QueueType ==
  ASSUME NEW d \in Drains
  PROVE  [d EXCEPT !.at = "prepare", !.promotion = "queue", !.step = 1]
           \in Drains
BY DEF Drains, Phases, Deliveries

LEMMA ResetType ==
  ASSUME NEW d \in Drains
  PROVE  [d EXCEPT !.at = "pickSteers", !.step = 1, !.spent = 0] \in Drains
BY DEF Drains, Phases

LEMMA BatchType ==
  ASSUME NEW d \in Drains, NEW S \in SUBSET Inputs, NEW p \in Phases
  PROVE  [d EXCEPT !.batch = S, !.step = 1, !.spent = 0, !.at = p] \in Drains
BY DEF Drains

LEMMA GoesType ==
  ASSUME TypeOK, NEW f \in Fibers, NEW to \in Phases, Goes(f, to)
  PROVE  drain' \in [Fibers -> Drains]
BY DEF TypeOK, Goes, Drains

\* Rows stay rows when the sequence grows.
LEMMA RowType ==
  ASSUME TypeOK, sequence' \in Nat, sequence <= sequence',
         NEW row \in Rows
  PROVE  row \in Rows'
<1>1. PICK d \in Deliveries, n \in 0 .. sequence, b \in BOOLEAN :
        row = [delivery |-> d, admitted |-> n, promoted |-> b]
  BY DEF Rows
<1>2. n \in 0 .. sequence'
  BY DEF TypeOK
<1> QED
  BY <1>1, <1>2 DEF Rows

LEMMA PromoteType ==
  ASSUME TypeOK, NEW i \in Inputs, Promote(i)
  PROVE  /\ sequence' = sequence /\ inbox' \in [Inputs -> Rows']
         /\ owed' \subseteq Inputs
BY DEF TypeOK, Promote, Rows

LEMMA PublishType ==
  ASSUME TypeOK, NEW c \in Callers, NEW resume \in BOOLEAN,
         PublishAdmitted(c, resume)
  PROVE  TypeOK'
<1> DEFINE i == caller[c].input
           d == caller[c].delivery
           row == IF Admitted(i) THEN inbox[i]
                  ELSE [delivery |-> d, admitted |-> sequence + 1,
                        promoted |-> FALSE]
<1>1. i \in Inputs /\ d \in Deliveries /\ inbox[i] \in Rows
  BY DEF TypeOK, CallerRecords
<1>2. sequence' \in Nat /\ sequence <= sequence'
  BY DEF TypeOK, PublishAdmitted
<1>3. row \in Rows'
  <2>1. CASE Admitted(i)
    BY <1>1, <1>2, <2>1, RowType
  <2>2. CASE ~Admitted(i)
    <3>1. sequence' = sequence + 1
      BY <2>2 DEF PublishAdmitted
    <3> QED
      BY <1>1, <1>2, <2>2, <3>1 DEF Rows
  <2> QED
    BY <2>1, <2>2
<1>4. inbox' \in [Inputs -> Rows']
  <2>1. inbox' = [inbox EXCEPT ![i] = row]
    BY DEF PublishAdmitted
  <2>2. \A j \in Inputs : inbox[j] \in Rows'
    BY <1>2, RowType DEF TypeOK
  <2> QED
    BY <1>3, <2>1, <2>2 DEF TypeOK
<1>5. caller' \in [Callers -> CallerRecords]
  <2>1. [IdleCaller EXCEPT !.at = "wake", !.input = i] \in CallerRecords
    BY <1>1, CallerType DEF CallerRecords, CallerStates
  <2> QED
    BY <2>1, CallerType DEF PublishAdmitted, TypeOK
<1> QED
  BY <1>2, <1>4, <1>5 DEF TypeOK, PublishAdmitted, CallStates, Drains, Entries, CallerRecords

LEMMA CallerStepType ==
  ASSUME TypeOK, NEW c \in Callers, Prompts(c) \/ Resume(c) \/ Interrupt(c)
  PROVE  TypeOK'
<1>1. CASE \E i \in Inputs, d \in Deliveries : Prompt(c, i, d)
  BY <1>1 DEF TypeOK, Prompt, CallerRecords, CallerStates, Rows
<1>2. CASE \E i \in Inputs : Retry(c, i)
  <2>1. PICK i \in Inputs : Retry(c, i)
    BY <1>2
  <2>2. [IdleCaller EXCEPT !.at = "wake", !.input = i] \in CallerRecords
    BY CallerType DEF CallerRecords, CallerStates
  <2> QED
    BY <2>1, <2>2 DEF TypeOK, Retry, Rows
<1>3. CASE \E resume \in BOOLEAN : PublishAdmitted(c, resume)
  BY <1>3, PublishType
<1>4. CASE Return(c)
  <2>1. caller[c].input \in Inputs
    BY DEF TypeOK, CallerRecords
  <2> QED
    BY <1>4, <2>1, WakeType, CallerType DEF TypeOK, Return, Rows
<1>5. CASE Resume(c)
  <2>1. \A at \in CallerStates : [IdleCaller EXCEPT !.at = at] \in CallerRecords
    BY CallerType DEF CallerRecords
  <2>2. caller' \in [Callers -> CallerRecords]
    BY <1>5, <2>1 DEF TypeOK, Resume, CallerStates
  <2>3. drain' \in [Fibers -> Drains] /\ entry' \in Entries
    BY <1>5, StartType DEF TypeOK, Resume
  <2> QED
    BY <1>5, <2>2, <2>3 DEF TypeOK, Resume, Rows
<1>6. CASE Interrupt(c)
  <2>1. [IdleCaller EXCEPT !.at = "stopping"] \in CallerRecords
    BY CallerType DEF CallerRecords, CallerStates
  <2>2. entry' \in Entries
    BY <1>6 DEF TypeOK, Interrupt, Entries
  <2>3. drain' \in [Fibers -> Drains]
    <3>1. entry.owner \in Fibers
      BY DEF TypeOK, Entries
    <3>2. drain[entry.owner] \in Drains
      BY <3>1 DEF TypeOK
    <3>3. drain'[entry.owner] \in Drains
      BY <1>6, <3>1, <3>2 DEF TypeOK, Interrupt, Drains
    <3> QED
      BY <1>6, <3>1, <3>3, DrainType DEF TypeOK, Interrupt
  <2> QED
    BY <1>6, <2>1, <2>2, <2>3 DEF TypeOK, Interrupt, Rows
<1> QED
  BY <1>1, <1>2, <1>3, <1>4, <1>5, <1>6 DEF Prompts

LEMMA CallToolType ==
  ASSUME TypeOK, NEW f \in Fibers, NEW t \in Calls, NEW byProvider \in BOOLEAN,
         CallTool(f, t, byProvider)
  PROVE  TypeOK'
<1>1. drain[f] \in Drains
  BY DEF TypeOK
<1>2. drain'[f] \in Drains
  <2> DEFINE M == drain[f].mine \cup {t}
             L == IF byProvider \/ LastStep(f) THEN drain[f].live
                  ELSE drain[f].live \cup {t}
  <2>1. M \in SUBSET Calls /\ L \in SUBSET Calls
    BY <1>1 DEF Drains
  <2>2. drain'[f] = [drain[f] EXCEPT !.mine = M, !.live = L]
    BY DEF TypeOK, CallTool
  <2> HIDE DEF M, L
  <2> QED
    BY <1>1, <2>1, <2>2 DEF Drains
<1>3. drain' \in [Fibers -> Drains]
  BY <1>2, DrainType DEF TypeOK, CallTool
<1>4. call' \in [Calls -> CallStates]
  BY FailType DEF TypeOK, CallTool, CallStates
<1> QED
  BY <1>3, <1>4 DEF TypeOK, CallTool, Rows

\* A tool fiber ends, or the provider sends an event other than a call.
LEMMA EventType ==
  ASSUME TypeOK, NEW f \in Fibers,
         \/ ProviderError(f)
         \/ \E how \in {"ok", "failed", "died"} : StreamEnds(f, how)
         \/ \E t \in Calls, o \in Outcomes : HostedResult(f, t, o)
         \/ \E t \in Calls, o \in Outcomes : ToolReturns(f, t, o)
         \/ \E t \in Calls, how \in {"failed", "declined"} : ToolBreaks(f, t, how)
  PROVE  TypeOK'
<1>1. drain[f] \in Drains
  BY DEF TypeOK
<1>2. CASE ProviderError(f)
  <2>1. drain'[f] \in Drains
    BY <1>1, <1>2 DEF TypeOK, ProviderError, Drains
  <2> QED
    BY <1>2, <2>1, DrainType DEF TypeOK, ProviderError, Rows
<1>3. CASE \E how \in {"ok", "failed", "died"} : StreamEnds(f, how)
  <2>1. drain'[f] \in Drains
    <3>1. PICK how \in {"ok", "failed", "died"} :
            drain'[f] = [drain[f] EXCEPT !.at = "await", !.failed = how # "ok"]
      BY <1>3 DEF TypeOK, StreamEnds
    <3> QED
      BY <1>1, <3>1 DEF Drains, Phases
  <2> QED
    BY <1>3, <2>1, DrainType, FailType DEF TypeOK, StreamEnds, Rows
<1>4. CASE \E t \in Calls, o \in Outcomes : HostedResult(f, t, o)
  BY <1>4 DEF TypeOK, HostedResult, Outcomes, CallStates, Rows
<1>5. CASE \E t \in Calls, o \in Outcomes : ToolReturns(f, t, o)
  <2> PICK t \in Calls, o \in Outcomes : ToolReturns(f, t, o)
    BY <1>5
  <2> DEFINE L == drain[f].live \ {t}
  <2>1. L \in SUBSET Calls
    BY <1>1 DEF Drains
  <2>2. drain'[f] = [drain[f] EXCEPT !.live = L]
    BY DEF TypeOK, ToolReturns
  <2>3. drain'[f] \in Drains
    <3> HIDE DEF L
    <3> QED
      BY <1>1, <2>1, <2>2 DEF Drains
  <2>4. drain' \in [Fibers -> Drains]
    BY <2>3, DrainType DEF TypeOK, ToolReturns
  <2> QED
    BY <2>4 DEF TypeOK, ToolReturns, Outcomes, CallStates, Rows
<1>6. CASE \E t \in Calls, how \in {"failed", "declined"} : ToolBreaks(f, t, how)
  <2> PICK t \in Calls, how \in {"failed", "declined"} : ToolBreaks(f, t, how)
    BY <1>6
  <2> DEFINE L == drain[f].live \ {t}
             report == IF drain[f].tools = "ok" THEN how ELSE drain[f].tools
  <2>1. L \in SUBSET Calls /\ report \in {"ok", "failed", "declined"}
    BY <1>1 DEF Drains
  <2>2. drain'[f] = [drain[f] EXCEPT !.live = L, !.tools = report]
    BY DEF TypeOK, ToolBreaks
  <2>3. drain'[f] \in Drains
    <3> HIDE DEF L, report
    <3> QED
      BY <1>1, <2>1, <2>2 DEF Drains
  <2> QED
    BY <2>3, DrainType DEF TypeOK, ToolBreaks, Rows
<1> QED
  BY <1>2, <1>3, <1>4, <1>5, <1>6

\* A turn that ends well leaves its successor, or the next look, to the drain.
Successor(f) ==
  [Fresh(FALSE) EXCEPT
     !.at = IF NeedsContinuation(f) THEN "prepare" ELSE "lookAgain",
     !.promotion = "steer", !.step = drain[f].step + 1,
     !.spent = drain[f].spent + 1]

LEMMA FinishType ==
  ASSUME TypeOK, NEW f \in Fibers, FinishTurn(f)
  PROVE  TypeOK'
<1>1. call' \in [Calls -> CallStates]
  BY FailType DEF FinishTurn
<1>2. CASE Settle(f, FALSE)
  BY <1>1, <1>2, SettleType DEF TypeOK, FinishTurn, Rows
<1>3. CASE /\ drain' = [drain EXCEPT ![f] = Successor(f)]
           /\ UNCHANGED <<entry, caller, owed>>
  <2>1. drain[f].step + 1 \in Nat /\ drain[f].spent + 1 \in Nat
    BY DEF TypeOK, Drains
  <2>2. Fresh(FALSE) \in Drains
    BY FreshType
  <2>3. Successor(f) \in Drains
    BY <2>1, <2>2 DEF Successor, Drains, Phases, Deliveries
  <2>4. drain' \in [Fibers -> Drains]
    BY <1>3, <2>3 DEF TypeOK
  <2> QED
    BY <1>1, <1>3, <2>4 DEF TypeOK, FinishTurn, Rows
<1> QED
  BY <1>2, <1>3 DEF FinishTurn, Successor

LEMMA TurnType ==
  ASSUME TypeOK, NEW f \in Fibers, Turn(f)
  PROVE  TypeOK'
<1>1. CASE Ask(f)
  <2>1. drain[f] \in Drains
    BY DEF TypeOK
  <2>2. drain'[f] \in Drains
    BY <1>1, <2>1 DEF TypeOK, Ask, Drains, Phases
  <2> QED
    BY <1>1, <2>2, DrainType DEF TypeOK, Ask, Rows
<1>2. CASE TurnInterrupted(f)
  BY <1>2, FailType, SettleType DEF TypeOK, TurnInterrupted, Rows
<1> QED
  BY <1>1, <1>2, CallToolType, EventType, FinishType DEF Turn

LEMMA LookType ==
  ASSUME TypeOK, NEW f \in Fibers,
         \/ LookSteer(f) \/ LookQueue(f)
         \/ LookSteerAgain(f) \/ LookQueueAgain(f)
  PROVE  TypeOK'
<1>1. drain[f] \in Drains
  BY DEF TypeOK
<1>2. CASE Settle(f, TRUE) /\ UNCHANGED <<sequence, inbox, call, hosted>>
  BY <1>2, SettleType DEF TypeOK, Rows
<1>3. CASE LookSteer(f)
  <2>1. drain'[f] \in Drains
    BY <1>1, <1>3 DEF TypeOK, LookSteer, Drains, Phases, Deliveries
  <2> QED
    BY <1>3, <2>1, DrainType DEF TypeOK, LookSteer, Rows
<1>4. CASE LookQueue(f) /\ UNCHANGED <<entry, caller, owed>>
           /\ drain' = [drain EXCEPT ![f] = drain'[f]] /\ ~Settle(f, TRUE)
  <2>1. drain'[f] \in Drains
    <3>1. drain[f].at = "lookQueue" /\ "none" \in Deliveries \cup {"none"}
      BY <1>4 DEF LookQueue, Moves
    <3>2. PICK p \in {"none"} \cup Deliveries :
            drain'[f] = [drain[f] EXCEPT !.at = "failOpen", !.force = FALSE,
                                         !.promotion = p]
      BY <1>4 DEF TypeOK, LookQueue, Deliveries
    <3> QED
      BY <1>1, <3>2 DEF Drains, Phases
  <2> QED
    BY <1>4, <2>1, DrainType DEF TypeOK, LookQueue, Rows
<1>5. CASE LookSteerAgain(f)
  BY <1>5, GoesType DEF TypeOK, LookSteerAgain, Phases, Rows
<1>6. CASE LookQueueAgain(f) /\ UNCHANGED <<entry, caller, owed>>
           /\ drain' = [drain EXCEPT ![f] = drain'[f]] /\ ~Settle(f, TRUE)
  <2>1. drain'[f] \in Drains
    <3>1. drain'[f] = [drain[f] EXCEPT !.at = "prepare", !.promotion = "queue",
                                       !.step = 1]
      BY <1>6 DEF TypeOK, LookQueueAgain
    <3> QED
      BY <1>1, <3>1, QueueType
  <2> QED
    BY <1>6, <2>1, DrainType DEF TypeOK, LookQueueAgain, Rows
<1> QED
  BY <1>2, <1>3, <1>4, <1>5, <1>6 DEF TypeOK, LookQueue, LookQueueAgain

LEMMA PrepareType ==
  ASSUME TypeOK, NEW f \in Fibers,
         \/ FailOpen(f) \/ Prepare(f) \/ PromoteQueued(f)
         \/ PickSteers(f) \/ PromoteSteer(f)
  PROVE  TypeOK'
<1>1. drain[f] \in Drains
  BY DEF TypeOK
<1>2. CASE FailOpen(f)
  BY <1>2, GoesType DEF TypeOK, FailOpen, Phases, CallStates, Rows
<1>3. CASE Prepare(f)
  <2>1. drain[f].promotion \in {"none", "steer", "queue"}
    BY <1>1 DEF Drains, Deliveries
  <2>2. drain'[f] \in Drains
    BY <1>1, <1>3, <2>1 DEF TypeOK, Prepare, Drains, Phases
  <2> QED
    BY <1>3, <2>2, DrainType DEF TypeOK, Prepare, Rows
<1>4. CASE PromoteQueued(f)
  <2>1. CASE \E i \in Earliest(Pending("queue")) : Promote(i)
    <3>1. PICK i \in Inputs : Promote(i)
      BY <2>1 DEF Earliest, Pending
    <3>2. drain'[f] \in Drains
      <4>1. CASE drain'[f] = [drain[f] EXCEPT !.at = "pickSteers"]
        BY <1>1, <4>1 DEF Drains, Phases
      <4>2. CASE drain'[f] = [drain[f] EXCEPT !.at = "pickSteers", !.step = 1,
                                              !.spent = 0]
        BY <1>1, <4>2, ResetType
      <4> QED
        BY <1>4, <4>1, <4>2 DEF TypeOK, PromoteQueued, Goes
    <3>3. drain' \in [Fibers -> Drains]
      BY <1>4, <3>2, DrainType DEF TypeOK, PromoteQueued, Goes
    <3> QED
      BY <1>4, <3>1, <3>3, PromoteType DEF TypeOK, PromoteQueued
  <2>2. CASE UNCHANGED <<sequence, inbox, owed>> /\ Goes(f, "pickSteers")
    BY <1>4, <2>2, GoesType DEF TypeOK, PromoteQueued, Phases, Rows
  <2> QED
    BY <1>4, <2>1, <2>2 DEF PromoteQueued
<1>5. CASE PickSteers(f)
  <2>1. drain'[f] \in Drains
    BY <1>1, <1>5 DEF TypeOK, PickSteers, Pending, Drains, Phases
  <2> QED
    BY <1>5, <2>1, DrainType DEF TypeOK, PickSteers, Rows
<1>6. CASE PromoteSteer(f)
  <2>1. PICK i \in drain[f].batch :
          /\ Promote(i)
          /\ drain' = [drain EXCEPT ![f] =
               [@ EXCEPT !.batch = drain[f].batch \ {i},
                         !.step = 1, !.spent = 0,
                         !.at = IF drain[f].batch = {i} THEN "request"
                                ELSE "promoteSteers"]]
    BY <1>6 DEF PromoteSteer, Earliest
  <2> DEFINE S == drain[f].batch \ {i}
             p == IF drain[f].batch = {i} THEN "request"
                  ELSE "promoteSteers"
  <2>2. S \in SUBSET Inputs /\ p \in Phases /\ i \in Inputs
    BY <1>1 DEF Drains, Phases
  <2>3. drain'[f] = [drain[f] EXCEPT !.batch = S, !.step = 1, !.spent = 0,
                                     !.at = p]
    BY <2>1 DEF TypeOK
  <2>4. drain'[f] \in Drains
    <3> HIDE DEF S, p
    <3> QED
      <4>1. [drain[f] EXCEPT !.batch = S, !.step = 1, !.spent = 0, !.at = p]
              \in Drains
        BY <1>1, <2>2, BatchType
      <4> QED
        BY <2>3, <4>1
  <2>5. drain' \in [Fibers -> Drains]
    BY <2>1, <2>4, DrainType DEF TypeOK
  <2> QED
    BY <1>6, <2>1, <2>2, <2>5, PromoteType DEF TypeOK, PromoteSteer
<1> QED
  BY <1>2, <1>3, <1>4, <1>5, <1>6

LEMMA InitType == Init => TypeOK
<1>1. NoRow \in [delivery : Deliveries, admitted : {0}, promoted : BOOLEAN]
  BY DEF NoRow, Deliveries
<1>2. 0 \in 0 .. 0
  OBVIOUS
<1> QED
  BY <1>1, <1>2, FreshType, EntryType, CallerType
  DEF Init, TypeOK, Rows, CallStates

LEMMA TypeStep ==
  ASSUME TypeOK, [Next]_vars
  PROVE  TypeOK'
<1>1. CASE UNCHANGED vars
  BY <1>1 DEF TypeOK, vars, Rows
<1>2. CASE Crash
  BY <1>2, FreshType, EntryType, CallerType DEF TypeOK, Crash, Rows
<1>3. CASE \E c \in Callers : Prompts(c) \/ Resume(c) \/ Interrupt(c)
  BY <1>3, CallerStepType
<1>4. CASE \E f \in Fibers : Interrupted(f) \/ Fail(f)
  BY <1>4, SettleType DEF TypeOK, Interrupted, Fail, Rows
<1> QED
  BY <1>1, <1>2, <1>3, <1>4, LookType, PrepareType, TurnType DEF Next, Advance

\* Every reachable state is well typed, and no row carries an admission number
\* that the session has not given out.
THEOREM TypeCorrect == Spec => []TypeOK
BY InitType, TypeStep, PTL DEF Spec
-----------------------------------------------------------------------------
(* The inductive invariant                                                 *)

Single == OneDrain /\ (entry.live => drain[entry.owner].at # "idle")

\* Between two answers every call has an outcome; within one, a call without
\* an outcome is of this turn and has a fiber, a provider or a failure.
Quiet == \A t \in Calls : call[t] # "running"
QuietPhases == {"prepare", "promoteQueued", "pickSteers", "promoteSteers",
                "request", "lookAgain", "lookQueueAgain"}
TurnOK(f) ==
  /\ drain[f].at \in QuietPhases => Quiet
  /\ drain[f].at \in {"stream", "await"} =>
       \A t \in Calls : call[t] = "running" =>
         /\ t \in drain[f].mine
         /\ t \in drain[f].live \/ t \in hosted \/ drain[f].tools # "ok"

\* The steering input being promoted leaves nothing older behind.
BatchOK(f) ==
  drain[f].at = "promoteSteers" =>
    /\ drain[f].batch \subseteq Pending("steer")
    /\ drain[f].batch # {}
    /\ \A i \in drain[f].batch, j \in Pending("steer") :
         inbox[j].admitted <= inbox[i].admitted => j \in drain[f].batch

\* A request is made within the allowance, or input that resets it is pending
\* and about to be promoted.
Within(f) == drain[f].spent < drain[f].step /\ drain[f].spent < MaxSteps
ChainOK(f) ==
  /\ drain[f].spent <= MaxSteps
  /\ drain[f].at \in {"look", "lookQueue", "failOpen"} => Within(f)
  /\ drain[f].at = "prepare" =>
       \/ Within(f)
       \/ drain[f].promotion = "steer" /\ Pending("steer") # {}
       \/ drain[f].promotion = "queue" /\ Pending("queue") # {}
  /\ drain[f].at = "promoteQueued" => Within(f) \/ Pending("queue") # {}
  /\ drain[f].at = "pickSteers" =>
       \/ Within(f)
       \/ \E i \in Pending("steer") : inbox[i].admitted <= drain[f].cutoff
  /\ drain[f].at \in {"request", "stream", "await"} => Within(f)
  /\ drain[f].at \in {"lookAgain", "lookQueueAgain"} =>
       drain[f].promotion = "steer"

DrainOK(f) == TurnOK(f) /\ BatchOK(f) /\ ChainOK(f)

CallerOK == \A c \in Callers :
              caller[c].at = "wake" => Admitted(caller[c].input)
OwedOK == \A i \in owed : Admitted(i) /\ ~inbox[i].promoted
PromotedOK == \A i \in Inputs : inbox[i].promoted => Admitted(i)

IInv ==
  /\ TypeOK
  /\ Single
  /\ \A f \in Fibers : DrainOK(f)
  /\ CallerOK
  /\ OwedOK
  /\ PromotedOK
  /\ NoLostWakeup

-----------------------------------------------------------------------------
(* One drain at a time                                                     *)

LEMMA Alone ==
  ASSUME TypeOK, Single, NEW f \in Fibers, drain[f].at # "idle"
  PROVE  /\ entry.live /\ entry.owner = f
         /\ \A g \in Fibers : g # f => drain[g].at = "idle"
BY DEF Single, OneDrain

\* A step of the drain that neither ends it nor touches the entry.
Keeps(f) ==
  /\ drain[f].at # "idle" /\ drain'[f].at # "idle"
  /\ drain' = [drain EXCEPT ![f] = drain'[f]]
  /\ UNCHANGED entry

LEMMA KeepsSingle ==
  ASSUME TypeOK, Single, NEW f \in Fibers, Keeps(f)
  PROVE  Single'
BY Alone DEF Single, OneDrain, Keeps, TypeOK

LEMMA StartsSingle ==
  ASSUME TypeOK, Single, NEW force \in BOOLEAN, StartDrain(force)
  PROVE  Single'
<1>1. PICK f \in Fibers : /\ ~entry.live
                          /\ drain' = [drain EXCEPT ![f] = Fresh(force)]
                          /\ entry' = NewEntry(f)
  BY Started
<1>2. Fresh(force).at = "look"
  BY DEF Fresh
<1> QED
  BY <1>1, <1>2, EntryType DEF Single, OneDrain, TypeOK

LEMMA WakesSingle ==
  ASSUME TypeOK, Single, Wake
  PROVE  Single'
<1>1. CASE StartDrain(FALSE)
  BY <1>1, StartsSingle
<1>2. CASE /\ entry' = [entry EXCEPT !.pendingWake = TRUE]
           /\ UNCHANGED drain
  BY <1>2 DEF TypeOK, Entries, Single, OneDrain
<1> QED
  BY <1>1, <1>2 DEF Wake

LEMMA SettlesSingle ==
  ASSUME TypeOK, Single, NEW f \in Fibers, NEW success \in BOOLEAN,
         drain[f].at # "idle", Settle(f, success)
  PROVE  Single'
<1>1. /\ \A g \in Fibers : g # f => drain[g].at = "idle"
      /\ \A g \in Fibers : g # f => drain'[g] = drain[g]
  BY Alone DEF Settle, TypeOK
<1>2. Fresh(FALSE).at = "look" /\ IdleDrain.at = "idle"
  BY DEF Fresh, IdleDrain
<1>3. CASE entry.pendingWake
  BY <1>1, <1>2, <1>3, EntryType DEF Settle, Single, OneDrain, TypeOK
<1>4. CASE ~entry.pendingWake
  BY <1>1, <1>2, <1>4, EntryType DEF Settle, Single, OneDrain, TypeOK
<1> QED
  BY <1>3, <1>4

\* Every step of a drain keeps it going or settles it.
LEMMA GoesKeeps ==
  ASSUME TypeOK, NEW f \in Fibers, NEW to \in Phases, to # "idle",
         drain[f].at # "idle", Goes(f, to), UNCHANGED entry
  PROVE  Keeps(f)
<1>1. drain[f] \in Drains
  BY DEF TypeOK
<1>2. drain'[f].at = to
  BY <1>1 DEF TypeOK, Goes, Drains
<1> QED
  BY <1>2 DEF Goes, Keeps, TypeOK

LEMMA DrainSteps ==
  ASSUME TypeOK, NEW f \in Fibers, Advance(f) \/ Fail(f)
  PROVE  \/ Keeps(f) \/ UNCHANGED <<entry, drain>>
         \/ /\ drain[f].at # "idle"
            /\ \E success \in BOOLEAN : Settle(f, success)
<1>1. CASE LookSteer(f)
  BY <1>1 DEF TypeOK, LookSteer, Moves, Keeps
<1>2. CASE LookQueue(f)
  <2>1. drain[f].at = "lookQueue"
    BY <1>2 DEF LookQueue, Moves
  <2>2. CASE Settle(f, TRUE)
    BY <2>1, <2>2
  <2>3. CASE ~Settle(f, TRUE)
    <3>1. PICK p \in {"none"} \cup Deliveries :
            drain' = [drain EXCEPT ![f] =
              [@ EXCEPT !.at = "failOpen", !.force = FALSE, !.promotion = p]]
      BY <1>2, <2>3 DEF LookQueue, Deliveries
    <3>2. drain[f] \in Drains
      BY DEF TypeOK
    <3>3. drain'[f].at = "failOpen"
      BY <3>1, <3>2 DEF TypeOK, Drains
    <3> QED
      BY <1>2, <2>1, <2>3, <3>1, <3>3 DEF TypeOK, LookQueue, Keeps
  <2> QED
    BY <2>2, <2>3
<1>3. CASE FailOpen(f)
  BY <1>3, GoesKeeps DEF FailOpen, Moves, Phases
<1>4. CASE Prepare(f)
  <2>1. drain[f] \in Drains
    BY DEF TypeOK
  <2>2. drain[f].promotion \in {"none", "steer", "queue"}
    BY <2>1 DEF Drains, Deliveries
  <2> QED
    <3>1. drain'[f].at \in {"request", "pickSteers", "promoteQueued"}
      BY <1>4, <2>1, <2>2 DEF TypeOK, Prepare, Drains
    <3> QED
      BY <1>4, <3>1 DEF TypeOK, Prepare, Moves, Keeps
<1>5. CASE PromoteQueued(f)
  <2>1. drain[f].at = "promoteQueued" /\ UNCHANGED entry
    BY <1>5 DEF PromoteQueued, Moves
  <2>2. CASE Goes(f, "pickSteers")
    BY <2>1, <2>2, GoesKeeps DEF Phases
  <2>3. CASE drain' = [drain EXCEPT ![f] =
               [@ EXCEPT !.at = "pickSteers", !.step = 1, !.spent = 0]]
    BY <2>1, <2>3 DEF TypeOK, Keeps
  <2> QED
    BY <1>5, <2>2, <2>3 DEF PromoteQueued
<1>6. CASE PickSteers(f)
  BY <1>6 DEF TypeOK, PickSteers, Moves, Keeps
<1>7. CASE PromoteSteer(f)
  BY <1>7 DEF TypeOK, PromoteSteer, Moves, Keeps
<1>8. CASE Ask(f)
  BY <1>8 DEF TypeOK, Ask, Moves, Keeps
<1>9. CASE \E t \in Calls, byProvider \in BOOLEAN : CallTool(f, t, byProvider)
  BY <1>9 DEF TypeOK, CallTool, Moves, Keeps
<1>10. CASE \E t \in Calls, o \in Outcomes : HostedResult(f, t, o)
  BY <1>10 DEF HostedResult
<1>11. CASE \E t \in Calls, o \in Outcomes : ToolReturns(f, t, o)
  BY <1>11 DEF TypeOK, ToolReturns, Keeps
<1>12. CASE \E t \in Calls, how \in {"failed", "declined"} : ToolBreaks(f, t, how)
  BY <1>12 DEF TypeOK, ToolBreaks, Keeps
<1>13. CASE ProviderError(f)
  BY <1>13 DEF TypeOK, ProviderError, Moves, Keeps
<1>14. CASE \E how \in {"ok", "failed", "died"} : StreamEnds(f, how)
  BY <1>14 DEF TypeOK, StreamEnds, Moves, Keeps
<1>15. CASE FinishTurn(f)
  <2>1. drain[f].at # "idle"
    BY <1>15 DEF FinishTurn, Moves
  <2>2. CASE /\ drain' = [drain EXCEPT ![f] = Successor(f)]
             /\ UNCHANGED entry
    <3>1. Successor(f).at \in {"prepare", "lookAgain"}
      BY DEF Successor, Fresh
    <3> QED
      BY <2>1, <2>2, <3>1 DEF TypeOK, Keeps
  <2> QED
    BY <1>15, <2>1, <2>2 DEF FinishTurn, Successor
<1>16. CASE TurnInterrupted(f)
  BY <1>16 DEF TurnInterrupted
<1>17. CASE LookSteerAgain(f)
  BY <1>17 DEF TypeOK, LookSteerAgain, Goes, Moves, Keeps
<1>18. CASE LookQueueAgain(f)
  <2>1. drain[f].at = "lookQueueAgain"
    BY <1>18 DEF LookQueueAgain, Moves
  <2>2. CASE Settle(f, TRUE)
    BY <2>1, <2>2
  <2>3. CASE drain' = [drain EXCEPT ![f] =
               [@ EXCEPT !.at = "prepare", !.promotion = "queue", !.step = 1]]
             /\ UNCHANGED entry
    BY <2>1, <2>3 DEF TypeOK, Keeps
  <2> QED
    BY <1>18, <2>2, <2>3 DEF LookQueueAgain
<1>19. CASE Interrupted(f) \/ Fail(f)
  BY <1>19 DEF Interrupted, Fail, Breakable
<1> QED
  BY <1>1, <1>2, <1>3, <1>4, <1>5, <1>6, <1>7, <1>8, <1>9, <1>10, <1>11, <1>12,
     <1>13, <1>14, <1>15, <1>16, <1>17, <1>18, <1>19 DEF Advance, Turn

LEMMA SingleStep ==
  ASSUME TypeOK, Single, [Next]_vars
  PROVE  Single'
<1>1. CASE UNCHANGED <<entry, drain>>
  BY <1>1 DEF Single, OneDrain
<1>2. CASE Crash
  <2>1. IdleDrain.at = "idle"
    BY DEF IdleDrain, Fresh
  <2> QED
    BY <1>2, <2>1, EntryType DEF Crash, Single, OneDrain
<1>3. ASSUME NEW c \in Callers, Prompts(c)
      PROVE  Single'
  BY <1>1, <1>3, WakesSingle DEF Prompts, Prompt, Retry, PublishAdmitted, Return
<1>4. ASSUME NEW c \in Callers, Resume(c)
      PROVE  Single'
  BY <1>1, <1>4, StartsSingle DEF Resume
<1>5. ASSUME NEW c \in Callers, Interrupt(c)
      PROVE  Single'
  <2>1. /\ \A g \in Fibers : drain'[g].at = drain[g].at
        /\ entry'.live = entry.live /\ entry'.owner = entry.owner
    <3>1. entry.owner \in Fibers
      BY DEF TypeOK, Entries
    <3>2. entry'.live = entry.live /\ entry'.owner = entry.owner
      BY <1>5 DEF Interrupt, TypeOK, Entries
    <3>3. ASSUME NEW g \in Fibers PROVE drain'[g].at = drain[g].at
      <4>1. drain[g] \in Drains
        BY DEF TypeOK
      <4> QED
        BY <1>5, <3>1, <4>1 DEF Interrupt, TypeOK, Drains
    <3> QED
      BY <3>2, <3>3
  <2> QED
    BY <2>1 DEF Single, OneDrain, TypeOK, Entries
<1>6. ASSUME NEW f \in Fibers, Advance(f) \/ Fail(f)
      PROVE  Single'
  BY <1>1, <1>6, DrainSteps, KeepsSingle, SettlesSingle
<1> QED
  BY <1>1, <1>2, <1>3, <1>4, <1>5, <1>6 DEF Next, vars

\* Prompts, resumes, interrupts, failures and crashes never leave two drains of
\* the session running.
THEOREM Serialized == Spec => []OneDrain
<1>1. Init => TypeOK /\ Single
  <2>1. IdleDrain.at = "idle"
    BY DEF IdleDrain, Fresh
  <2> QED
    BY <2>1, InitType, EntryType DEF Init, Single, OneDrain
<1>2. TypeOK /\ Single /\ [Next]_vars => (TypeOK /\ Single)'
  BY TypeStep, SingleStep
<1>3. Single => OneDrain
  BY DEF Single
<1> QED
  BY <1>1, <1>2, <1>3, PTL DEF Spec
-----------------------------------------------------------------------------
(* What every drain keeps true of its turn, its batch and its allowance     *)

LEMMA OtherOK ==
  ASSUME NEW g \in Fibers, DrainOK(g), drain[g].at = "idle",
         drain'[g] = drain[g]
  PROVE  DrainOK(g)'
BY DEF DrainOK, TurnOK, BatchOK, ChainOK, QuietPhases

LEMMA FreshOK ==
  ASSUME NEW g \in Fibers, NEW force \in BOOLEAN,
         drain'[g] \in {Fresh(force), IdleDrain}
  PROVE  DrainOK(g)'
<1>1. /\ drain'[g].at \in {"look", "idle"}
      /\ drain'[g].spent = 0 /\ drain'[g].step = 1
  BY DEF Fresh, IdleDrain
<1>2. Within(g)'
  BY <1>1, ConstantsAssumption DEF Within
<1>3. TurnOK(g)' /\ BatchOK(g)'
  BY <1>1 DEF TurnOK, BatchOK, QuietPhases
<1>4. ChainOK(g)'
  BY <1>1, <1>2, ConstantsAssumption DEF ChainOK
<1> QED
  BY <1>3, <1>4 DEF DrainOK

LEMMA StartsOK ==
  ASSUME TypeOK, Single, \A g \in Fibers : DrainOK(g),
         NEW force \in BOOLEAN, StartDrain(force)
  PROVE  \A g \in Fibers : DrainOK(g)'
<1> TAKE g \in Fibers
<1>1. PICK f \in Fibers : /\ ~entry.live
                          /\ drain' = [drain EXCEPT ![f] = Fresh(force)]
  BY Started
<1>2. drain[g].at = "idle"
  BY <1>1 DEF Single, OneDrain
<1>3. CASE g = f
  BY <1>1, <1>3, FreshOK DEF TypeOK
<1>4. CASE g # f
  BY <1>1, <1>2, <1>4, OtherOK DEF TypeOK
<1> QED
  BY <1>3, <1>4

LEMMA SettlesOK ==
  ASSUME TypeOK, Single, \A g \in Fibers : DrainOK(g),
         NEW f \in Fibers, NEW success \in BOOLEAN,
         drain[f].at # "idle", Settle(f, success)
  PROVE  \A g \in Fibers : DrainOK(g)'
<1> TAKE g \in Fibers
<1>1. CASE g = f
  <2>1. drain'[g] \in {Fresh(FALSE), IdleDrain}
    BY <1>1 DEF Settle, TypeOK
  <2> QED
    BY <2>1, FreshOK
<1>2. CASE g # f
  <2>1. drain'[g] = drain[g] /\ drain[g].at = "idle"
    BY <1>2, Alone DEF Settle, TypeOK
  <2> QED
    BY <2>1, OtherOK
<1> QED
  BY <1>1, <1>2

LEMMA KeepsOK ==
  ASSUME TypeOK, Single, \A g \in Fibers : DrainOK(g),
         NEW f \in Fibers, Keeps(f), DrainOK(f)'
  PROVE  \A g \in Fibers : DrainOK(g)'
<1> TAKE g \in Fibers
<1>1. CASE g = f
  BY <1>1
<1>2. CASE g # f
  <2>1. drain'[g] = drain[g] /\ drain[g].at = "idle"
    BY <1>2, Alone DEF Keeps, TypeOK
  <2> QED
    BY <2>1, OtherOK
<1> QED
  BY <1>1, <1>2

\* What callers may do to the inbox and to a drain: rows appear after all the
\* others, and a drain is told to stop.
Grows ==
  /\ \A i \in Inputs : Admitted(i) => inbox'[i] = inbox[i]
  /\ \A i \in Inputs : \/ inbox'[i] = inbox[i]
                       \/ inbox'[i].admitted > sequence
  /\ UNCHANGED <<call, hosted>>
Told(g) == \/ drain'[g] = drain[g]
           \/ drain'[g] = [drain[g] EXCEPT !.signaled = TRUE]

LEMMA GrowingPending ==
  ASSUME TypeOK, Grows
  PROVE  \A d \in Deliveries :
           /\ Pending(d) \subseteq Pending(d)'
           /\ \A j \in Pending(d)' : \/ j \in Pending(d) /\ inbox'[j] = inbox[j]
                                     \/ inbox'[j].admitted > sequence
<1> TAKE d \in Deliveries
<1>1. \A i \in Inputs : inbox[i].admitted \in Nat
  BY DEF TypeOK, Rows
<1> QED
  BY <1>1 DEF Grows, Pending, Admitted

LEMMA ToldOK ==
  ASSUME TypeOK, TypeOK', Grows, NEW g \in Fibers, Told(g), DrainOK(g)
  PROVE  DrainOK(g)'
<1>0. drain[g] \in Drains
  BY DEF TypeOK
<1>1. /\ drain'[g].at = drain[g].at /\ drain'[g].batch = drain[g].batch
      /\ drain'[g].step = drain[g].step /\ drain'[g].spent = drain[g].spent
      /\ drain'[g].cutoff = drain[g].cutoff /\ drain'[g].mine = drain[g].mine
      /\ drain'[g].live = drain[g].live /\ drain'[g].tools = drain[g].tools
      /\ drain'[g].promotion = drain[g].promotion
  BY <1>0 DEF Told, Drains
<1>2. "steer" \in Deliveries /\ "queue" \in Deliveries
  BY DEF Deliveries
<1>3. TurnOK(g)'
  BY <1>1 DEF DrainOK, TurnOK, Quiet, Grows
<1>4. BatchOK(g)'
  <2> SUFFICES ASSUME drain[g].at = "promoteSteers"
               PROVE  /\ drain[g].batch \subseteq Pending("steer")'
                      /\ drain[g].batch # {}
                      /\ \A i \in drain[g].batch, j \in Pending("steer")' :
                           inbox'[j].admitted <= inbox'[i].admitted
                             => j \in drain[g].batch
    BY <1>1 DEF BatchOK
  <2>1. /\ drain[g].batch \subseteq Pending("steer") /\ drain[g].batch # {}
        /\ \A i \in drain[g].batch, j \in Pending("steer") :
             inbox[j].admitted <= inbox[i].admitted => j \in drain[g].batch
    BY DEF DrainOK, BatchOK
  <2>2. ASSUME NEW i \in drain[g].batch, NEW j \in Pending("steer")',
               inbox'[j].admitted <= inbox'[i].admitted
        PROVE  j \in drain[g].batch
    <3>1. i \in Inputs /\ inbox'[i] = inbox[i] /\ inbox[i] \in Rows /\ sequence \in Nat
      BY <2>1 DEF Pending, Grows, TypeOK
    <3>2. inbox[i].admitted \in Nat /\ inbox[i].admitted <= sequence
      BY <3>1 DEF Rows
    <3>3. j \in Inputs
      BY DEF Pending
    <3>4. inbox[j].admitted \in Nat
      BY <3>3 DEF TypeOK, Rows
    <3>5. CASE inbox'[j] = inbox[j]
      <4>1. j \in Pending("steer")
        BY <3>5 DEF Pending, Admitted
      <4> QED
        BY <2>1, <2>2, <3>1, <3>5, <4>1
    <3>6. CASE inbox'[j].admitted > sequence /\ inbox'[j] # inbox[j]
      <4>1. inbox'[j].admitted <= inbox[i].admitted
        BY <2>2, <3>1
      <4>2. inbox'[j].admitted \in Nat
        BY <3>3 DEF TypeOK, Rows
      <4> QED
        BY <3>1, <3>2, <3>6, <4>1, <4>2
    <3> QED
      BY <3>3, <3>5, <3>6 DEF Grows
  <2> QED
    BY <1>2, <2>1, <2>2, GrowingPending
<1>5. ChainOK(g)'
  <2>1. Pending("steer") \subseteq Pending("steer")' /\ Pending("queue") \subseteq Pending("queue")'
    BY <1>2, GrowingPending
  <2>2. \A i \in Pending("steer") : inbox'[i] = inbox[i]
    BY DEF Pending, Grows
  <2>3. Within(g)' <=> Within(g)
    BY <1>1 DEF Within
  <2>4. ChainOK(g)
    BY DEF DrainOK
  <2>5. (\E i \in Pending("steer") : inbox[i].admitted <= drain[g].cutoff)
          => \E i \in Pending("steer")' : inbox'[i].admitted <= drain'[g].cutoff
    BY <1>1, <2>1, <2>2
  <2> QED
    BY <1>1, <2>1, <2>3, <2>4, <2>5 DEF ChainOK
<1> QED
  BY <1>3, <1>4, <1>5 DEF DrainOK

LEMMA CallersOK ==
  ASSUME TypeOK, TypeOK', Single, \A g \in Fibers : DrainOK(g),
         NEW c \in Callers, Prompts(c) \/ Resume(c) \/ Interrupt(c)
  PROVE  \A g \in Fibers : DrainOK(g)'
<1>1. ASSUME UNCHANGED <<sequence, inbox, call, hosted>> PROVE Grows
  BY <1>1 DEF Grows
<1>2. CASE UNCHANGED <<sequence, inbox, call, hosted>> /\ UNCHANGED drain
  BY <1>1, <1>2, ToldOK DEF Told
<1>3. CASE \E resume \in BOOLEAN : PublishAdmitted(c, resume)
  <2>1. caller[c].input \in Inputs /\ sequence \in Nat
    BY DEF TypeOK, CallerRecords
  <2>2. Grows
    BY <1>3, <2>1 DEF Grows, PublishAdmitted, Admitted, TypeOK
  <2> QED
    BY <1>3, <2>2, ToldOK DEF Told, PublishAdmitted
<1>4. CASE \E force \in BOOLEAN : StartDrain(force)
  BY <1>4, StartsOK
<1>5. CASE Interrupt(c)
  <2>1. entry.owner \in Fibers
    BY DEF TypeOK, Entries
  <2>2. \A g \in Fibers : Told(g)
    BY <1>5, <2>1 DEF Told, Interrupt, TypeOK
  <2> QED
    BY <1>1, <1>5, <2>2, ToldOK DEF Interrupt
<1> QED
  BY <1>2, <1>3, <1>4, <1>5 DEF Prompts, Prompt, Retry, Return, Wake, Resume

\* A drain step that moves no call and no input keeps its turn and its batch.
LEMMA PlainOK ==
  ASSUME NEW f \in Fibers, DrainOK(f), drain'[f].at # "promoteSteers",
         UNCHANGED <<sequence, inbox, call, hosted>>,
         drain'[f].at \in QuietPhases => Quiet,
         drain'[f].at \notin {"stream", "await"}, ChainOK(f)'
  PROVE  DrainOK(f)'
BY DEF DrainOK, TurnOK, BatchOK, Quiet

LEMMA LooksOK ==
  ASSUME TypeOK, Single, \A g \in Fibers : DrainOK(g), NEW f \in Fibers,
         LookSteer(f) \/ LookQueue(f) \/ LookSteerAgain(f) \/ LookQueueAgain(f)
  PROVE  \A g \in Fibers : DrainOK(g)'
<1>0. drain[f] \in Drains
  BY DEF TypeOK
<1>1. CASE Settle(f, TRUE) /\ drain[f].at # "idle"
  BY <1>1, SettlesOK
<1>2. CASE Keeps(f)
  <2>1. ChainOK(f) /\ TurnOK(f)
    BY DEF DrainOK
  <2>2. CASE LookSteer(f)
    <3>1. /\ drain[f].at = "look" /\ drain'[f].at \in {"failOpen", "lookQueue"}
          /\ drain'[f].step = drain[f].step /\ drain'[f].spent = drain[f].spent
      BY <1>0, <2>2 DEF TypeOK, LookSteer, Moves, Drains
    <3>2. ChainOK(f)'
      BY <2>1, <3>1 DEF ChainOK, Within
    <3>3. DrainOK(f)'
      BY <2>2, <3>1, <3>2, PlainOK DEF LookSteer, QuietPhases
    <3> QED
      BY <1>2, <3>3, KeepsOK
  <2>3. CASE LookQueue(f) /\ ~Settle(f, TRUE)
    <3>1. PICK p \in {"none"} \cup Deliveries :
            drain' = [drain EXCEPT ![f] =
              [@ EXCEPT !.at = "failOpen", !.force = FALSE, !.promotion = p]]
      BY <2>3 DEF LookQueue, Deliveries
    <3>2. /\ drain[f].at = "lookQueue" /\ drain'[f].at = "failOpen"
          /\ drain'[f].step = drain[f].step /\ drain'[f].spent = drain[f].spent
      BY <1>0, <2>3, <3>1 DEF TypeOK, LookQueue, Moves, Drains
    <3>3. ChainOK(f)'
      BY <2>1, <3>2 DEF ChainOK, Within
    <3>4. DrainOK(f)'
      BY <2>3, <3>2, <3>3, PlainOK DEF LookQueue, QuietPhases
    <3> QED
      BY <1>2, <3>4, KeepsOK
  <2>4. CASE LookSteerAgain(f)
    <3>1. /\ drain[f].at = "lookAgain"
          /\ drain'[f].at = IF Pending("steer") # {} THEN "prepare"
                            ELSE "lookQueueAgain"
          /\ drain'[f].step = drain[f].step /\ drain'[f].spent = drain[f].spent
          /\ drain'[f].promotion = drain[f].promotion
      BY <1>0, <2>4 DEF TypeOK, LookSteerAgain, Goes, Moves, Drains
    <3>2. Pending("steer")' = Pending("steer")
      BY <2>4 DEF LookSteerAgain, Pending, Admitted
    <3>3. ChainOK(f)'
      BY <2>1, <3>1, <3>2 DEF ChainOK, Within
    <3>4. Quiet
      BY <2>1, <3>1 DEF TurnOK, QuietPhases
    <3>5. DrainOK(f)'
      BY <2>4, <3>1, <3>3, <3>4, PlainOK DEF LookSteerAgain
    <3> QED
      BY <1>2, <3>5, KeepsOK
  <2>5. CASE LookQueueAgain(f) /\ ~Settle(f, TRUE)
    <3>1. /\ drain[f].at = "lookQueueAgain" /\ drain'[f].at = "prepare"
          /\ drain'[f].promotion = "queue" /\ Pending("queue") # {}
          /\ drain'[f].spent = drain[f].spent
      BY <1>0, <2>5 DEF TypeOK, LookQueueAgain, Moves, Drains
    <3>2. Pending("queue")' = Pending("queue")
      BY <2>5 DEF LookQueueAgain, Pending, Admitted
    <3>3. ChainOK(f)'
      BY <2>1, <3>1, <3>2 DEF ChainOK
    <3>4. Quiet
      BY <2>1, <3>1 DEF TurnOK, QuietPhases
    <3>5. DrainOK(f)'
      BY <2>5, <3>1, <3>3, <3>4, PlainOK DEF LookQueueAgain
    <3> QED
      BY <1>2, <3>5, KeepsOK
  <2> QED
    BY <1>1, <2>2, <2>3, <2>4, <2>5 DEF LookQueue, LookQueueAgain, Moves
<1>3. drain[f].at # "idle" /\ Advance(f)
  BY DEF LookSteer, LookQueue, LookSteerAgain, LookQueueAgain, Moves, Advance
<1>4. CASE UNCHANGED <<entry, drain>>
  BY <1>2, <1>3, <1>4 DEF Keeps, TypeOK
<1>5. CASE \E success \in BOOLEAN : Settle(f, success)
  BY <1>3, <1>5, SettlesOK
<1> QED
  BY <1>2, <1>3, <1>4, <1>5, DrainSteps
\* Steps before and after a turn; calls are left alone or fail.
LEMMA FailOpenOK ==
  ASSUME TypeOK, NEW f \in Fibers, DrainOK(f), FailOpen(f)
  PROVE  DrainOK(f)'
<1>1. drain[f] \in Drains /\ drain[f].at = "failOpen" /\ Within(f)
  BY DEF TypeOK, FailOpen, Moves, DrainOK, ChainOK
<1>2. /\ drain'[f].at \in {"failOpen", "prepare"}
      /\ drain'[f].step = drain[f].step /\ drain'[f].spent = drain[f].spent
      /\ drain'[f].at = "prepare" => Quiet'
  BY <1>1 DEF TypeOK, FailOpen, Goes, Drains, Quiet
<1>3. ChainOK(f)'
  BY <1>1, <1>2 DEF DrainOK, ChainOK, Within
<1> QED
  BY <1>2, <1>3 DEF DrainOK, TurnOK, BatchOK, QuietPhases

LEMMA PrepareOK ==
  ASSUME TypeOK, NEW f \in Fibers, DrainOK(f), Prepare(f)
  PROVE  DrainOK(f)'
<1>1. drain[f] \in Drains /\ drain[f].at = "prepare" /\ ChainOK(f) /\ Quiet
  BY DEF TypeOK, Prepare, Moves, DrainOK, TurnOK, QuietPhases
<1>2. drain[f].promotion \in {"none", "steer", "queue"}
  BY <1>1 DEF Drains, Deliveries
<1>3. UNCHANGED <<sequence, inbox, call, hosted>> /\ sequence \in Nat
  BY DEF Prepare, TypeOK
<1>4. /\ drain'[f].at = CASE drain[f].promotion = "none" -> "request"
                          [] drain[f].promotion = "steer" -> "pickSteers"
                          [] drain[f].promotion = "queue" -> "promoteQueued"
      /\ drain'[f].cutoff = IF drain[f].promotion = "none" THEN 0 ELSE sequence
      /\ drain'[f].step = drain[f].step /\ drain'[f].spent = drain[f].spent
  BY <1>1, <1>2 DEF TypeOK, Prepare, Drains
<1>5. Pending("steer")' = Pending("steer") /\ Pending("queue")' = Pending("queue")
  BY <1>3 DEF Pending, Admitted
<1>6. \A i \in Pending("steer") : inbox[i].admitted <= sequence
  BY DEF Pending, TypeOK, Rows
<1>7. ChainOK(f)'
  <2>1. CASE drain[f].promotion = "none"
    BY <1>1, <1>4, <2>1 DEF ChainOK, Within
  <2>2. CASE drain[f].promotion = "queue"
    BY <1>1, <1>4, <1>5, <2>2 DEF ChainOK, Within
  <2>3. CASE drain[f].promotion = "steer"
    <3>1. Within(f) \/ Pending("steer") # {}
      BY <1>1, <2>3 DEF ChainOK
    <3>2. drain'[f].at = "pickSteers" /\ drain'[f].cutoff = sequence
      BY <1>4, <2>3
    <3>3. \/ Within(f)'
          \/ \E i \in Pending("steer")' : inbox'[i].admitted <= drain'[f].cutoff
      BY <1>3, <1>4, <1>5, <1>6, <3>1, <3>2 DEF Within
    <3> QED
      BY <1>1, <1>4, <3>2, <3>3 DEF ChainOK
  <2> QED
    BY <1>2, <2>1, <2>2, <2>3
<1>8. drain'[f].at \in {"request", "pickSteers", "promoteQueued"}
  BY <1>2, <1>4
<1> QED
  BY <1>1, <1>3, <1>7, <1>8, PlainOK

LEMMA ResetOK ==
  ASSUME NEW f \in Fibers, drain'[f].spent = 0, drain'[f].step = 1,
         drain'[f].at \in {"pickSteers", "promoteSteers", "request"}
  PROVE  ChainOK(f)'
<1>1. Within(f)'
  BY ConstantsAssumption DEF Within
<1> QED
  BY <1>1, ConstantsAssumption DEF ChainOK

LEMMA PromoteQueuedOK ==
  ASSUME TypeOK, NEW f \in Fibers, DrainOK(f), PromoteQueued(f)
  PROVE  DrainOK(f)'
<1>1. /\ drain[f] \in Drains /\ drain[f].at = "promoteQueued"
      /\ ChainOK(f) /\ Quiet /\ UNCHANGED <<call, hosted>>
  BY DEF TypeOK, PromoteQueued, Moves, DrainOK, TurnOK, QuietPhases
<1>2. CASE drain' = [drain EXCEPT ![f] =
             [@ EXCEPT !.at = "pickSteers", !.step = 1, !.spent = 0]]
  <2>1. /\ drain'[f].at = "pickSteers" /\ drain'[f].step = 1
        /\ drain'[f].spent = 0
    BY <1>1, <1>2 DEF TypeOK, Drains
  <2>2. ChainOK(f)'
    BY <2>1, ResetOK
  <2> QED
    BY <1>1, <2>1, <2>2 DEF DrainOK, TurnOK, BatchOK, Quiet
<1>3. CASE Pending("queue") = {} /\ Goes(f, "pickSteers")
  <2>1. /\ drain'[f].at = "pickSteers" /\ drain'[f].step = drain[f].step
        /\ drain'[f].spent = drain[f].spent
    BY <1>1, <1>3 DEF TypeOK, Drains, Goes
  <2>2. Within(f)
    BY <1>1, <1>3 DEF ChainOK
  <2>3. ChainOK(f)'
    BY <1>1, <2>1, <2>2 DEF ChainOK, Within
  <2> QED
    BY <1>1, <2>1, <2>3 DEF DrainOK, TurnOK, BatchOK, Quiet
<1> QED
  BY <1>2, <1>3 DEF PromoteQueued

LEMMA PickSteersOK ==
  ASSUME TypeOK, NEW f \in Fibers, DrainOK(f), PickSteers(f)
  PROVE  DrainOK(f)'
<1> DEFINE rows == {i \in Pending("steer") :
                      inbox[i].admitted <= drain[f].cutoff}
<1>1. /\ drain[f] \in Drains /\ drain[f].at = "pickSteers"
      /\ ChainOK(f) /\ Quiet /\ UNCHANGED <<inbox, call, hosted>>
  BY DEF TypeOK, PickSteers, Moves, DrainOK, TurnOK, QuietPhases
<1>2. /\ drain'[f].at = IF rows = {} THEN "request" ELSE "promoteSteers"
      /\ drain'[f].batch = rows
      /\ drain'[f].step = drain[f].step /\ drain'[f].spent = drain[f].spent
  BY <1>1 DEF TypeOK, PickSteers, Drains
<1>3. Pending("steer")' = Pending("steer")
  BY <1>1 DEF Pending, Admitted
<1>4. TurnOK(f)'
  BY <1>1, <1>2 DEF TurnOK, Quiet
<1>5. BatchOK(f)'
  <2> SUFFICES ASSUME rows # {}
               PROVE  \A i \in rows, j \in Pending("steer") :
                        inbox[j].admitted <= inbox[i].admitted => j \in rows
    BY <1>1, <1>2, <1>3 DEF BatchOK
  <2> TAKE i \in rows, j \in Pending("steer")
  <2>1. /\ inbox[i].admitted \in Nat /\ inbox[j].admitted \in Nat
        /\ drain[f].cutoff \in Nat
    BY <1>1 DEF Pending, TypeOK, Rows, Drains
  <2> QED
    BY <2>1
<1>6. ChainOK(f)'
  <2>1. CASE rows = {}
    <3>1. Within(f)
      BY <1>1, <2>1 DEF ChainOK
    <3> QED
      BY <1>1, <1>2, <2>1, <3>1 DEF ChainOK, Within
  <2>2. CASE rows # {}
    BY <1>1, <1>2, <2>2 DEF ChainOK, Within
  <2> QED
    BY <2>1, <2>2
<1> QED
  BY <1>4, <1>5, <1>6 DEF DrainOK

LEMMA PromoteSteerOK ==
  ASSUME TypeOK, NEW f \in Fibers, DrainOK(f), PromoteSteer(f)
  PROVE  DrainOK(f)'
<1>1. /\ drain[f] \in Drains /\ drain[f].at = "promoteSteers"
      /\ BatchOK(f) /\ Quiet /\ UNCHANGED <<call, hosted>>
  BY DEF TypeOK, PromoteSteer, Moves, DrainOK, TurnOK, QuietPhases
<1>2. PICK i \in Earliest(drain[f].batch) :
        /\ Promote(i)
        /\ drain' = [drain EXCEPT ![f] =
             [@ EXCEPT !.batch = drain[f].batch \ {i}, !.step = 1, !.spent = 0,
                       !.at = IF drain[f].batch = {i} THEN "request"
                              ELSE "promoteSteers"]]
  BY DEF PromoteSteer
<1>3. /\ drain'[f].at = IF drain[f].batch = {i} THEN "request"
                        ELSE "promoteSteers"
      /\ drain'[f].batch = drain[f].batch \ {i}
      /\ drain'[f].step = 1 /\ drain'[f].spent = 0
  BY <1>1, <1>2 DEF TypeOK, Drains
<1>4. i \in drain[f].batch /\ i \in Inputs
  BY <1>1, <1>2 DEF Earliest, BatchOK, Pending
<1>5. Pending("steer")' = Pending("steer") \ {i}
  <2>1. inbox[i] \in [delivery : Deliveries, admitted : 0 .. sequence,
                      promoted : BOOLEAN]
    BY <1>4 DEF TypeOK, Rows
  <2>2. /\ inbox'[i].promoted
        /\ \A j \in Inputs \ {i} : inbox'[j] = inbox[j]
    BY <1>2, <1>4, <2>1 DEF Promote, TypeOK
  <2> QED
    BY <2>2 DEF Pending, Admitted
<1>6. \A j \in Inputs : inbox'[j].admitted = inbox[j].admitted
  BY <1>2, <1>4 DEF Promote, TypeOK, Rows
<1>7. TurnOK(f)'
  BY <1>1, <1>3 DEF TurnOK, Quiet
<1>8. BatchOK(f)'
  <2> SUFFICES ASSUME drain[f].batch # {i}
               PROVE  /\ drain[f].batch \ {i} \subseteq Pending("steer")'
                      /\ drain[f].batch \ {i} # {}
                      /\ \A k \in drain[f].batch \ {i}, j \in Pending("steer")' :
                           inbox'[j].admitted <= inbox'[k].admitted
                             => j \in drain[f].batch \ {i}
    BY <1>1, <1>3 DEF BatchOK
  <2>1. /\ drain[f].batch \subseteq Pending("steer")
        /\ \A k \in drain[f].batch, j \in Pending("steer") :
             inbox[j].admitted <= inbox[k].admitted => j \in drain[f].batch
    BY <1>1 DEF BatchOK
  <2>2. Pending("steer") \subseteq Inputs
    BY DEF Pending
  <2> QED
    BY <1>4, <1>5, <1>6, <2>1, <2>2
<1>9. ChainOK(f)'
  BY <1>3, ResetOK
<1> QED
  BY <1>7, <1>8, <1>9 DEF DrainOK
\* Steps of a turn.
LEMMA TurnStepOK ==
  ASSUME NEW f \in Fibers, DrainOK(f),
         drain[f].at \in {"request", "stream", "await"},
         drain'[f].at \in {"stream", "await"},
         drain'[f].step = drain[f].step, drain'[f].spent = drain[f].spent,
         \A t \in Calls : call'[t] = "running" =>
           /\ t \in drain'[f].mine
           /\ t \in drain'[f].live \/ t \in hosted' \/ drain'[f].tools # "ok"
  PROVE  DrainOK(f)'
<1>1. Within(f)'
  BY DEF DrainOK, ChainOK, Within
<1>2. TurnOK(f)' /\ BatchOK(f)'
  BY DEF TurnOK, BatchOK, QuietPhases
<1>3. ChainOK(f)'
  BY <1>1 DEF ChainOK, Within, DrainOK
<1> QED
  BY <1>2, <1>3 DEF DrainOK

LEMMA CallToolOK ==
  ASSUME TypeOK, NEW f \in Fibers, DrainOK(f), NEW t \in Calls,
         NEW byProvider \in BOOLEAN, CallTool(f, t, byProvider)
  PROVE  DrainOK(f)'
<1> DEFINE L == IF byProvider \/ LastStep(f) THEN drain[f].live
                ELSE drain[f].live \cup {t}
<1>1. /\ drain[f] \in Drains /\ drain[f].at = "stream" /\ TurnOK(f)
  BY DEF TypeOK, CallTool, Moves, DrainOK
<1>2. drain' = [drain EXCEPT ![f] =
        [@ EXCEPT !.mine = drain[f].mine \cup {t}, !.live = L]]
  BY DEF CallTool
<1>3. /\ drain'[f].at = "stream" /\ drain'[f].tools = drain[f].tools
      /\ drain'[f].step = drain[f].step /\ drain'[f].spent = drain[f].spent
      /\ drain'[f].mine = drain[f].mine \cup {t} /\ drain'[f].live = L
  <2> HIDE DEF L
  <2> QED
    BY <1>1, <1>2 DEF TypeOK, Drains
<1>4. hosted' = IF byProvider THEN hosted \cup {t} ELSE hosted
  BY DEF CallTool
<1>5. ASSUME NEW u \in Calls, call'[u] = "running"
      PROVE  /\ u \in drain'[f].mine
             /\ u \in drain'[f].live \/ u \in hosted' \/ drain'[f].tools # "ok"
  <2>1. CASE u = t
    <3>1. byProvider \/ ~LastStep(f)
      <4> SUFFICES ASSUME ~byProvider, LastStep(f) PROVE FALSE
        OBVIOUS
      <4>1. call' = [FailUnsettled(drain[f].mine) EXCEPT ![t] = "failed"]
        BY DEF CallTool
      <4>2. call'[t] = "failed"
        BY <4>1 DEF FailUnsettled
      <4> QED
        BY <1>5, <2>1, <4>2
    <3> QED
      BY <1>3, <1>4, <2>1, <3>1
  <2>2. CASE u # t
    <3>1. call[u] = "running"
      <4>1. CASE call' = [call EXCEPT ![t] = "running"]
        BY <1>5, <2>2, <4>1 DEF TypeOK
      <4>2. CASE call' = [FailUnsettled(drain[f].mine) EXCEPT ![t] = "failed"]
        BY <1>5, <2>2, <4>2 DEF FailUnsettled
      <4> QED
        BY <4>1, <4>2 DEF CallTool
    <3> QED
      BY <1>1, <1>3, <1>4, <3>1 DEF TurnOK
  <2> QED
    BY <2>1, <2>2
<1> QED
  <2> HIDE DEF L
  <2> QED
    BY <1>1, <1>3, <1>5, TurnStepOK

LEMMA AnswerOK ==
  ASSUME TypeOK, NEW f \in Fibers, DrainOK(f),
         \/ Ask(f) \/ ProviderError(f)
         \/ \E t \in Calls, o \in Outcomes : HostedResult(f, t, o)
         \/ \E how \in {"ok", "failed", "died"} : StreamEnds(f, how)
         \/ \E t \in Calls, o \in Outcomes : ToolReturns(f, t, o)
         \/ \E t \in Calls, how \in {"failed", "declined"} :
              ToolBreaks(f, t, how)
  PROVE  DrainOK(f)'
<1>0. drain[f] \in Drains /\ TurnOK(f)
  BY DEF TypeOK, DrainOK
<1>1. CASE Ask(f)
  <2>1. /\ drain[f].at = "request" /\ drain'[f].at = "stream" /\ Quiet'
        /\ drain'[f].step = drain[f].step /\ drain'[f].spent = drain[f].spent
    BY <1>0, <1>1 DEF TypeOK, Ask, Moves, Drains, TurnOK, QuietPhases, Quiet
  <2> QED
    BY <2>1, TurnStepOK DEF Quiet
<1>2. CASE ProviderError(f)
  <2>1. /\ drain[f].at = "stream" /\ drain'[f].at = "stream"
        /\ drain'[f].step = drain[f].step /\ drain'[f].spent = drain[f].spent
        /\ drain'[f].mine = drain[f].mine /\ drain'[f].live = drain[f].live
        /\ drain'[f].tools = drain[f].tools /\ UNCHANGED <<call, hosted>>
    BY <1>0, <1>2 DEF TypeOK, ProviderError, Moves, Drains
  <2> QED
    BY <1>0, <2>1, TurnStepOK DEF TurnOK
<1>3. ASSUME NEW t \in Calls, NEW o \in Outcomes, HostedResult(f, t, o)
      PROVE  DrainOK(f)'
  <2>1. /\ drain[f].at = "stream" /\ drain' = drain /\ hosted' = hosted
        /\ \A u \in Calls : call'[u] = "running" => call[u] = "running"
    BY <1>3 DEF HostedResult, Moves, TypeOK, Outcomes
  <2> QED
    BY <1>0, <2>1, TurnStepOK DEF TurnOK
<1>4. ASSUME NEW how \in {"ok", "failed", "died"}, StreamEnds(f, how)
      PROVE  DrainOK(f)'
  <2>1. /\ drain[f].at = "stream" /\ drain'[f].at = "await"
        /\ drain'[f].step = drain[f].step /\ drain'[f].spent = drain[f].spent
        /\ drain'[f].mine = drain[f].mine /\ drain'[f].live = drain[f].live
        /\ drain'[f].tools = drain[f].tools /\ hosted' = hosted
    BY <1>0, <1>4 DEF TypeOK, StreamEnds, Moves, Drains
  <2>2. \A u \in Calls : call'[u] = "running" => call[u] = "running"
    BY <1>4 DEF StreamEnds, FailUnsettled
  <2> QED
    BY <1>0, <2>1, <2>2, TurnStepOK DEF TurnOK
<1>5. ASSUME NEW t \in Calls, NEW o \in Outcomes, ToolReturns(f, t, o)
      PROVE  DrainOK(f)'
  <2>1. /\ drain[f].at \in {"stream", "await"} /\ drain'[f].at = drain[f].at
        /\ drain'[f].step = drain[f].step /\ drain'[f].spent = drain[f].spent
        /\ drain'[f].mine = drain[f].mine
        /\ drain'[f].live = drain[f].live \ {t}
        /\ drain'[f].tools = drain[f].tools /\ hosted' = hosted
    BY <1>0, <1>5 DEF TypeOK, ToolReturns, Drains
  <2>2. \A u \in Calls : call'[u] = "running" => call[u] = "running" /\ u # t
    BY <1>5 DEF ToolReturns, TypeOK, Outcomes
  <2> QED
    BY <1>0, <2>1, <2>2, TurnStepOK DEF TurnOK
<1>6. ASSUME NEW t \in Calls, NEW how \in {"failed", "declined"},
             ToolBreaks(f, t, how)
      PROVE  DrainOK(f)'
  <2> DEFINE report == IF drain[f].tools = "ok" THEN how ELSE drain[f].tools
  <2>1. report # "ok"
    BY <1>6
  <2>2. /\ drain' = [drain EXCEPT ![f] =
             [@ EXCEPT !.live = drain[f].live \ {t}, !.tools = report]]
        /\ drain[f].at \in {"stream", "await"} /\ UNCHANGED <<call, hosted>>
    BY <1>6 DEF ToolBreaks
  <2> HIDE DEF report
  <2>3. /\ drain'[f].at = drain[f].at
        /\ drain'[f].step = drain[f].step /\ drain'[f].spent = drain[f].spent
        /\ drain'[f].mine = drain[f].mine /\ drain'[f].tools = report
    BY <1>0, <2>2 DEF TypeOK, Drains
  <2> QED
    BY <1>0, <2>1, <2>2, <2>3, TurnStepOK DEF TurnOK
<1> QED
  BY <1>1, <1>2, <1>3, <1>4, <1>5, <1>6

\* A turn settles every call it made, and a continuation keeps the allowance.
LEMMA FinishOK ==
  ASSUME TypeOK, NEW f \in Fibers, DrainOK(f), FinishTurn(f),
         drain[f].tools # "declined" /\ ~drain[f].failed,
         drain' = [drain EXCEPT ![f] = Successor(f)]
  PROVE  DrainOK(f)'
<1>1. /\ drain[f] \in Drains /\ drain[f].at = "await"
      /\ TurnOK(f) /\ Within(f)
  BY DEF TypeOK, FinishTurn, Moves, DrainOK, ChainOK
<1>2. /\ drain'[f].at = IF NeedsContinuation(f) THEN "prepare" ELSE "lookAgain"
      /\ drain'[f].promotion = "steer" /\ drain'[f].step = drain[f].step + 1
      /\ drain'[f].spent = drain[f].spent + 1
  BY DEF TypeOK, Successor, Fresh
<1>3. Quiet'
  <2> SUFFICES ASSUME NEW t \in Calls, call'[t] = "running" PROVE FALSE
    BY DEF Quiet
  <2>1. call' = FailUnsettled(IF drain[f].tools # "ok" \/ drain[f].refused
                              THEN drain[f].mine
                              ELSE drain[f].mine \cap hosted)
    BY DEF FinishTurn
  <2>2. call[t] = "running"
    BY <2>1 DEF FailUnsettled
  <2>3. /\ t \in drain[f].mine
        /\ t \in drain[f].live \/ t \in hosted \/ drain[f].tools # "ok"
    BY <1>1, <2>2 DEF TurnOK
  <2>4. drain[f].live = {} \/ drain[f].tools # "ok"
    BY DEF FinishTurn
  <2> QED
    BY <2>1, <2>2, <2>3, <2>4 DEF FailUnsettled
<1>4. ChainOK(f)'
  <2>1. drain[f].step \in Nat /\ drain[f].spent \in Nat /\ MaxSteps \in Nat
    BY <1>1, ConstantsAssumption DEF Drains
  <2>2. drain'[f].spent <= MaxSteps
    BY <1>1, <1>2, <2>1 DEF Within
  <2>3. CASE NeedsContinuation(f)
    <3>1. Within(f)'
      BY <1>1, <1>2, <2>1, <2>3 DEF Within, NeedsContinuation, LastStep
    <3> QED
      BY <1>2, <2>2, <2>3, <3>1 DEF ChainOK
  <2>4. CASE ~NeedsContinuation(f)
    BY <1>2, <2>2, <2>4 DEF ChainOK
  <2> QED
    BY <2>3, <2>4
<1> QED
  BY <1>2, <1>3, <1>4 DEF DrainOK, TurnOK, BatchOK

LEMMA AdvanceOK ==
  ASSUME TypeOK, Single, \A g \in Fibers : DrainOK(g),
         NEW f \in Fibers, Advance(f) \/ Fail(f)
  PROVE  \A g \in Fibers : DrainOK(g)'
<1>1. drain[f].at # "idle"
  BY DEF Advance, Turn, Fail, LookSteer, LookQueue, FailOpen, Prepare,
         PromoteQueued, PickSteers, PromoteSteer, Ask, CallTool, HostedResult,
         ToolReturns, ToolBreaks, ProviderError, StreamEnds, FinishTurn,
         TurnInterrupted, LookSteerAgain, LookQueueAgain, Interrupted,
         Breakable, Moves
<1>2. CASE \E success \in BOOLEAN : Settle(f, success)
  BY <1>1, <1>2, SettlesOK
<1>3. CASE DrainOK(f)' /\ ~\E success \in BOOLEAN : Settle(f, success)
  <2>1. Keeps(f) \/ UNCHANGED <<entry, drain>>
    BY <1>3, DrainSteps
  <2>2. Keeps(f)
    BY <1>1, <2>1 DEF Keeps, TypeOK
  <2> QED
    BY <1>3, <2>2, KeepsOK
<1>4. CASE FailOpen(f) \/ Prepare(f) \/ PromoteQueued(f) \/ PickSteers(f)
             \/ PromoteSteer(f)
  BY <1>2, <1>3, <1>4, FailOpenOK, PrepareOK, PromoteQueuedOK, PickSteersOK,
     PromoteSteerOK
<1>5. CASE Turn(f) /\ ~FinishTurn(f) /\ ~TurnInterrupted(f)
  BY <1>2, <1>3, <1>5, CallToolOK, AnswerOK DEF Turn
<1>6. CASE FinishTurn(f)
  BY <1>2, <1>3, <1>6, FinishOK DEF FinishTurn, Successor
<1>7. CASE TurnInterrupted(f) \/ Interrupted(f) \/ Fail(f)
  BY <1>2, <1>7 DEF TurnInterrupted, Interrupted, Fail
<1> QED
  BY <1>4, <1>5, <1>6, <1>7, LooksOK DEF Advance

LEMMA DrainsOK ==
  ASSUME TypeOK, TypeOK', Single, \A g \in Fibers : DrainOK(g), [Next]_vars
  PROVE  \A g \in Fibers : DrainOK(g)'
<1>1. CASE UNCHANGED vars
  <2> TAKE g \in Fibers
  <2>1. Told(g) /\ Grows
    BY <1>1 DEF vars, Told, Grows
  <2> QED
    BY <2>1, ToldOK
<1>2. CASE Crash
  BY <1>2, FreshOK DEF Crash
<1> QED
  BY <1>1, <1>2, AdvanceOK, CallersOK DEF Next

LEMMA DrainsInit ==
  ASSUME Init
  PROVE  \A g \in Fibers : DrainOK(g)
<1> TAKE g \in Fibers
<1>1. drain[g].at = "idle" /\ drain[g].spent = 0
  BY DEF Init, IdleDrain, Fresh
<1> QED
  BY <1>1, ConstantsAssumption DEF DrainOK, TurnOK, BatchOK, ChainOK, QuietPhases

\* The tool loop is bounded by the steps of the agent for every drain.
THEOREM LoopBounded == Spec => []ToolLoopBounded
<1> DEFINE Inv == TypeOK /\ Single /\ \A f \in Fibers : DrainOK(f)
<1>1. Init => Inv
  <2>1. IdleDrain.at = "idle"
    BY DEF IdleDrain, Fresh
  <2> QED
    BY <2>1, InitType, EntryType, DrainsInit DEF Init, Single, OneDrain
<1>2. Inv /\ [Next]_vars => Inv'
  BY TypeStep, SingleStep, DrainsOK
<1>3. Inv => ToolLoopBounded
  BY DEF DrainOK, ChainOK, ToolLoopBounded
<1> QED
  BY <1>1, <1>2, <1>3, PTL DEF Spec-----------------------------------------------------------------------------
(* Wake-ups                                                                *)

LEMMA ReleasedWakes ==
  ASSUME NEW c \in Callers, Released[c].at = "wake"
  PROVE  Released[c] = caller[c]
BY DEF Released, IdleCaller

\* What a drain does to the inbox, the callers and the wakes owed.
Serves ==
  /\ owed' \subseteq owed
  /\ \A i \in owed' : inbox'[i] = inbox[i]
  /\ \A i \in Inputs : inbox'[i].admitted = inbox[i].admitted
  /\ caller' \in {caller, Released}

LEMMA PromoteServes ==
  ASSUME TypeOK, NEW i \in Inputs, Promote(i), UNCHANGED caller
  PROVE  Serves
<1>1. inbox[i] \in [delivery : Deliveries, admitted : 0 .. sequence,
                    promoted : BOOLEAN]
  BY DEF TypeOK, Rows
<1> QED
  BY <1>1 DEF Serves, Promote, TypeOK

LEMMA AdvanceServes ==
  ASSUME TypeOK, NEW f \in Fibers, Advance(f) \/ Fail(f)
  PROVE  Serves
<1>1. CASE UNCHANGED <<inbox, caller, owed>>
  BY <1>1 DEF Serves
<1>2. CASE UNCHANGED inbox /\ \E success \in BOOLEAN : Settle(f, success)
  BY <1>2 DEF Serves, Settle
<1>3. CASE PromoteQueued(f)
  BY <1>1, <1>3, PromoteServes DEF PromoteQueued, Earliest, Pending
<1>4. CASE PromoteSteer(f)
  <2>1. drain[f].batch \subseteq Inputs
    BY DEF TypeOK, Drains
  <2> QED
    BY <1>4, <2>1, PromoteServes DEF PromoteSteer, Earliest
<1>5. CASE LookSteer(f) \/ FailOpen(f) \/ Prepare(f) \/ PickSteers(f)
            \/ LookSteerAgain(f)
  BY <1>1, <1>5 DEF LookSteer, FailOpen, Prepare, PickSteers, LookSteerAgain
<1>6. CASE LookQueue(f) \/ LookQueueAgain(f) \/ Interrupted(f) \/ Fail(f)
  BY <1>1, <1>2, <1>6 DEF LookQueue, LookQueueAgain, Interrupted, Fail
<1>7. CASE Turn(f)
  BY <1>1, <1>2, <1>7 DEF Turn, Ask, CallTool, HostedResult, ToolReturns,
     ToolBreaks, ProviderError, StreamEnds, FinishTurn, TurnInterrupted
<1> QED
  BY <1>3, <1>4, <1>5, <1>6, <1>7 DEF Advance

LEMMA ServesOK ==
  ASSUME TypeOK, CallerOK, OwedOK, Serves
  PROVE  CallerOK' /\ OwedOK'
<1>1. CallerOK'
  <2> SUFFICES ASSUME NEW c \in Callers, caller'[c].at = "wake"
               PROVE  Admitted(caller[c].input)'
    BY DEF CallerOK
  <2>1. caller'[c] = caller[c]
    BY ReleasedWakes DEF Serves
  <2>2. caller[c].input \in Inputs
    BY DEF TypeOK, CallerRecords
  <2> QED
    BY <2>1, <2>2 DEF CallerOK, Serves, Admitted
<1>2. OwedOK'
  BY DEF OwedOK, Serves, Admitted
<1> QED
  BY <1>1, <1>2

\* An input that is owed is pending in its delivery.
LEMMA OwedPending ==
  ASSUME TypeOK, OwedOK, NEW i \in owed
  PROVE  inbox[i].delivery \in Deliveries /\ i \in Pending(inbox[i].delivery)
BY DEF TypeOK, OwedOK, Pending, Rows

LEMMA StartsWake ==
  ASSUME TypeOK, NEW force \in BOOLEAN, StartDrain(force)
  PROVE  NoLostWakeup'
<1>1. PICK f \in Fibers : /\ drain' = [drain EXCEPT ![f] = Fresh(force)]
                          /\ entry' = NewEntry(f)
  BY Started
<1>2. /\ entry'.live /\ entry'.owner = f
      /\ drain'[f].at = "look" /\ ~drain'[f].signaled
  BY <1>1, EntryType DEF TypeOK, Fresh
<1> QED
  BY <1>2 DEF NoLostWakeup, WillLook, Phases

\* A drain that ends leaves a follow-up, or nothing is owed any more: it fails,
\* or nothing was pending when it looked.
LEMMA SettlesWake ==
  ASSUME TypeOK, Single, NoLostWakeup, NEW f \in Fibers, drain[f].at # "idle",
         NEW success \in BOOLEAN, Settle(f, success),
         success => owed = {} \/ entry.pendingWake
  PROVE  NoLostWakeup'
<1>1. CASE entry.pendingWake
  <2>1. /\ entry'.live /\ entry'.owner = f
        /\ drain'[f].at = "look" /\ ~drain'[f].signaled
    BY <1>1, EntryType DEF TypeOK, Settle, Fresh
  <2> QED
    BY <2>1 DEF NoLostWakeup, WillLook, Phases
<1>2. CASE ~entry.pendingWake
  BY <1>2 DEF Settle, NoLostWakeup
<1> QED
  BY <1>1, <1>2

\* A drain that goes on still looks for what it owes.
LEMMA KeepsWake ==
  ASSUME TypeOK, TypeOK', Single, OwedOK, NoLostWakeup, Serves, NEW f \in Fibers, Keeps(f),
         drain[f].signaled = drain'[f].signaled,
         drain'[f].at \in {"lookQueue", "lookQueueAgain"} =>
           Pending("steer") = {}
  PROVE  NoLostWakeup'
<1> SUFFICES ASSUME NEW i \in owed', ~entry.pendingWake
             PROVE  /\ entry'.live
                    /\ ~drain'[entry'.owner].signaled
                    /\ drain'[entry'.owner].at \in WillLook(inbox'[i].delivery)
  <2>1. \A i \in owed' : entry'.live
    BY DEF NoLostWakeup, Serves, Keeps
  <2> QED
    BY <2>1 DEF NoLostWakeup, Keeps
<1>1. i \in owed /\ inbox'[i] = inbox[i]
  BY DEF Serves
<1>2. entry' = entry /\ entry.live /\ entry.owner = f
  BY Alone DEF Keeps
<1>3. ~drain[f].signaled
  BY <1>1, <1>2 DEF NoLostWakeup
<1>4. inbox[i].delivery \in Deliveries /\ i \in Pending(inbox[i].delivery)
  BY <1>1, OwedPending
<1>5. drain'[f].at \in Phases \ {"idle"}
  BY DEF TypeOK, Drains, Keeps
<1> QED
  BY <1>1, <1>2, <1>3, <1>4, <1>5 DEF WillLook

\* A drain that goes on is not told to stop, has found no steering input when
\* it looks for queued input, and is answered only when it asks.
StillLooks(f) ==
  /\ drain[f].signaled = drain'[f].signaled
  /\ drain'[f].at \in {"lookQueue", "lookQueueAgain"} => Pending("steer") = {}
  /\ drain'[f].at \notin {"look", "idle"}
  /\ drain'[f].at = "stream" => drain[f].at = "stream" \/ Ask(f)
FoundNothing(f) ==
  /\ drain[f].at \in {"lookQueue", "lookQueueAgain"} /\ Pending("queue") = {}

LEMMA AdvanceSignals ==
  ASSUME TypeOK, NEW f \in Fibers, Advance(f) \/ Fail(f)
  PROVE  \/ StillLooks(f) \/ Settle(f, FALSE)
         \/ Settle(f, TRUE) /\ FoundNothing(f)
<1> USE DEF StillLooks
<1>0. drain[f] \in Drains
  BY DEF TypeOK
<1>1. CASE LookSteer(f)
  <2>1. CASE Pending("steer") # {}
    BY <1>0, <1>1, <2>1 DEF LookSteer, TypeOK, Drains
  <2>2. CASE Pending("steer") = {}
    BY <1>0, <1>1, <2>2 DEF LookSteer, TypeOK, Drains
  <2> QED
    BY <2>1, <2>2
<1>2. CASE LookQueue(f) /\ ~(Settle(f, TRUE) /\ FoundNothing(f))
  <2>1. PICK p \in {"none"} \cup Deliveries :
          drain' = [drain EXCEPT ![f] =
            [@ EXCEPT !.at = "failOpen", !.force = FALSE, !.promotion = p]]
    BY <1>2 DEF LookQueue, FoundNothing, Moves, Deliveries
  <2> QED
    BY <1>0, <2>1 DEF TypeOK, Drains
<1>3. CASE FailOpen(f)
  <2>1. CASE UNCHANGED drain
    BY <1>3, <2>1 DEF FailOpen, Moves
  <2>2. CASE Goes(f, "prepare")
    BY <1>0, <2>2 DEF Goes, TypeOK, Drains
  <2> QED
    BY <1>3, <2>1, <2>2 DEF FailOpen
<1>4. CASE Prepare(f)
  <2>1. drain[f].promotion \in {"none", "steer", "queue"}
    BY <1>0 DEF Drains, Deliveries
  <2>2. /\ drain[f].signaled = drain'[f].signaled
        /\ drain'[f].at \in {"request", "pickSteers", "promoteQueued"}
    BY <1>0, <1>4, <2>1 DEF Prepare, TypeOK, Drains
  <2> QED
    BY <2>2
<1>5. CASE PromoteQueued(f)
  <2>1. CASE Goes(f, "pickSteers")
    BY <1>0, <2>1 DEF Goes, TypeOK, Drains
  <2>2. CASE drain' = [drain EXCEPT ![f] =
               [@ EXCEPT !.at = "pickSteers", !.step = 1, !.spent = 0]]
    BY <1>0, <2>2 DEF TypeOK, Drains
  <2> QED
    BY <1>5, <2>1, <2>2 DEF PromoteQueued
<1>6. CASE PickSteers(f)
  <2>1. drain'[f].at \in {"request", "promoteSteers"}
    BY <1>0, <1>6 DEF PickSteers, TypeOK, Drains
  <2> QED
    BY <1>0, <1>6, <2>1 DEF PickSteers, TypeOK, Drains
<1>7. CASE PromoteSteer(f)
  <2>1. drain'[f].at \in {"request", "promoteSteers"}
    BY <1>0, <1>7 DEF PromoteSteer, TypeOK, Drains
  <2> QED
    BY <1>0, <1>7, <2>1 DEF PromoteSteer, TypeOK, Drains
<1>8. CASE Ask(f) \/ ProviderError(f)
  <2>1. drain'[f].at = "stream" /\ (Ask(f) \/ drain[f].at = "stream")
    BY <1>0, <1>8 DEF Ask, ProviderError, Moves, TypeOK, Drains
  <2>2. drain[f].signaled = drain'[f].signaled
    BY <1>0, <1>8 DEF Ask, ProviderError, TypeOK, Drains
  <2> QED
    BY <2>1, <2>2
<1>9. ASSUME NEW t \in Calls, NEW byProvider \in BOOLEAN,
             CallTool(f, t, byProvider)
      PROVE  StillLooks(f)
  <2>1. /\ drain[f].signaled = drain'[f].signaled
        /\ drain[f].at = "stream" /\ drain'[f].at = "stream"
    BY <1>0, <1>9 DEF CallTool, Moves, TypeOK, Drains
  <2> QED
    BY <2>1
<1>10. ASSUME NEW t \in Calls, NEW o \in Outcomes, HostedResult(f, t, o)
       PROVE  StillLooks(f)
  BY <1>10 DEF HostedResult, Moves
<1>11. ASSUME NEW t \in Calls, NEW o \in Outcomes, ToolReturns(f, t, o)
       PROVE  StillLooks(f)
  <2>1. /\ drain[f].signaled = drain'[f].signaled
        /\ drain'[f].at \in {"stream", "await"}
        /\ drain'[f].at = drain[f].at
    BY <1>0, <1>11 DEF ToolReturns, TypeOK, Drains
  <2> QED
    BY <2>1
<1>12. ASSUME NEW t \in Calls, NEW how \in {"failed", "declined"},
              ToolBreaks(f, t, how)
       PROVE  StillLooks(f)
  <2>1. /\ drain[f].signaled = drain'[f].signaled
        /\ drain'[f].at \in {"stream", "await"}
        /\ drain'[f].at = drain[f].at
    BY <1>0, <1>12 DEF ToolBreaks, TypeOK, Drains
  <2> QED
    BY <2>1
<1>13. ASSUME NEW how \in {"ok", "failed", "died"}, StreamEnds(f, how)
       PROVE  StillLooks(f)
  <2>1. drain[f].signaled = drain'[f].signaled /\ drain'[f].at = "await"
    BY <1>0, <1>13 DEF StreamEnds, TypeOK, Drains
  <2> QED
    BY <2>1
<1>14. CASE FinishTurn(f) /\ ~Settle(f, FALSE)
  <2>1. ~drain[f].signaled /\ drain' = [drain EXCEPT ![f] = Successor(f)]
    BY <1>14 DEF FinishTurn, Moves, Successor
  <2>2. Successor(f).at \in {"prepare", "lookAgain"} /\ Successor(f).signaled = FALSE
    BY DEF Successor, Fresh
  <2>3. drain[f].signaled = FALSE
    BY <1>0, <2>1 DEF Drains
  <2> QED
    BY <2>1, <2>2, <2>3 DEF TypeOK
<1>15. CASE LookSteerAgain(f)
  <2>1. CASE Pending("steer") # {}
    BY <1>0, <1>15, <2>1 DEF LookSteerAgain, Goes, TypeOK, Drains
  <2>2. CASE Pending("steer") = {}
    BY <1>0, <1>15, <2>2 DEF LookSteerAgain, Goes, TypeOK, Drains
  <2> QED
    BY <2>1, <2>2
<1>16. CASE LookQueueAgain(f) /\ ~(Settle(f, TRUE) /\ FoundNothing(f))
  <2>1. drain' = [drain EXCEPT ![f] =
          [@ EXCEPT !.at = "prepare", !.promotion = "queue", !.step = 1]]
    BY <1>16 DEF LookQueueAgain, FoundNothing, Moves
  <2>2. drain'[f].signaled = drain[f].signaled /\ drain'[f].at = "prepare"
    BY <1>0, <2>1 DEF TypeOK, Drains
  <2> QED
    BY <2>2
<1>17. TurnInterrupted(f) \/ Interrupted(f) \/ Fail(f) => Settle(f, FALSE)
  BY DEF TurnInterrupted, Interrupted, Fail
<1>18. CASE Turn(f)
  <2> HIDE DEF StillLooks
  <2>1. CASE \E t \in Calls :
               \/ \E byProvider \in BOOLEAN : CallTool(f, t, byProvider)
               \/ \E o \in Outcomes : HostedResult(f, t, o)
               \/ \E o \in Outcomes : ToolReturns(f, t, o)
               \/ \E how \in {"failed", "declined"} : ToolBreaks(f, t, how)
    BY <1>9, <1>10, <1>11, <1>12, <2>1
  <2>2. CASE \E how \in {"ok", "failed", "died"} : StreamEnds(f, how)
    BY <1>13, <2>2
  <2> QED
    BY <1>8, <1>14, <1>17, <1>18, <2>1, <2>2 DEF Turn
<1> HIDE DEF StillLooks
<1> QED
  BY <1>1, <1>2, <1>3, <1>4, <1>5, <1>6, <1>7, <1>15, <1>16, <1>17, <1>18
  DEF Advance

\* A look that finds nothing owes nothing, or a wake came in between.
LEMMA SuccessWake ==
  ASSUME TypeOK, Single, OwedOK, NoLostWakeup, NEW f \in Fibers,
         drain[f].at \in {"lookQueue", "lookQueueAgain"},
         Pending("queue") = {}
  PROVE  owed = {} \/ entry.pendingWake
<1> SUFFICES ASSUME NEW i \in owed, ~entry.pendingWake PROVE FALSE
  OBVIOUS
<1>1. entry.owner = f
  BY Alone
<1>2. drain[f].at \in WillLook(inbox[i].delivery)
  BY <1>1 DEF NoLostWakeup
<1>3. inbox[i].delivery \in Deliveries /\ i \in Pending(inbox[i].delivery)
  BY OwedPending
<1> QED
  BY <1>2, <1>3 DEF WillLook, Deliveries

LEMMA AdvanceWake ==
  ASSUME TypeOK, TypeOK', Single, OwedOK, NoLostWakeup,
         NEW f \in Fibers, Advance(f) \/ Fail(f)
  PROVE  NoLostWakeup'
<1>1. drain[f].at # "idle"
  BY DEF Advance, Turn, Fail, LookSteer, LookQueue, FailOpen, Prepare,
         PromoteQueued, PickSteers, PromoteSteer, Ask, CallTool, HostedResult,
         ToolReturns, ToolBreaks, ProviderError, StreamEnds, FinishTurn,
         TurnInterrupted, LookSteerAgain, LookQueueAgain, Interrupted,
         Breakable, Moves
<1>2. CASE Settle(f, FALSE)
  BY <1>1, <1>2, SettlesWake
<1>3. CASE Settle(f, TRUE) /\ FoundNothing(f)
  BY <1>1, <1>3, SuccessWake, SettlesWake DEF FoundNothing
<1>4. CASE StillLooks(f)
  <2>1. ~\E success \in BOOLEAN : Settle(f, success)
    <3> SUFFICES ASSUME NEW success \in BOOLEAN, Settle(f, success)
                 PROVE  FALSE
      OBVIOUS
    <3>1. drain'[f].at \in {"look", "idle"}
      BY DEF Settle, TypeOK, Fresh, IdleDrain
    <3> QED
      BY <1>4, <3>1 DEF StillLooks
  <2>2. Keeps(f)
    BY <1>1, <2>1, DrainSteps DEF Keeps, TypeOK
  <2> QED
    BY <1>4, <2>2, AdvanceServes, KeepsWake DEF StillLooks
<1> QED
  BY <1>2, <1>3, <1>4, AdvanceSignals
LEMMA SameWake ==
  ASSUME TypeOK, NoLostWakeup, UNCHANGED <<entry, drain>>, owed' = owed,
         \A i \in owed : inbox'[i].delivery = inbox[i].delivery
  PROVE  NoLostWakeup'
BY DEF NoLostWakeup

LEMMA CallersWake ==
  ASSUME TypeOK, TypeOK', Single, CallerOK, OwedOK, NoLostWakeup,
         NEW c \in Callers, Prompts(c) \/ Resume(c) \/ Interrupt(c)
  PROVE  CallerOK' /\ OwedOK' /\ NoLostWakeup'
<1>0. IdleCaller.at = "idle" /\ caller[c] \in CallerRecords
  BY DEF IdleCaller, TypeOK
<1>1. ASSUME NEW i \in Inputs, Retry(c, i)
      PROVE  CallerOK' /\ OwedOK' /\ NoLostWakeup'
  <2>1. CallerOK'
    BY <1>1, <1>0, CallerType DEF Retry, CallerOK, Admitted, TypeOK,
                                  CallerRecords
  <2> QED
    BY <1>1, <2>1, SameWake DEF Retry, OwedOK, Admitted
<1>2. ASSUME NEW i \in Inputs, NEW d \in Deliveries, Prompt(c, i, d)
      PROVE  CallerOK' /\ OwedOK' /\ NoLostWakeup'
  BY <1>2, SameWake DEF Prompt, CallerOK, OwedOK, Admitted, TypeOK
<1>3. ASSUME NEW resume \in BOOLEAN, PublishAdmitted(c, resume)
      PROVE  CallerOK' /\ OwedOK' /\ NoLostWakeup'
  <2>1. /\ caller[c].input \in Inputs /\ sequence \in Nat
        /\ \A j \in Inputs : Admitted(j) => inbox'[j] = inbox[j]
    BY <1>0, <1>3 DEF TypeOK, PublishAdmitted, CallerRecords
  <2>2. inbox'[caller[c].input].admitted > 0
    BY <1>3, <2>1 DEF PublishAdmitted, Admitted, TypeOK
  <2>3. \A e \in Callers : caller'[e].at = "wake" =>
          \/ caller'[e] = caller[e]
          \/ caller'[e].input = caller[c].input
    BY <1>0, <1>3, CallerType DEF PublishAdmitted, TypeOK, CallerRecords
  <2>4. \A e \in Callers : caller[e].input \in Inputs
    BY DEF TypeOK, CallerRecords
  <2>5. CallerOK'
    BY <2>1, <2>2, <2>3, <2>4 DEF CallerOK, Admitted
  <2>6. OwedOK'
    BY <1>3, <2>1 DEF PublishAdmitted, OwedOK, Admitted, TypeOK
  <2>7. NoLostWakeup'
    BY <1>3, <2>1, SameWake DEF PublishAdmitted, OwedOK, TypeOK
  <2> QED
    BY <2>5, <2>6, <2>7
<1>4. CASE Return(c)
  <2>1. CallerOK'
    BY <1>0, <1>4 DEF Return, CallerOK, Admitted, TypeOK
  <2>2. OwedOK'
    BY <1>4 DEF Return, OwedOK, CallerOK, Admitted
  <2>3. CASE StartDrain(FALSE)
    BY <2>1, <2>2, <2>3, StartsWake
  <2>4. CASE entry.live /\ entry' = [entry EXCEPT !.pendingWake = TRUE]
    BY <2>1, <2>2, <2>4 DEF NoLostWakeup, TypeOK, Entries
  <2> QED
    BY <1>4, <2>1, <2>2, <2>3, <2>4 DEF Return, Wake
<1>5. CASE Resume(c)
  <2>1. CallerOK'
    <3>1. caller'[c].at # "wake"
      BY <1>0, <1>5 DEF Resume, TypeOK, IdleCaller
    <3> QED
      BY <1>5, <3>1 DEF Resume, CallerOK, Admitted, TypeOK
  <2>2. OwedOK'
    BY <1>5 DEF Resume, OwedOK, Admitted
  <2>3. CASE StartDrain(TRUE)
    BY <2>1, <2>2, <2>3, StartsWake
  <2>4. CASE UNCHANGED <<entry, drain>>
    BY <1>5, <2>1, <2>2, <2>4, SameWake DEF Resume
  <2> QED
    BY <1>5, <2>1, <2>2, <2>3, <2>4 DEF Resume
<1>6. CASE Interrupt(c)
  <2>1. caller'[c].at # "wake"
    BY <1>0, <1>6 DEF Interrupt, TypeOK, IdleCaller
  <2> QED
    BY <1>6, <2>1 DEF Interrupt, CallerOK, OwedOK, NoLostWakeup, Admitted,
                      TypeOK
<1> QED
  BY <1>1, <1>2, <1>3, <1>4, <1>5, <1>6 DEF Prompts

\* Only what was admitted is promoted.
LEMMA PromotedStep ==
  ASSUME TypeOK, \A f \in Fibers : DrainOK(f), PromotedOK, [Next]_vars
  PROVE  PromotedOK'
<1>1. CASE UNCHANGED inbox
  BY <1>1 DEF PromotedOK, Admitted
<1>2. ASSUME NEW i \in Inputs, Admitted(i), Promote(i)
      PROVE  PromotedOK'
  <2>1. \A j \in Inputs : /\ inbox'[j].admitted = inbox[j].admitted
                          /\ j # i => inbox'[j] = inbox[j]
    BY <1>2 DEF Promote, TypeOK, Rows
  <2> QED
    BY <1>2, <2>1 DEF PromotedOK, Admitted
<1>3. ASSUME NEW f \in Fibers, PromoteQueued(f)
      PROVE  PromotedOK'
  BY <1>1, <1>2, <1>3 DEF PromoteQueued, Earliest, Pending
<1>4. ASSUME NEW f \in Fibers, PromoteSteer(f)
      PROVE  PromotedOK'
  <2>1. drain[f].batch \subseteq Pending("steer")
    BY <1>4 DEF PromoteSteer, Moves, DrainOK, BatchOK
  <2> QED
    BY <1>2, <1>4, <2>1 DEF PromoteSteer, Earliest, Pending
<1>5. ASSUME NEW c \in Callers, NEW resume \in BOOLEAN,
             PublishAdmitted(c, resume)
      PROVE  PromotedOK'
  <2>1. caller[c].input \in Inputs /\ sequence \in Nat
    BY DEF TypeOK, CallerRecords
  <2> QED
    BY <1>5, <2>1 DEF PublishAdmitted, PromotedOK, Admitted, TypeOK
<1>6. CASE Crash \/ UNCHANGED vars
  BY <1>1, <1>6 DEF Crash, vars
<1>7. ASSUME NEW c \in Callers, Prompts(c) \/ Resume(c) \/ Interrupt(c)
      PROVE  PromotedOK'
  BY <1>1, <1>5, <1>7 DEF Prompts, Prompt, Retry, Return, Resume, Interrupt
<1>8. ASSUME NEW f \in Fibers, Turn(f)
      PROVE  PromotedOK'
  BY <1>1, <1>8 DEF Turn, Ask, CallTool, HostedResult, ToolReturns,
     ToolBreaks, ProviderError, StreamEnds, FinishTurn, TurnInterrupted
<1>9. ASSUME NEW f \in Fibers, Advance(f) \/ Fail(f)
      PROVE  PromotedOK'
  BY <1>1, <1>3, <1>4, <1>8, <1>9
  DEF Advance, LookSteer, LookQueue, FailOpen, Prepare, PickSteers,
      LookSteerAgain, LookQueueAgain, Interrupted, Fail
<1> QED
  BY <1>6, <1>7, <1>9 DEF Next

LEMMA InvInit ==
  ASSUME Init
  PROVE  IInv
<1>1. IdleDrain.at = "idle" /\ IdleCaller.at = "idle"
  BY DEF IdleDrain, Fresh, IdleCaller
<1> QED
  BY <1>1, InitType, EntryType, DrainsInit
  DEF Init, IInv, Single, OneDrain, CallerOK, OwedOK, PromotedOK, NoRow,
      NoLostWakeup

LEMMA InvStep ==
  ASSUME IInv, [Next]_vars
  PROVE  IInv'
<1>1. TypeOK' /\ Single' /\ \A f \in Fibers : DrainOK(f)'
  BY TypeStep, SingleStep, DrainsOK DEF IInv
<1>2. CallerOK' /\ OwedOK' /\ NoLostWakeup'
  <2>1. CASE UNCHANGED vars
    BY <2>1 DEF vars, IInv, CallerOK, OwedOK, NoLostWakeup, Admitted
  <2>2. CASE Crash
    <3>1. IdleCaller.at = "idle"
      BY DEF IdleCaller
    <3> QED
      BY <2>2, <3>1 DEF Crash, CallerOK, OwedOK, NoLostWakeup
  <2>3. ASSUME NEW c \in Callers, Prompts(c) \/ Resume(c) \/ Interrupt(c)
        PROVE  CallerOK' /\ OwedOK' /\ NoLostWakeup'
    BY <1>1, <2>3, CallersWake DEF IInv
  <2>4. ASSUME NEW f \in Fibers, Advance(f) \/ Fail(f)
        PROVE  CallerOK' /\ OwedOK' /\ NoLostWakeup'
    BY <1>1, <2>4, AdvanceServes, ServesOK, AdvanceWake DEF IInv
  <2> QED
    BY <2>1, <2>2, <2>3, <2>4 DEF Next
<1>3. PromotedOK'
  BY PromotedStep DEF IInv
<1> QED
  BY <1>1, <1>2, <1>3 DEF IInv

LEMMA InvCorrect == Spec => []IInv
BY InvInit, InvStep, PTL DEF Spec

\* A prompt that wakes the session is served by the drain that runs or by a
\* follow-up that is registered, whatever else happens in between.
THEOREM WakeupsKept == Spec => []NoLostWakeup
<1>1. IInv => NoLostWakeup
  BY DEF IInv
<1> QED
  BY <1>1, InvCorrect, PTL-----------------------------------------------------------------------------
(* The session implements SessionPromise                                   *)

\* What every step but Ask does to the calls and to the request.
Asking == \E f \in Fibers : drain[f].at = "stream"
CallsMove ==
  \A t \in Calls :
    \/ call'[t] = call[t]
    \/ call[t] = "none" /\ Asking /\ call'[t] \in {"running", "failed"}
    \/ call[t] = "running" /\ call'[t] \in {"success", "failed"}

LEMMA FailMoves ==
  ASSUME NEW S, call' = FailUnsettled(S)
  PROVE  CallsMove
BY DEF FailUnsettled, CallsMove

LEMMA AdvanceMoves ==
  ASSUME TypeOK, NEW f \in Fibers, Advance(f) \/ Fail(f)
  PROVE  CallsMove
<1>1. CASE UNCHANGED call
  BY <1>1 DEF CallsMove
<1>2. CASE FailOpen(f)
  BY <1>2 DEF FailOpen, CallsMove, TypeOK
<1>3. ASSUME NEW t \in Calls, NEW byProvider \in BOOLEAN,
             CallTool(f, t, byProvider)
      PROVE  CallsMove
  <2>1. Asking /\ call[t] = "none"
    BY <1>3 DEF CallTool, Moves, Asking
  <2>2. CASE call' = [call EXCEPT ![t] = "running"]
    BY <2>1, <2>2 DEF CallsMove, TypeOK
  <2>3. CASE call' = [FailUnsettled(drain[f].mine) EXCEPT ![t] = "failed"]
    BY <2>1, <2>3 DEF CallsMove, FailUnsettled
  <2> QED
    BY <1>3, <2>2, <2>3 DEF CallTool
<1>4. ASSUME NEW t \in Calls, NEW o \in Outcomes,
             HostedResult(f, t, o) \/ ToolReturns(f, t, o)
      PROVE  CallsMove
  BY <1>4 DEF HostedResult, ToolReturns, CallsMove, Outcomes, TypeOK
<1>5. CASE FinishTurn(f) \/ TurnInterrupted(f)
  BY <1>5, FailMoves DEF FinishTurn, TurnInterrupted
<1>6. ASSUME NEW how \in {"ok", "failed", "died"}, StreamEnds(f, how)
      PROVE  CallsMove
  BY <1>1, <1>6, FailMoves DEF StreamEnds
<1>7. CASE Turn(f)
  <2>1. CASE \E t \in Calls :
               \/ \E byProvider \in BOOLEAN : CallTool(f, t, byProvider)
               \/ \E o \in Outcomes : HostedResult(f, t, o)
               \/ \E o \in Outcomes : ToolReturns(f, t, o)
    BY <1>3, <1>4, <2>1
  <2>2. CASE \E t \in Calls, how \in {"failed", "declined"} :
               ToolBreaks(f, t, how)
    BY <1>1, <2>2 DEF ToolBreaks
  <2>3. CASE \E how \in {"ok", "failed", "died"} : StreamEnds(f, how)
    BY <1>6, <2>3
  <2>4. CASE Ask(f) \/ ProviderError(f)
    BY <1>1, <2>4 DEF Ask, ProviderError
  <2> QED
    BY <1>5, <1>7, <2>1, <2>2, <2>3, <2>4 DEF Turn
<1> QED
  BY <1>1, <1>2, <1>7
  DEF Advance, LookSteer, LookQueue, Prepare, PromoteQueued, PickSteers,
      PromoteSteer, LookSteerAgain, LookQueueAgain, Interrupted, Fail

LEMMA AdvanceAsks ==
  ASSUME TypeOK, Single, NEW f \in Fibers, Advance(f) \/ Fail(f), ~Ask(f)
  PROVE  Asking' => Asking
<1>1. \A g \in Fibers : g # f => drain'[g] = drain[g]
  BY DrainSteps DEF Keeps, Settle, TypeOK
<1>2. CASE StillLooks(f)
  BY <1>1, <1>2 DEF StillLooks, Asking
<1>3. CASE \E success \in BOOLEAN : Settle(f, success)
  <2>1. drain'[f].at # "stream"
    BY <1>3 DEF Settle, TypeOK, Fresh, IdleDrain
  <2> QED
    BY <1>1, <2>1 DEF Asking
<1> QED
  BY <1>2, <1>3, AdvanceSignals

LEMMA CallersAsk ==
  ASSUME TypeOK, NEW c \in Callers, Prompts(c) \/ Resume(c) \/ Interrupt(c)
  PROVE  (Asking' <=> Asking) /\ UNCHANGED call
<1>1. CASE UNCHANGED drain
  BY <1>1 DEF Asking, Prompts, Prompt, Retry, PublishAdmitted, Return, Resume,
              Interrupt
<1>2. ASSUME NEW force \in BOOLEAN, StartDrain(force)
      PROVE  Asking' <=> Asking
  <2>1. PICK f \in Fibers : /\ drain[f].at = "idle"
                            /\ drain' = [drain EXCEPT ![f] = Fresh(force)]
    BY <1>2, Started
  <2>2. Fresh(force).at = "look"
    BY DEF Fresh
  <2> QED
    BY <2>1, <2>2 DEF Asking, TypeOK
<1>3. CASE Interrupt(c)
  <2>1. \A g \in Fibers : drain'[g].at = drain[g].at
    <3> TAKE g \in Fibers
    <3>1. drain[g] \in Drains
      BY DEF TypeOK
    <3> QED
      BY <1>3, <3>1 DEF Interrupt, TypeOK, Drains
  <2> QED
    BY <1>3, <2>1 DEF Asking, Interrupt
<1>4. UNCHANGED call
  BY DEF Prompts, Prompt, Retry, PublishAdmitted, Return, Resume, Interrupt
<1> QED
  BY <1>1, <1>2, <1>3, <1>4 DEF Prompts, Prompt, Retry, PublishAdmitted,
                               Return, Wake, Resume

LEMMA StutterImplements ==
  ASSUME UNCHANGED <<inbox, call>>, Asking' <=> Asking
  PROVE  UNCHANGED Promise!vars
<1>1. (\E f \in Fibers : drain[f].at = "stream")' =
        (\E f \in Fibers : drain[f].at = "stream")
  BY DEF Asking
<1> QED
  BY <1>1 DEF Promise!vars

LEMMA WorkImplements ==
  ASSUME TypeOK', UNCHANGED inbox, CallsMove, Asking' => Asking
  PROVE  Promise!Work
<1>1. (\E f \in Fibers : drain[f].at = "stream")' \in
        {\E f \in Fibers : drain[f].at = "stream", FALSE}
  BY DEF Asking
<1>2. call' \in [Calls -> {"none", "running", "success", "failed"}]
  BY DEF TypeOK, CallStates
<1>3. \A t \in Calls :
       \/ call'[t] = call[t]
       \/ /\ call[t] = "none" /\ \E f \in Fibers : drain[f].at = "stream"
          /\ call'[t] \in {"running", "failed"}
       \/ call[t] = "running" /\ call'[t] \in {"success", "failed"}
  BY DEF CallsMove, Asking
<1> QED
  BY <1>1, <1>2, <1>3 DEF Promise!Work
LEMMA AskImplements ==
  ASSUME TypeOK, Single, NEW f \in Fibers, DrainOK(f), Ask(f)
  PROVE  Promise!Ask
<1>1. drain[f] \in Drains /\ drain[f].at = "request" /\ Quiet
  BY DEF TypeOK, Ask, Moves, DrainOK, TurnOK, QuietPhases
<1>2. ~\E g \in Fibers : drain[g].at = "stream"
  BY <1>1, Alone
<1>3. (\E g \in Fibers : drain[g].at = "stream")'
  BY <1>1 DEF Ask, TypeOK, Drains
<1>4. UNCHANGED <<inbox, call>>
  BY DEF Ask
<1> QED
  BY <1>1, <1>2, <1>3, <1>4 DEF Promise!Ask, Quiet

\* The input a drain promotes has every earlier one of its delivery before it.
LEMMA ShowImplements ==
  ASSUME TypeOK, Single, NEW f \in Fibers, DrainOK(f), NEW i \in Inputs,
         drain[f].at \in {"promoteQueued", "promoteSteers"},
         Promote(i), UNCHANGED call, Asking' => Asking,
         i \in Pending(inbox[i].delivery),
         \A j \in Pending(inbox[i].delivery) :
           inbox[i].admitted <= inbox[j].admitted
  PROVE  Promise!Show(i)
<1>1. inbox[i] \in [delivery : Deliveries, admitted : 0 .. sequence,
                    promoted : BOOLEAN]
  BY DEF TypeOK, Rows
<1>2. /\ inbox'[i].promoted /\ inbox'[i].admitted = inbox[i].admitted
      /\ inbox'[i].delivery = inbox[i].delivery
      /\ \A j \in Inputs \ {i} : inbox'[j] = inbox[j]
  BY <1>1 DEF Promote, TypeOK
<1>3. [j \in Inputs |-> inbox'[j].admitted] = [j \in Inputs |-> inbox[j].admitted]
  BY <1>2
<1>4. [j \in Inputs |-> inbox'[j].delivery] = [j \in Inputs |-> inbox[j].delivery]
  BY <1>2
<1>5. {j \in Inputs : inbox'[j].promoted} =
        {j \in Inputs : inbox[j].promoted} \cup {i}
  BY <1>2
<1>6. (\E g \in Fibers : drain[g].at = "stream")' =
        (\E g \in Fibers : drain[g].at = "stream")
  BY Alone DEF Asking
<1>7. inbox[i].admitted > 0 /\ ~inbox[i].promoted
  BY DEF Pending, Admitted
<1>8. ASSUME NEW j \in Inputs, inbox[j].delivery = inbox[i].delivery,
             inbox[j].admitted > 0, inbox[j].admitted < inbox[i].admitted
      PROVE  inbox[j].promoted
  <2>1. inbox[j].admitted \in Nat /\ inbox[i].admitted \in Nat
    BY DEF TypeOK, Rows
  <2> QED
    BY <1>8, <2>1 DEF Pending, Admitted
<1> QED
  BY <1>3, <1>4, <1>5, <1>6, <1>7, <1>8 DEF Promise!Show

LEMMA PromotionImplements ==
  ASSUME TypeOK, TypeOK', Single, NEW f \in Fibers, DrainOK(f),
         PromoteQueued(f) \/ PromoteSteer(f), Asking' => Asking
  PROVE  Promise!Next
<1>1. CASE PromoteQueued(f) /\ Pending("queue") # {}
  <2>1. PICK i \in Earliest(Pending("queue")) : Promote(i)
    BY <1>1 DEF PromoteQueued
  <2>2. i \in Inputs /\ inbox[i].delivery = "queue"
    BY DEF Earliest, Pending
  <2>3. i \in Pending("queue") /\
        \A j \in Pending("queue") : inbox[i].admitted <= inbox[j].admitted
    BY DEF Earliest
  <2> QED
    BY <1>1, <2>1, <2>2, <2>3, ShowImplements
    DEF PromoteQueued, Moves, Promise!Next
<1>2. CASE PromoteQueued(f) /\ Pending("queue") = {}
  BY <1>2, WorkImplements, AdvanceMoves
  DEF PromoteQueued, Earliest, Promise!Next, Advance
<1>3. CASE PromoteSteer(f)
  <2>1. PICK i \in Earliest(drain[f].batch) : Promote(i)
    BY <1>3 DEF PromoteSteer
  <2>2. drain[f].at = "promoteSteers" /\ BatchOK(f) /\ UNCHANGED call
    BY <1>3 DEF PromoteSteer, Moves, DrainOK
  <2>3. /\ i \in drain[f].batch /\ i \in Pending("steer")
        /\ \A j \in drain[f].batch : inbox[i].admitted <= inbox[j].admitted
    BY <2>2 DEF Earliest, BatchOK
  <2>4. i \in Inputs /\ inbox[i].delivery = "steer"
    BY <2>3 DEF Pending
  <2>5. ASSUME NEW j \in Pending("steer")
        PROVE  inbox[i].admitted <= inbox[j].admitted
    <3>1. inbox[i].admitted \in Nat /\ inbox[j].admitted \in Nat
      BY <2>4 DEF TypeOK, Rows, Pending
    <3> QED
      BY <2>2, <2>3, <3>1 DEF BatchOK
  <2> QED
    BY <2>1, <2>2, <2>3, <2>4, <2>5, ShowImplements DEF Promise!Next
<1> QED
  BY <1>1, <1>2, <1>3

LEMMA AdmitImplements ==
  ASSUME TypeOK, TypeOK', PromotedOK, NEW c \in Callers,
         NEW resume \in BOOLEAN, PublishAdmitted(c, resume)
  PROVE  [Promise!Next]_(Promise!vars)
<1>0. PICK i \in Inputs : i = caller[c].input
  BY DEF TypeOK, CallerRecords
<1>1. caller[c].delivery \in Deliveries /\ sequence \in Nat
  BY DEF TypeOK, CallerRecords
<1>2. /\ UNCHANGED <<call, drain>>
      /\ (\E f \in Fibers : drain[f].at = "stream")' =
           (\E f \in Fibers : drain[f].at = "stream")
  BY DEF PublishAdmitted
<1>3. CASE Admitted(i)
  <2>1. inbox' = inbox
    BY <1>0, <1>3 DEF PublishAdmitted, TypeOK
  <2> QED
    BY <1>2, <2>1 DEF Promise!vars
<1>4. CASE ~Admitted(i)
  <2>1. inbox' = [inbox EXCEPT ![i] = [delivery |-> caller[c].delivery,
                                       admitted |-> sequence + 1,
                                       promoted |-> FALSE]]
    BY <1>0, <1>4 DEF PublishAdmitted
  <2>2. /\ inbox'[i].admitted = sequence + 1 /\ ~inbox'[i].promoted
        /\ inbox'[i].delivery = caller[c].delivery
        /\ \A j \in Inputs \ {i} : inbox'[j] = inbox[j]
    BY <1>1, <2>1 DEF TypeOK
  <2>3. \A j \in Inputs : inbox[j].admitted \in 0 .. sequence
    BY DEF TypeOK, Rows
  <2>4. inbox[i].admitted = 0
    BY <1>1, <1>4, <2>3 DEF Admitted
  <2>5. Promise!Admit(i)
    <3> DEFINE place == [j \in Inputs |-> inbox[j].admitted]
    <3>1. place[i] = 0 /\ place'[i] \in Nat /\ \A j \in Inputs : place[j] < place'[i]
      BY <1>1, <2>2, <2>3, <2>4
    <3>2. {j \in Inputs : inbox'[j].promoted} = {j \in Inputs : inbox[j].promoted}
      <4>1. ~inbox[i].promoted
        BY <1>1, <1>4 DEF PromotedOK
      <4> QED
        BY <1>1, <2>2, <4>1
    <3> QED
      BY <1>1, <1>2, <2>2, <3>1, <3>2 DEF Promise!Admit, Deliveries
  <2>6. \E j \in Inputs : Promise!Admit(j)
    BY <1>1, <2>5
  <2> QED
    BY <2>6 DEF Promise!Next
<1> QED
  BY <1>3, <1>4

LEMMA StepImplements ==
  ASSUME IInv, IInv', [Next]_vars
  PROVE  [Promise!Next]_(Promise!vars)
<1>0. TypeOK /\ TypeOK' /\ Single /\ PromotedOK /\ \A f \in Fibers : DrainOK(f)
  BY DEF IInv
<1>1. CASE UNCHANGED vars
  BY <1>1, StutterImplements DEF vars, Asking
<1>2. CASE Crash
  <2>1. Asking' => Asking
    <3>1. IdleDrain.at # "stream"
      BY DEF IdleDrain, Fresh
    <3> QED
      BY <1>2, <3>1 DEF Crash, Asking
  <2>2. UNCHANGED inbox /\ CallsMove
    BY <1>2 DEF Crash, CallsMove
  <2> QED
    BY <1>0, <2>1, <2>2, WorkImplements DEF Promise!Next
<1>3. ASSUME NEW c \in Callers, Prompts(c) \/ Resume(c) \/ Interrupt(c)
      PROVE  [Promise!Next]_(Promise!vars)
  <2>1. CASE \E resume \in BOOLEAN : PublishAdmitted(c, resume)
    BY <1>0, <2>1, AdmitImplements
  <2>2. CASE ~\E resume \in BOOLEAN : PublishAdmitted(c, resume)
    <3>1. UNCHANGED inbox
      BY <1>3, <2>2 DEF Prompts, Prompt, Retry, Return, Resume, Interrupt
    <3> QED
      BY <1>0, <1>3, <3>1, CallersAsk, StutterImplements
  <2> QED
    BY <2>1, <2>2
<1>4. ASSUME NEW f \in Fibers, Advance(f) \/ Fail(f)
      PROVE  [Promise!Next]_(Promise!vars)
  <2>1. CASE Ask(f)
    BY <1>0, <2>1, AskImplements DEF Promise!Next
  <2>2. CASE ~Ask(f)
    <3>1. (Asking' => Asking) /\ CallsMove
      BY <1>0, <1>4, <2>2, AdvanceAsks, AdvanceMoves
    <3>2. CASE PromoteQueued(f) \/ PromoteSteer(f)
      BY <1>0, <3>1, <3>2, PromotionImplements
    <3>3. CASE UNCHANGED inbox
      BY <1>0, <3>1, <3>3, WorkImplements DEF Promise!Next
    <3>4. CASE Turn(f)
      BY <3>3, <3>4 DEF Turn, Ask, CallTool, HostedResult, ToolReturns,
         ToolBreaks, ProviderError, StreamEnds, FinishTurn, TurnInterrupted
    <3> QED
      BY <1>4, <3>2, <3>3, <3>4
      DEF Advance, LookSteer, LookQueue, FailOpen, Prepare, PickSteers,
          LookSteerAgain, LookQueueAgain, Interrupted, Fail
  <2> QED
    BY <2>1, <2>2
<1> QED
  BY <1>1, <1>2, <1>3, <1>4 DEF Next

\* Inputs are shown once and in the order of their admission, the model is
\* asked only when every call has an outcome, and outcomes never change.
THEOREM Implements == Spec => KeepsPromise
<1>1. Init => Promise!Init
  <2> SUFFICES ASSUME Init PROVE Promise!Init
    OBVIOUS
  <2>1. \A f \in Fibers : drain[f].at # "stream"
    BY DEF Init, IdleDrain, Fresh
  <2>2. (\E f \in Fibers : drain[f].at = "stream") = FALSE
    BY <2>1
  <2> QED
    BY <2>2 DEF Promise!Init, Init, NoRow
<1>2. IInv /\ IInv' /\ [Next]_vars => [Promise!Next]_(Promise!vars)
  BY StepImplements
<1> QED
  BY <1>1, <1>2, InvCorrect, PTL DEF Spec, KeepsPromise, Promise!Spec
=============================================================================
