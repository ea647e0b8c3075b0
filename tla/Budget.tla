------------------------------- MODULE Budget -------------------------------
(***************************************************************************)
(* The budget of an investigation (service/budgets.py): how often a model  *)
(* may call the memory tools and how much original text it may read back   *)
(* (service/tools.py log_window).  The tools are served by one thread per  *)
(* request.  A window read reserves its share under the service lock,      *)
(* reads the log outside of it and settles afterwards; the investigation   *)
(* may be closed meanwhile, and one with the same signal id opened again.  *)
(* An operator named _Faulty is a plausible wrong version of the           *)
(* definition after it; nothing uses it.                                   *)
(***************************************************************************)
EXTENDS Integers, FiniteSets

CONSTANTS
  Signals,      \* signal ids
  Threads,      \* request threads
  ToolCalls,    \* tool_calls of every investigation
  WindowChars,  \* window_chars of every investigation
  MaxOpened,    \* bound: investigations opened
  MaxCalls      \* bound: calls counted for one of them

Budgets == 1 .. MaxOpened

ASSUME ConstantsAssumption ==
  /\ ToolCalls \in Nat /\ WindowChars \in Nat
  /\ MaxOpened \in Nat /\ MaxCalls \in Nat

VARIABLES
  open,     \* svc._budgets: the budget open under a signal id, or 0
  opened,   \* budgets opened so far; a closed one lives on in its readers
  calls,    \* of each budget: calls counted, the refused ones included
  used,     \* ... text handed out
  reserved, \* ... text reserved by reads that have not settled
  owned,    \* budgets whose task is still leased to the investigation
  reading   \* of each thread: the budget and the cap it was admitted with

vars == <<open, opened, calls, used, reserved, owned, reading>>

Idle == [budget |-> 0, cap |-> 0]
Readers(b) == {t \in Threads : reading[t].budget = b}

TypeOK ==
  /\ open \in [Signals -> 0 .. opened]
  /\ opened \in 0 .. MaxOpened
  /\ calls \in [Budgets -> 0 .. MaxCalls]
  /\ used \in [Budgets -> 0 .. WindowChars]
  /\ reserved \in [Budgets -> 0 .. WindowChars]
  /\ owned \subseteq Budgets
  /\ reading \in [Threads -> [budget : 0 .. opened, cap : 0 .. WindowChars]]

Init ==
  /\ open = [s \in Signals |-> 0]
  /\ opened = 0
  /\ calls = [b \in Budgets |-> 0]
  /\ used = [b \in Budgets |-> 0]
  /\ reserved = [b \in Budgets |-> 0]
  /\ owned = Budgets
  /\ reading = [t \in Threads |-> Idle]

-----------------------------------------------------------------------------

\* open_budget(): the signal id must not be open.
OpenBudget(s) ==
  /\ open[s] = 0
  /\ opened < MaxOpened
  /\ opened' = opened + 1
  /\ open' = [open EXCEPT ![s] = opened + 1]
  /\ UNCHANGED <<calls, used, reserved, owned, reading>>

\* close_budget(): in the finally of the investigation, reads in flight or not.
CloseBudget(s) ==
  /\ open[s] # 0
  /\ open' = [open EXCEPT ![s] = 0]
  /\ UNCHANGED <<opened, calls, used, reserved, owned, reading>>

\* The lease of the task runs out or is taken over.
LeaseLost(b) ==
  /\ b \in owned
  /\ owned' = owned \ {b}
  /\ UNCHANGED <<open, opened, calls, used, reserved, reading>>

\* A call that finds its signal open is counted, whatever comes of it.
Counted(b) == calls[b] < MaxCalls /\ calls' = [calls EXCEPT ![b] = @ + 1]

\* ... and refused beyond the budget or without the lease.
Admitted(b) == calls[b] < ToolCalls /\ b \in owned

\* What other reads in flight have reserved is not subtracted.
Remaining_Faulty(b) == WindowChars - used[b]

Remaining(b) == WindowChars - used[b] - reserved[b]

\* admit() for a tool that reads no text, or a call that is refused.
Call(s) ==
  /\ open[s] # 0
  /\ Counted(open[s])
  /\ UNCHANGED <<open, opened, used, reserved, owned, reading>>

\* admit() for a signal that is not open: nothing is counted.
SignalClosed(s) == open[s] = 0 /\ UNCHANGED vars

\* admit(window = True): no more than is left, and than the caller asks for, is
\* reserved.
BeginWindow(t, s) ==
  LET b == open[s] IN
  /\ reading[t] = Idle
  /\ b # 0
  /\ Counted(b) /\ Admitted(b)
  /\ Remaining(b) > 0
  /\ \E cap \in 1 .. Remaining(b) :
       /\ reserved' = [reserved EXCEPT ![b] = @ + cap]
       /\ reading' = [reading EXCEPT ![t] = [budget |-> b, cap |-> cap]]
  /\ UNCHANGED <<open, opened, used, owned>>

\* Only the text handed out is given back of the reservation; and the budget
\* is looked up again by the signal id.
Settle_Faulty(t, b, chars) ==
  /\ reserved' = [reserved EXCEPT ![b] = @ - chars]
  /\ used' = [used EXCEPT ![b] = @ + chars]
SettleReopened_Faulty(t, b, chars) ==
  \/ \E s \in Signals :
       /\ open[s] >= b
       /\ reserved' = [reserved EXCEPT ![open[s]] =
                         IF @ > reading[t].cap THEN @ - reading[t].cap ELSE 0]
       /\ used' = [used EXCEPT ![open[s]] = @ + chars]
  \/ (\A s \in Signals : open[s] = 0) /\ UNCHANGED <<reserved, used>>

\* The whole reservation is given back and the text handed out is charged.
Settle(t, b, chars) ==
  /\ reserved' = [reserved EXCEPT ![b] = @ - reading[t].cap]
  /\ used' = [used EXCEPT ![b] = @ + chars]

\* The finally of log_window(): log.window() returns at most cap characters, or
\* raises, which hands out nothing.
EndWindow(t) ==
  /\ reading[t] # Idle
  /\ \E chars \in 0 .. reading[t].cap : Settle(t, reading[t].budget, chars)
  /\ reading' = [reading EXCEPT ![t] = Idle]
  /\ UNCHANGED <<open, opened, calls, owned>>

Next ==
  \/ \E s \in Signals :
       \/ OpenBudget(s) \/ CloseBudget(s) \/ Call(s) \/ SignalClosed(s)
       \/ \E t \in Threads : BeginWindow(t, s)
  \/ \E t \in Threads : EndWindow(t)
  \/ \E b \in Budgets : LeaseLost(b)

Spec == Init /\ [][Next]_vars

-----------------------------------------------------------------------------

\* However many reads of an investigation are in flight at a time, and however
\* they end, no more text is handed out or promised than its window allows.
WithinWindow == \A b \in Budgets : used[b] + reserved[b] <= WindowChars

\* A budget that nobody reads has nothing reserved: neither an exception nor a
\* short answer nor closing the investigation leaks a reservation, so what is
\* left of the window stays usable.
NothingLeaks == \A b \in Budgets : Readers(b) = {} => reserved[b] = 0

\* A read is charged to the budget it was admitted on, also when its signal id
\* has been closed and opened again since: the others do not notice.
ChargedToItsOwn ==
  [][\A b \in Budgets :
       used'[b] # used[b] => \E t \in Readers(b) : reading'[t] = Idle]_vars
=============================================================================
