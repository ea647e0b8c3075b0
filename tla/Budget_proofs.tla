---------------------------- MODULE Budget_proofs ----------------------------
(***************************************************************************)
(* Proofs about the budget of an investigation, for any number of signals, *)
(* request threads and investigations.                                     *)
(*                                                                         *)
(* The window holds because a settlement never charges more than it gives  *)
(* back.  That nothing leaks is about a sum over threads: the reservation  *)
(* of a budget is the sum of the caps of its readers.  The proof counts    *)
(* characters instead: each reader owns a character for each number up to  *)
(* its cap, and the reservation is how many characters are owned.          *)
(***************************************************************************)
EXTENDS Budget, FiniteSetTheorems, TLAPS

\* What the steps need to know about the types.
Typed ==
  /\ opened \in 0 .. MaxOpened
  /\ open \in [Signals -> 0 .. opened]
  /\ used \in [Budgets -> Nat]
  /\ reserved \in [Budgets -> Int]
  /\ reading \in [Threads -> [budget : 0 .. opened, cap : Nat]]

\* Only an idle thread has no budget.
ReadersHaveBudgets == \A t \in Threads : reading[t] # Idle => reading[t].budget \in Budgets

IInv == Typed /\ ReadersHaveBudgets /\ WithinWindow

\* Nothing is open, used or reserved at the start.
LEMMA InitIInv == Init => IInv
BY ConstantsAssumption DEF Init, IInv, Typed, ReadersHaveBudgets, WithinWindow, Idle, Budgets

\* The inductive step: an admitted read reserves at most what is left, and a
\* settlement takes at least as much off the reservation as it adds to the use.
LEMMA StepIInv == IInv /\ [Next]_vars => IInv'
<1> SUFFICES ASSUME IInv, [Next]_vars PROVE IInv'
  OBVIOUS
<1> USE ConstantsAssumption DEF IInv, Typed
<1>1. ASSUME NEW s \in Signals, OpenBudget(s) PROVE IInv'
  <2>1. opened' = opened + 1 /\ opened' \in 0 .. MaxOpened
    BY <1>1 DEF OpenBudget
  <2>2. open' \in [Signals -> 0 .. opened']
    BY <1>1, <2>1 DEF OpenBudget
  <2>3. reading' \in [Threads -> [budget : 0 .. opened', cap : Nat]]
    BY <1>1, <2>1 DEF OpenBudget
  <2>4. UNCHANGED <<used, reserved, reading>>
    BY <1>1 DEF OpenBudget
  <2> QED
    BY <2>1, <2>2, <2>3, <2>4 DEF ReadersHaveBudgets, WithinWindow
<1>2. ASSUME NEW s \in Signals, CloseBudget(s) PROVE IInv'
  BY <1>2 DEF CloseBudget, ReadersHaveBudgets, WithinWindow, Budgets
<1>3. ASSUME NEW s \in Signals, Call(s) PROVE IInv'
  BY <1>3 DEF Call, ReadersHaveBudgets, WithinWindow, Budgets
<1>4. ASSUME NEW s \in Signals, NEW t \in Threads, BeginWindow(t, s) PROVE IInv'
  <2> DEFINE b == open[s]
  <2>1. b \in Budgets
    BY <1>4 DEF BeginWindow, Budgets
  <2>2. PICK cap \in 1 .. Remaining(b) :
          /\ reserved' = [reserved EXCEPT ![b] = @ + cap]
          /\ reading' = [reading EXCEPT ![t] = [budget |-> b, cap |-> cap]]
    BY <1>4 DEF BeginWindow
  <2>3. UNCHANGED <<open, opened, used>>
    BY <1>4 DEF BeginWindow
  <2>4. cap \in Nat /\ used[b] + reserved[b] + cap <= WindowChars
    BY <2>1, <2>2 DEF Remaining
  <2>5. Typed'
    BY <2>1, <2>2, <2>3, <2>4
  <2>6. ReadersHaveBudgets'
    BY <2>1, <2>2, <2>3 DEF ReadersHaveBudgets, Budgets
  <2>7. WithinWindow'
    BY <2>1, <2>2, <2>3, <2>4 DEF WithinWindow
  <2> QED
    BY <2>5, <2>6, <2>7
<1>5. ASSUME NEW t \in Threads, EndWindow(t) PROVE IInv'
  <2> DEFINE b == reading[t].budget
  <2>1. b \in Budgets /\ reading[t].cap \in Nat
    BY <1>5 DEF EndWindow, ReadersHaveBudgets
  <2>2. PICK chars \in 0 .. reading[t].cap : Settle(t, b, chars)
    BY <1>5 DEF EndWindow
  <2>3. reading' = [reading EXCEPT ![t] = Idle] /\ UNCHANGED <<open, opened>>
    BY <1>5 DEF EndWindow
  <2>4. Typed'
    BY <2>1, <2>2, <2>3 DEF Settle, Idle
  <2>5. ReadersHaveBudgets'
    BY <2>3 DEF ReadersHaveBudgets, Budgets
  <2>6. WithinWindow'
    BY <2>1, <2>2 DEF WithinWindow, Settle
  <2> QED
    BY <2>4, <2>5, <2>6
<1>6. ASSUME NEW b \in Budgets, LeaseLost(b) PROVE IInv'
  BY <1>6 DEF LeaseLost, ReadersHaveBudgets, WithinWindow, Budgets
<1>7. CASE UNCHANGED vars
  BY <1>7 DEF vars, ReadersHaveBudgets, WithinWindow, Budgets
<1> QED
  BY <1>1, <1>2, <1>3, <1>4, <1>5, <1>6, <1>7 DEF Next, SignalClosed

\* ... which therefore always holds.
LEMMA Invariance == Spec => []IInv
<1>1. Init => IInv
  BY InitIInv
<1>2. IInv /\ [Next]_vars => IInv'
  BY StepIInv
<1> QED
  BY <1>1, <1>2, PTL DEF Spec

\* Whatever the number of threads, no investigation is handed or promised more
\* original text than its window.
THEOREM WindowHolds == Spec => []WithinWindow
<1>1. IInv => WithinWindow
  BY DEF IInv
<1> QED
  BY <1>1, Invariance, PTL

\* A read is charged to the budget that admitted it, whatever has become of the
\* signal id meanwhile.
THEOREM ChargesItsOwn == Spec => ChargedToItsOwn
<1>1. ASSUME IInv, [Next]_vars
      PROVE \A b \in Budgets :
              used'[b] # used[b] => \E t \in Readers(b) : reading'[t] = Idle
  <2> USE <1>1 DEF IInv, Typed
  <2> SUFFICES ASSUME NEW b \in Budgets, used'[b] # used[b]
               PROVE \E t \in Readers(b) : reading'[t] = Idle
    OBVIOUS
  <2>1. PICK t \in Threads : EndWindow(t)
    BY DEF Next, vars, OpenBudget, CloseBudget, Call, SignalClosed, BeginWindow, LeaseLost
  <2>2. PICK chars \in 0 .. reading[t].cap : Settle(t, reading[t].budget, chars)
    BY <2>1 DEF EndWindow
  <2>3. reading[t].budget = b
    BY <2>2 DEF Settle
  <2>4. reading'[t] = Idle
    BY <2>1 DEF EndWindow
  <2> QED
    BY <2>3, <2>4 DEF Readers
<1>2. Spec => []IInv
  BY Invariance
<1> QED
  BY <1>1, <1>2, PTL DEF Spec, ChargedToItsOwn

-----------------------------------------------------------------------------
(* Nothing leaks                                                           *)

\* The characters a thread has reserved, and those reserved of a budget.
Share(t) == {t} \X (1 .. reading[t].cap)
Promised(b) == UNION {Share(t) : t \in Readers(b)}

\* What admit() has reserved of a budget is what its readers were promised.
Balanced ==
  \A b \in Budgets : /\ IsFiniteSet(Promised(b))
                     /\ reserved[b] = Cardinality(Promised(b))

\* A share has as many characters as the cap.
LEMMA ShareSize ==
  ASSUME NEW t, NEW n \in Nat
  PROVE  /\ IsFiniteSet({t} \X (1 .. n))
         /\ Cardinality({t} \X (1 .. n)) = n
<1>1. IsFiniteSet({t}) /\ Cardinality({t}) = 1
  BY FS_Singleton
<1>2. IsFiniteSet(1 .. n) /\ Cardinality(1 .. n) = n
  BY FS_Interval
<1>3. /\ IsFiniteSet({t} \X (1 .. n))
      /\ Cardinality({t} \X (1 .. n)) = Cardinality({t}) * Cardinality(1 .. n)
  BY <1>1, <1>2, FS_Product
<1> QED
  BY <1>1, <1>2, <1>3

\* A set of pairs without those of a thread that has none in it.
LEMMA Disjoint ==
  ASSUME NEW P, IsFiniteSet(P), NEW t, NEW n \in Nat, \A p \in P : p[1] # t
  PROVE  /\ IsFiniteSet(P \cup ({t} \X (1 .. n)))
         /\ Cardinality(P \cup ({t} \X (1 .. n))) = Cardinality(P) + n
<1> DEFINE T == {t} \X (1 .. n)
<1>1. IsFiniteSet(T) /\ Cardinality(T) = n
  BY ShareSize
<1>2. P \cap T = {}
  OBVIOUS
<1>3. Cardinality(P) \in Nat /\ Cardinality(P \cap T) = 0
  BY <1>2, FS_CardinalityType, FS_EmptySet
<1> HIDE DEF T
<1>4. /\ IsFiniteSet(P \cup T)
      /\ Cardinality(P \cup T) = Cardinality(P) + Cardinality(T) - Cardinality(P \cap T)
  BY <1>1, FS_Union
<1> QED
  BY <1>1, <1>3, <1>4 DEF T

\* What the readers of a budget were promised, whoever else reads.
LEMMA SamePromised ==
  ASSUME NEW b, \A t \in Threads : \/ reading'[t] = reading[t]
                                   \/ reading[t].budget # b /\ reading'[t].budget # b
  PROVE  Promised(b)' = Promised(b)
<1>1. Readers(b)' = Readers(b) /\ \A t \in Readers(b) : Share(t)' = Share(t)
  BY DEF Readers, Share
<1> QED
  BY <1>1 DEF Promised

\* A reader comes or goes: one of two tables of readers has thread t beside the others.
LEMMA OneMore ==
  ASSUME NEW b, NEW t \in Threads, NEW n \in Nat, reading[t].budget # b,
         reading' = [reading EXCEPT ![t] = [budget |-> b, cap |-> n]],
         DOMAIN reading = Threads
  PROVE  /\ Promised(b)' = Promised(b) \cup ({t} \X (1 .. n))
         /\ \A p \in Promised(b) : p[1] # t
<1>1. Readers(b)' = Readers(b) \cup {t} /\ t \notin Readers(b)
  BY DEF Readers
<1>2. \A u \in Readers(b) : Share(u)' = Share(u)
  BY <1>1 DEF Readers, Share
<1>3. Share(t)' = {t} \X (1 .. n)
  BY DEF Share
<1>4. Promised(b)' = Promised(b) \cup ({t} \X (1 .. n))
  BY <1>1, <1>2, <1>3 DEF Promised
<1>5. \A p \in Promised(b) : p[1] # t
  BY <1>1 DEF Promised, Share
<1> QED
  BY <1>4, <1>5

\* Without thread t, the promised characters are the rest.
LEMMA OneLess ==
  ASSUME NEW t \in Threads, NEW b, reading[t].budget = b, b # 0,
         reading' = [reading EXCEPT ![t] = Idle],
         DOMAIN reading = Threads
  PROVE  /\ Promised(b) = Promised(b)' \cup Share(t)
         /\ \A p \in Promised(b)' : p[1] # t
<1>1. Readers(b) = Readers(b)' \cup {t} /\ t \notin Readers(b)'
  BY DEF Readers, Idle
<1>2. \A u \in Readers(b)' : Share(u)' = Share(u)
  BY <1>1 DEF Readers, Share, Idle
<1>3. Promised(b) = Promised(b)' \cup Share(t)
  BY <1>1, <1>2 DEF Promised
<1>4. \A p \in Promised(b)' : p[1] # t
  BY <1>1, <1>2 DEF Promised, Share
<1> QED
  BY <1>3, <1>4

\* Nobody reads at the start.
LEMMA InitBalanced == Init => Balanced
<1> SUFFICES ASSUME Init, NEW b \in Budgets PROVE Readers(b) = {} /\ reserved[b] = 0
  BY FS_EmptySet DEF Balanced, Promised
<1> QED
  BY ConstantsAssumption DEF Init, Readers, Idle, Budgets

\* An admission adds the share of its thread, a settlement takes it away.
LEMMA StepBalanced == IInv /\ Balanced /\ [Next]_vars => Balanced'
<1> SUFFICES ASSUME IInv, Balanced, [Next]_vars, NEW b \in Budgets
             PROVE  IsFiniteSet(Promised(b))' /\ (reserved[b] = Cardinality(Promised(b)))'
  BY DEF Balanced
<1> USE ConstantsAssumption DEF IInv, Typed
<1>1. CASE UNCHANGED <<reserved, reading>>
  BY <1>1, SamePromised DEF Balanced
<1>2. ASSUME NEW s \in Signals, NEW t \in Threads, BeginWindow(t, s)
      PROVE  IsFiniteSet(Promised(b))' /\ (reserved[b] = Cardinality(Promised(b)))'
  <2>1. PICK cap \in 1 .. Remaining(open[s]) :
          /\ reserved' = [reserved EXCEPT ![open[s]] = @ + cap]
          /\ reading' = [reading EXCEPT ![t] = [budget |-> open[s], cap |-> cap]]
    BY <1>2 DEF BeginWindow
  <2>2. reading[t].budget = 0 /\ cap \in Nat /\ b # 0
    BY <1>2 DEF BeginWindow, Idle, Budgets
  <2>3. CASE open[s] = b
    <3>1. /\ reading' = [reading EXCEPT ![t] = [budget |-> b, cap |-> cap]]
          /\ DOMAIN reading = Threads /\ reading[t].budget # b
      BY <2>1, <2>2, <2>3
    <3>2. /\ Promised(b)' = Promised(b) \cup ({t} \X (1 .. cap))
          /\ \A p \in Promised(b) : p[1] # t
      BY <2>2, <3>1, OneMore
    <3>3. reserved'[b] = reserved[b] + cap
      BY <2>1, <2>3
    <3>4. IsFiniteSet(Promised(b)) /\ reserved[b] = Cardinality(Promised(b))
      BY DEF Balanced
    <3>5. /\ IsFiniteSet(Promised(b) \cup ({t} \X (1 .. cap)))
          /\ Cardinality(Promised(b) \cup ({t} \X (1 .. cap))) = Cardinality(Promised(b)) + cap
      <4> DEFINE P == Promised(b)
      <4>1. IsFiniteSet(P) /\ \A p \in P : p[1] # t
        BY <3>2, <3>4
      <4> HIDE DEF P
      <4>2. /\ IsFiniteSet(P \cup ({t} \X (1 .. cap)))
            /\ Cardinality(P \cup ({t} \X (1 .. cap))) = Cardinality(P) + cap
        BY <2>2, <4>1, Disjoint
      <4> QED
        BY <4>2 DEF P
    <3> QED
      BY <3>2, <3>3, <3>4, <3>5
  <2>4. CASE open[s] # b
    <3>1. Promised(b)' = Promised(b)
      BY <2>1, <2>2, <2>4, SamePromised
    <3> QED
      BY <2>1, <2>4, <3>1 DEF Balanced
  <2> QED
    BY <2>3, <2>4
<1>3. ASSUME NEW t \in Threads, EndWindow(t)
      PROVE  IsFiniteSet(Promised(b))' /\ (reserved[b] = Cardinality(Promised(b)))'
  <2> DEFINE c == reading[t].budget
  <2>1. PICK chars \in 0 .. reading[t].cap : Settle(t, c, chars)
    BY <1>3 DEF EndWindow
  <2>2. /\ reading' = [reading EXCEPT ![t] = Idle] /\ DOMAIN reading = Threads
        /\ c \in Budgets /\ reading[t].cap \in Nat /\ b # 0
    BY <1>3 DEF EndWindow, ReadersHaveBudgets, Budgets
  <2>3. CASE c = b
    <3>1. /\ Promised(b) = Promised(b)' \cup Share(t)
          /\ \A p \in Promised(b)' : p[1] # t
      BY <2>2, <2>3, OneLess
    <3>2. Promised(b)' \in SUBSET Promised(b)
      BY <3>1
    <3>3. IsFiniteSet(Promised(b)')
      BY <3>2, FS_Subset DEF Balanced
    <3>4. Cardinality(Promised(b)) = Cardinality(Promised(b)') + reading[t].cap
      <4> DEFINE P == Promised(b)'
      <4>1. IsFiniteSet(P) /\ \A p \in P : p[1] # t
        BY <3>1, <3>3
      <4>2. Promised(b) = P \cup ({t} \X (1 .. reading[t].cap))
        BY <3>1 DEF Share
      <4> HIDE DEF P
      <4>3. Cardinality(P \cup ({t} \X (1 .. reading[t].cap))) = Cardinality(P) + reading[t].cap
        BY <2>2, <4>1, Disjoint
      <4> QED
        BY <4>2, <4>3 DEF P
    <3>5. reserved'[b] = reserved[b] - reading[t].cap
      BY <2>1, <2>3 DEF Settle
    <3>6. Cardinality(Promised(b)') \in Nat
      BY <3>3, FS_CardinalityType
    <3> QED
      BY <2>2, <3>3, <3>4, <3>5, <3>6 DEF Balanced
  <2>4. CASE c # b
    <3>1. Promised(b)' = Promised(b)
      BY <2>2, <2>4, SamePromised DEF Idle
    <3> QED
      BY <2>1, <2>4, <3>1 DEF Balanced, Settle
  <2> QED
    BY <2>3, <2>4
<1> QED
  BY <1>1, <1>2, <1>3 DEF Next, vars, OpenBudget, CloseBudget, Call, SignalClosed, LeaseLost

\* ... which therefore always holds.
LEMMA AlwaysBalanced == Spec => []Balanced
<1>1. Init => Balanced
  BY InitBalanced
<1>2. IInv /\ Balanced /\ [Next]_vars => Balanced'
  BY StepBalanced
<1> QED
  BY <1>1, <1>2, Invariance, PTL DEF Spec

\* A budget whose reads have all ended, by an answer, a short answer or an
\* exception and in whatever order, has its whole remaining window back.
THEOREM GivesBack == Spec => []NothingLeaks
<1>1. Balanced => NothingLeaks
  BY FS_EmptySet DEF Balanced, NothingLeaks, Promised
<1> QED
  BY <1>1, AlwaysBalanced, PTL

\* Every variable keeps its type: no budget hands out or reserves less than
\* nothing or more than its window, and no reservation is taken back twice.
THEOREM TypeCorrect == Spec => []TypeOK
<1> DEFINE Rest == /\ calls \in [Budgets -> 0 .. MaxCalls]
                   /\ owned \subseteq Budgets
                   /\ \A t \in Threads : reading[t].cap <= WindowChars
<1>1. Init => Rest
  BY ConstantsAssumption DEF Init, Idle
<1>2. IInv /\ Balanced /\ Rest /\ [Next]_vars => Rest'
  <2> SUFFICES ASSUME IInv, Balanced, Rest, [Next]_vars PROVE Rest'
    OBVIOUS
  <2> USE ConstantsAssumption DEF IInv, Typed
  <2>1. calls' \in [Budgets -> 0 .. MaxCalls]
    BY DEF Next, vars, OpenBudget, CloseBudget, Call, SignalClosed, BeginWindow,
           EndWindow, LeaseLost, Counted
  <2>2. owned' \subseteq Budgets
    BY DEF Next, vars, OpenBudget, CloseBudget, Call, SignalClosed, BeginWindow,
           EndWindow, LeaseLost
  <2>3. \A t \in Threads : reading'[t].cap <= WindowChars
    <3>1. CASE UNCHANGED reading
      BY <3>1
    <3>2. ASSUME NEW s \in Signals, NEW u \in Threads, BeginWindow(u, s)
          PROVE  \A t \in Threads : reading'[t].cap <= WindowChars
      <4>1. PICK cap \in 1 .. Remaining(open[s]) :
              reading' = [reading EXCEPT ![u] = [budget |-> open[s], cap |-> cap]]
        BY <3>2 DEF BeginWindow
      <4>2. open[s] \in Budgets
        <5>1. open[s] \in 0 .. opened /\ opened \in 0 .. MaxOpened /\ open[s] # 0
          BY <3>2 DEF BeginWindow
        <5> HIDE DEF IInv, Typed
        <5> QED
          BY <5>1 DEF Budgets
      <4>3. used[open[s]] \in Nat /\ reserved[open[s]] \in Nat
        BY <4>2, FS_CardinalityType DEF Balanced
      <4>4. cap <= WindowChars
        BY <4>3 DEF Remaining
      <4> QED
        BY <4>1, <4>4
    <3>3. ASSUME NEW u \in Threads, EndWindow(u)
          PROVE  \A t \in Threads : reading'[t].cap <= WindowChars
      BY <3>3 DEF EndWindow, Idle
    <3> QED
      BY <3>1, <3>2, <3>3 DEF Next, vars, OpenBudget, CloseBudget, Call, SignalClosed, LeaseLost
  <2> QED
    BY <2>1, <2>2, <2>3
<1>3. IInv /\ Balanced /\ Rest => TypeOK
  <2> SUFFICES ASSUME IInv, Balanced, Rest PROVE TypeOK
    OBVIOUS
  <2> USE ConstantsAssumption DEF IInv, Typed
  <2>1. \A b \in Budgets : reserved[b] \in Nat
    BY FS_CardinalityType DEF Balanced
  <2>2. /\ used \in [Budgets -> 0 .. WindowChars]
        /\ reserved \in [Budgets -> 0 .. WindowChars]
    BY <2>1 DEF WithinWindow
  <2>3. reading \in [Threads -> [budget : 0 .. opened, cap : 0 .. WindowChars]]
    OBVIOUS
  <2> QED
    BY <2>2, <2>3 DEF TypeOK
<1> QED
  BY <1>1, <1>2, <1>3, Invariance, AlwaysBalanced, PTL DEF Spec
=============================================================================
