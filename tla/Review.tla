------------------------------- MODULE Review -------------------------------
(***************************************************************************)
(* The life of a contested memory in the sidecar's three-agent pipeline:   *)
(* batches of decisions of the Selector (agents/selector.py and            *)
(* apply_selector in dispatch/effects.py), verdicts of the semantic worker *)
(* on a tension (apply_conflict, core/engine.py, core/maintenance.py), and *)
(* the decisions of a human on the queue of reviews (service/review.py).   *)
(*                                                                         *)
(* Each of them is one transaction over the engine state and the table     *)
(* human_reviews, under the service lock, rolled back as a whole when any  *)
(* part of it is refused (modules TaskStore and UnitPipeline are about     *)
(* that).  What is hard is across transactions: a review says which        *)
(* versions it is about, and everything else that may retire a version in  *)
(* the meantime must take notice.                                          *)
(*                                                                         *)
(* One claim scope (an entity and an attribute) is modelled, beside        *)
(* memories without a claim.  Text is told apart by the value it claims;   *)
(* the sources, times and scores behind a choice (which version scores     *)
(* highest, whether the user's own words prove a change) are left open.    *)
(* A step works on a state s, a record of the four variables, because a    *)
(* batch applies its decisions one after the other.  A definition whose    *)
(* name ends in _Faulty is a plausible wrong version of the one after it,  *)
(* and nothing uses it.                                                    *)
(***************************************************************************)
EXTENDS Naturals, Sequences, FiniteSets, FiniteSetsExt

CONSTANTS
  Texts,       \* what a memory, or a candidate for one, may say
  ValueOf,     \* the value a text claims in the scope
  NoClaim,     \* ... or this when it claims none
  Retraction,  \* the candidate that withdraws the claim
  MaxMems,     \* bound: memories ever created
  MaxReviews   \* bound: reviews waiting at once (MAX_PENDING_REVIEWS)

ASSUME ConstantsAssumption ==
  /\ DOMAIN ValueOf = Texts
  /\ Retraction \notin Texts
  /\ MaxMems \in Nat /\ MaxReviews \in Nat

VARIABLES
  mems,      \* engine.mems, by id
  pending,   \* rows of human_reviews whose status is 'pending'
  tensions   \* engine.tensions: pairs that wait for a verdict

vars == <<mems, pending, tensions>>

None == 0
Candidates == Texts \cup {Retraction}
Keyed(c) == c = Retraction \/ ValueOf[c] # NoClaim

\* The part of a candidate a review is identified by.
Meaning(c) == IF c \in Texts /\ Keyed(c) THEN ValueOf[c] ELSE c

S == [mems |-> mems, pending |-> pending, tensions |-> tensions]

Become(s) ==
  /\ mems' = s.mems /\ pending' = s.pending /\ tensions' = s.tensions

Ids(s) == DOMAIN s.mems
Live(s, i) == i \in Ids(s) /\ s.mems[i].by = None /\ ~s.mems[i].withdrawn
LiveIds(s) == {i \in Ids(s) : Live(s, i)}

\* The versions in force of the claim, those of one meaning, and any of them
\* that a human still has to decide about.
Current(s) == {i \in LiveIds(s) : Keyed(s.mems[i].text)}
Same(s, c) == {i \in LiveIds(s) : s.mems[i].text = c}
AnyFrozen(s, I) == \E i \in I : s.mems[i].frozen

-----------------------------------------------------------------------------
(* Memories *)

\* What follow_chain has seen when it stops: the least set with the memory in
\* it and, with every memory, what replaced it.
Closed(s, C) == \A i \in C : s.mems[i].by # None => s.mems[i].by \in C
Seen(s, i) ==
  {j \in Ids(s) : \A C \in SUBSET Ids(s) : i \in C /\ Closed(s, C) => j \in C}

\* The representative of a memory: where its chain of replacements ends (in a
\* ring it would not: then there is none).
Rep(s, i) == CHOOSE j \in Seen(s, i) : s.mems[j].by = None

Replace(s, old, new) ==
  [s EXCEPT !.mems = [i \in Ids(s) |->
     IF i \in old THEN [s.mems[i] EXCEPT !.by = new] ELSE s.mems[i]]]

Withdraw(s, I) ==
  [s EXCEPT !.mems = [i \in Ids(s) |->
     IF i \in I THEN [s.mems[i] EXCEPT !.withdrawn = TRUE] ELSE s.mems[i]]]

Freeze(s, I) ==
  [s EXCEPT !.mems = [i \in Ids(s) |->
     IF i \in I THEN [s.mems[i] EXCEPT !.frozen = TRUE] ELSE s.mems[i]]]

Refresh_Faulty(s, i) == [s EXCEPT !.mems[i].frozen = FALSE]

\* The freeze of a memory as the reviews that target it have it.
Refresh(s, i) ==
  [s EXCEPT !.mems[i].frozen = \E r \in s.pending : r.target = i]

\* The same text only confirms the memory there is.  A new one may be so
\* near to another (near) that the two are in tension.
Propose(s, c) ==
  IF Same(s, c) # {} THEN {s}
  ELSE {[s EXCEPT
           !.mems = Append(@, [text |-> c, by |-> None, withdrawn |-> FALSE,
                               frozen |-> FALSE]),
           !.tensions = @ \cup near] :
          near \in {{}} \cup {{{i, Len(s.mems) + 1}} : i \in LiveIds(s)}}

\* A merge drops one of two representatives; which one says keepsFirst.
Merge(s, a, b, keepsFirst) ==
  LET ra == Rep(s, a)
      rb == Rep(s, b)
  IN  IF ra = rb THEN s
      ELSE IF keepsFirst THEN Replace(s, {rb}, ra) ELSE Replace(s, {ra}, rb)

-----------------------------------------------------------------------------
(* Reviews *)

Stamp(s, i) == <<s.mems[i].by, s.mems[i].withdrawn>>

Identity(r) == <<r.target, r.peers, Meaning(r.text)>>

\* A proposal equal to one that waits joins it.  (One that a human turned
\* down comes back with a new source, or else is rejected, as any candidate
\* may be.)
EnqueueReview(s, c, target, related) ==
  LET r == [target |-> target, text |-> c,
            peers |-> {<<i, Stamp(s, i)>> : i \in related \ {target}}]
      waits == \E q \in s.pending : Identity(q) = Identity(r)
  IN  Freeze([s EXCEPT !.pending = IF waits THEN @ ELSE @ \cup {r}],
             {target} \cup related)

CloseRetiredRelations_Faulty(s) ==
  [s EXCEPT
    !.pending = {r \in @ : Live(s, r.target)},
    !.mems = [i \in Ids(s) |->
               IF Live(s, i) THEN @[i] ELSE [@[i] EXCEPT !.frozen = FALSE]]]

\* After every batch and every human decision.
CloseRetiredRelations(s) ==
  [s EXCEPT
    !.pending = {r \in @ : Live(s, r.target)},
    !.mems = [i \in Ids(s) |->
               IF Live(s, i) THEN @[i] ELSE [@[i] EXCEPT !.frozen = FALSE]],
    !.tensions = {p \in @ : p \subseteq LiveIds(s)}]

-----------------------------------------------------------------------------
(* The Selector: a batch is judged against the state it finds and applied  *)
(* decision by decision.                                                   *)

Decision(act, c, target, related) ==
  [act |-> act, text |-> c, target |-> target, related |-> related]

\* normalize_claim: what the service makes of a decision on a candidate of
\* the scope, whatever the model asked for.  top is the version that scores
\* highest.
NormalizeClaim(s, c, top) ==
  LET cur == Current(s)
      others == IF Cardinality(cur) > 1 THEN cur ELSE {}
      same == \A i \in cur : Meaning(s.mems[i].text) = Meaning(c)
  IN  IF cur = {} /\ c = Retraction THEN {}
      ELSE IF cur = {}
      THEN {Decision("CREATE", c, None, {})}
           \cup {Decision("CONFLICT", c, i, {}) : i \in LiveIds(s)}
      ELSE IF same
      THEN {Decision("EXIST", c, top,
                     IF AnyFrozen(s, cur) THEN {} ELSE others \ {top})}
      ELSE {Decision("CONFLICT", c, top, others)}
           \cup IF AnyFrozen(s, cur) THEN {}
                ELSE {Decision("UPDATE", c, top, others)}

\* A candidate without a claim: the model's own choice, except that it
\* cannot replace a version of a claim.
NormalizeOther(s, c) ==
  {Decision("CREATE", c, None, {})}
  \cup {Decision("CONFLICT", c, i, {}) : i \in LiveIds(s)}
  \cup {Decision("UPDATE", c, i, {}) : i \in LiveIds(s) \ Current(s)}

\* Any candidate may be turned down.
Decisions(s, top) ==
  {Decision("REJECT", c, None, {}) : c \in Candidates}
  \cup UNION {IF Keyed(c) THEN NormalizeClaim(s, c, top)
              ELSE NormalizeOther(s, c) : c \in Candidates}

\* The versions of one value become one.
MergeAll(s, target, I) ==
  LET keep == Rep(s, target)
  IN  Replace(s, {Rep(s, i) : i \in I} \ {keep}, keep)

\* The replacement, and the versions it retires with the target.
ApplyUpdate(s, d) ==
  IF d.text = Retraction
  THEN {Withdraw(s, d.related \cup {d.target})}
  ELSE IF Same(s, d.text) # {} THEN {s}
  ELSE LET new == Len(s.mems) + 1
       IN  {Replace(t, d.related \cup {d.target}, new) :
              t \in Propose(s, d.text)}

\* What applying a decision may lead to; with a target that is no longer in
\* force, nothing: the batch is refused.
Apply(s, d) ==
  CASE d.act = "REJECT" -> {s}
    [] d.act = "CREATE" -> Propose(s, d.text)
    [] d.act \in {"EXIST", "CONFLICT", "UPDATE"} /\ ~Live(s, d.target) -> {}
    [] d.act = "EXIST" /\ Live(s, d.target) ->
         {MergeAll(s, d.target, d.related)}
    [] d.act = "UPDATE" /\ Live(s, d.target) /\ ~s.mems[d.target].frozen ->
         ApplyUpdate(s, d)
    [] OTHER -> {EnqueueReview(s, d.text, d.target, d.related)}

Fits(s) == Len(s.mems) <= MaxMems /\ Cardinality(s.pending) <= MaxReviews

\* apply_selector, on a batch of two candidates; that of one is a batch of
\* two with the other one turned down.
Select ==
  \E top \in Current(S) \cup {x \in {None} : Current(S) = {}} :
  \E d1, d2 \in Decisions(S, top) :
  \E s1 \in Apply(S, d1) : \E s2 \in Apply(s1, d2) :
    /\ Fits(s2)
    /\ Become(CloseRetiredRelations(s2))

-----------------------------------------------------------------------------
(* Retrieval and the semantic worker *)

\* One of two similar memories suppresses the other (run_retrieve).
Suppress ==
  \E i, j \in LiveIds(S) :
    /\ i # j
    /\ tensions' = tensions \cup {{i, j}}
    /\ UNCHANGED <<mems, pending>>

\* A verdict of apply_conflict on a tension.  It is overruled when an end is
\* frozen or withdrawn, when the ends claim different values, or when the
\* user's words do not authorise the newer one; authorised is left open.
Overruled_Faulty(i, j, verdict, authorised) ==
  LET ends == {i, j}
      keyed == \A k \in ends : Keyed(mems[k].text)
  IN  \/ \E k \in ends : mems[k].withdrawn
      \/ verdict = "synonym" /\ keyed /\ Meaning(mems[i].text) # Meaning(mems[j].text)
      \/ verdict = "update" /\ ~(authorised /\ keyed)

Overruled(i, j, verdict, authorised) ==
  LET ends == {i, j}
      keyed == \A k \in ends : Keyed(mems[k].text)
  IN  \/ \E k \in ends : mems[k].frozen \/ mems[k].withdrawn
      \/ verdict = "synonym" /\ keyed /\ Meaning(mems[i].text) # Meaning(mems[j].text)
      \/ verdict = "update" /\ ~(authorised /\ keyed)

\* submit_verdicts: between the representatives of the two ends.
Verdict ==
  \E i, j \in Ids(S), verdict \in {"synonym", "update", "collision"},
     authorised, keepsFirst \in BOOLEAN :
    LET newer == Rep(S, i) > Rep(S, j)
        s == IF verdict = "collision" THEN S
             ELSE Merge(S, i, j, IF verdict = "update" THEN newer ELSE keepsFirst)
    IN  /\ i < j
        /\ {i, j} \in tensions
        /\ Rep(S, i) = Rep(S, j) \/ ~Overruled(i, j, verdict, authorised)
        /\ Become([s EXCEPT !.tensions = @ \ {{i, j}}])

-----------------------------------------------------------------------------
(* A human decides *)

\* The versions a review is about are those it was written against.
Fresh(r) ==
  /\ Live(S, r.target)
  /\ \A p \in r.peers : Stamp(S, p[1]) = p[2]

Members(r) == {r.target} \cup {p[1] : p \in r.peers}

\* The members of the review that already say what the candidate says; the
\* first of them is the target, or else the oldest.
Stated(r) ==
  IF r.text = Retraction THEN {}
  ELSE {i \in Members(r) : \/ mems[i].text = r.text
                           \/ /\ Keyed(r.text) /\ Keyed(mems[i].text)
                              /\ Meaning(mems[i].text) = Meaning(r.text)}

FirstOf(r, I) == IF r.target \in I THEN r.target ELSE Min(I)

\* What both decisions end with.
Settled(s, r, selected) ==
  LET t == CloseRetiredRelations(
             Refresh([s EXCEPT !.pending = @ \ {r}], r.target))
  IN  IF selected = None THEN t ELSE Refresh(t, selected)

KeepOld(r) ==
  LET s == Replace(S, Members(r) \ {r.target}, r.target)
  IN  Become(Settled(s, r, r.target))

\* Other reviews of the target are stale.
AcceptNew(r) ==
  LET s == [S EXCEPT !.pending = {q \in @ : q.target # r.target} \cup {r}]
  IN  IF r.text = Retraction
      THEN Become(Settled(Withdraw(s, Members(r)), r, None))
      ELSE IF Stated(r) # {}
      THEN LET sel == FirstOf(r, Stated(r))
           IN  Become(Settled(Replace(s, Members(r) \ {sel}, sel), r, sel))
      ELSE /\ Same(S, r.text) = {}
           /\ Len(mems) < MaxMems
           /\ \E t \in Propose(s, r.text) :
                LET new == Len(t.mems)
                IN  Become(Settled(Replace(t, Members(r), new), r, new))

Decide ==
  \E r \in pending :
    /\ Fresh(r)
    /\ KeepOld(r) \/ AcceptNew(r)

Init ==
  mems = <<>> /\ pending = {} /\ tensions = {}

Next == Select \/ Suppress \/ Verdict \/ Decide

Spec == Init /\ [][Next]_vars

-----------------------------------------------------------------------------
(* Properties *)

\* A review that waits is about a version in force, and that version is
\* frozen: the flag of the engine state and the rows of the table agree,
\* whichever of the four steps came last (enqueue_review,
\* close_retired_relations, decide_human_review).
TargetsAreFrozen ==
  \A r \in pending : Live(S, r.target) /\ mems[r.target].frozen

\* The human freeze goes first: neither the Selector nor the semantic worker
\* retires a version a human has yet to decide about, not even through a
\* verdict on two memories it has since come to stand for (apply_selector,
\* apply_conflict and submit_verdicts).
FreezeGoesFirst ==
  [][(\E r \in pending : Live(S, r.target) /\ ~Live(S, r.target)')
       => Decide]_vars

\* A version is never retired in favour of one that was retired before: no
\* fact disappears behind a version the user has withdrawn, or that was
\* itself replaced (submit_verdicts, decide_human_review, apply_selector).
NothingMergedIntoRetired ==
  [][\A i \in DOMAIN mems :
       mems[i].by = None /\ mems'[i].by # None /\ mems'[i].by \in Ids(S)
         => Live(S, mems'[i].by)]_vars

\* "A change of any version, replaced, aggregated or deleted, makes a review
\* stale" (analysis/target-architecture.md:198): a review that waits can
\* still be decided.
ChangedMeansStale == \A r \in pending : Fresh(r)
=============================================================================
