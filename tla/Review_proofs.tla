---------------------------- MODULE Review_proofs ----------------------------
(***************************************************************************)
(* Proofs about the life of a contested memory, for any texts and values,  *)
(* any number of memories and of waiting reviews: the engine state and the *)
(* table of reviews keep their types, the target of a review that waits is *)
(* in force and frozen, nobody but a human retires it, and no version is   *)
(* retired in favour of one that was retired before.                       *)
(*                                                                         *)
(* What makes it hard is that a step follows chains of replacements that   *)
(* earlier steps have made.  IsRep says what a representative function     *)
(* looks like; one is handed on from step to step (Chained), and where     *)
(* there is one, Rep is that function.                                     *)
(***************************************************************************)
EXTENDS Review, SequenceTheorems, WellFoundedInduction, TLAPS

Mems == [text : Texts, by : Nat, withdrawn : BOOLEAN, frozen : BOOLEAN]
Reviews == [target : Nat, text : Candidates,
            peers : SUBSET (Nat \X (Nat \X BOOLEAN))]
States == [mems : Seq(Mems), pending : SUBSET Reviews,
           tensions : SUBSET SUBSET Nat]

-----------------------------------------------------------------------------
(* The parts of a state                                                    *)

\* The memories of a state are numbered from one.
LEMMA Numbered ==
  ASSUME NEW s \in States
  PROVE  /\ s.mems \in Seq(Mems) /\ Len(s.mems) \in Nat
         /\ Ids(s) = 1 .. Len(s.mems) /\ Ids(s) \subseteq Nat \ {None}
         /\ \A i \in Ids(s) : s.mems[i] \in Mems
         /\ s.pending \subseteq Reviews
<1>1. s.mems \in Seq(Mems) /\ s.pending \subseteq Reviews
  BY DEF States
<1> QED
  BY <1>1, LenProperties, ElementOfSeq DEF Ids, None

\* What the parts of a state have in common when each memory is changed alone.
Mapped(s, t) ==
  /\ t \in States /\ Ids(t) = Ids(s) /\ Len(t.mems) = Len(s.mems)
  /\ t.tensions = s.tensions /\ t.pending = s.pending

\* A sequence of memories that is given by a function.
LEMMA MapMems ==
  ASSUME NEW s \in States, NEW f \in [Ids(s) -> Mems]
  PROVE  LET t == [s EXCEPT !.mems = f] IN
         Mapped(s, t) /\ t.mems = f
<1> DEFINE t == [s EXCEPT !.mems = f]
<1>1. /\ Ids(s) = 1 .. Len(s.mems) /\ Len(s.mems) \in Nat
  BY Numbered
<1>2. f \in Seq(Mems)
  BY <1>1, SeqDef
<1>3. Len(f) = Len(s.mems) /\ DOMAIN f = Ids(s)
  BY <1>1, <1>2, LenProperties
<1>4. t \in States /\ t.mems = f /\ t.tensions = s.tensions /\ t.pending = s.pending
  BY <1>2 DEF States
<1> QED
  BY <1>3, <1>4 DEF Mapped, Ids

\* Replace touches the memories that are replaced.
LEMMA Replacing ==
  ASSUME NEW s \in States, NEW old, NEW new \in Nat
  PROVE  LET t == Replace(s, old, new) IN
         /\ Mapped(s, t)
         /\ \A i \in Ids(s) :
              /\ t.mems[i].text = s.mems[i].text
              /\ t.mems[i].by = IF i \in old THEN new ELSE s.mems[i].by
              /\ t.mems[i].withdrawn = s.mems[i].withdrawn
              /\ t.mems[i].frozen = s.mems[i].frozen
<1> DEFINE f == [i \in Ids(s) |->
                   IF i \in old THEN [s.mems[i] EXCEPT !.by = new] ELSE s.mems[i]]
<1>1. \A i \in Ids(s) : s.mems[i] \in Mems
  BY Numbered
<1>2. f \in [Ids(s) -> Mems]
  BY <1>1 DEF Mems
<1>3. Replace(s, old, new) = [s EXCEPT !.mems = f]
  BY DEF Replace
<1>4. \A i \in Ids(s) :
        /\ f[i].text = s.mems[i].text
        /\ f[i].by = IF i \in old THEN new ELSE s.mems[i].by
        /\ f[i].withdrawn = s.mems[i].withdrawn
        /\ f[i].frozen = s.mems[i].frozen
  BY <1>1 DEF Mems
<1> HIDE DEF f
<1> QED
  BY <1>2, <1>3, <1>4, MapMems

\* Withdraw touches the memories that are withdrawn.
LEMMA Withdrawing ==
  ASSUME NEW s \in States, NEW I
  PROVE  LET t == Withdraw(s, I) IN
         /\ Mapped(s, t)
         /\ \A i \in Ids(s) :
              /\ t.mems[i].text = s.mems[i].text
              /\ t.mems[i].by = s.mems[i].by
              /\ t.mems[i].withdrawn = (i \in I \/ s.mems[i].withdrawn)
              /\ t.mems[i].frozen = s.mems[i].frozen
<1> DEFINE f == [i \in Ids(s) |->
                   IF i \in I THEN [s.mems[i] EXCEPT !.withdrawn = TRUE] ELSE s.mems[i]]
<1>1. \A i \in Ids(s) : s.mems[i] \in Mems
  BY Numbered
<1>2. f \in [Ids(s) -> Mems]
  BY <1>1 DEF Mems
<1>3. Withdraw(s, I) = [s EXCEPT !.mems = f]
  BY DEF Withdraw
<1>4. \A i \in Ids(s) :
        /\ f[i].text = s.mems[i].text
        /\ f[i].by = s.mems[i].by
        /\ f[i].withdrawn = (i \in I \/ s.mems[i].withdrawn)
        /\ f[i].frozen = s.mems[i].frozen
  BY <1>1 DEF Mems
<1> HIDE DEF f
<1> QED
  BY <1>2, <1>3, <1>4, MapMems

\* Freeze touches the memories that are frozen.
LEMMA Freezing ==
  ASSUME NEW s \in States, NEW I
  PROVE  LET t == Freeze(s, I) IN
         /\ Mapped(s, t)
         /\ \A i \in Ids(s) :
              /\ t.mems[i].text = s.mems[i].text
              /\ t.mems[i].by = s.mems[i].by
              /\ t.mems[i].withdrawn = s.mems[i].withdrawn
              /\ t.mems[i].frozen = (i \in I \/ s.mems[i].frozen)
<1> DEFINE f == [i \in Ids(s) |->
                   IF i \in I THEN [s.mems[i] EXCEPT !.frozen = TRUE] ELSE s.mems[i]]
<1>1. \A i \in Ids(s) : s.mems[i] \in Mems
  BY Numbered
<1>2. f \in [Ids(s) -> Mems]
  BY <1>1 DEF Mems
<1>3. Freeze(s, I) = [s EXCEPT !.mems = f]
  BY DEF Freeze
<1>4. \A i \in Ids(s) :
        /\ f[i].text = s.mems[i].text
        /\ f[i].by = s.mems[i].by
        /\ f[i].withdrawn = s.mems[i].withdrawn
        /\ f[i].frozen = (i \in I \/ s.mems[i].frozen)
  BY <1>1 DEF Mems
<1> HIDE DEF f
<1> QED
  BY <1>2, <1>3, <1>4, MapMems

\* Refresh recomputes one flag.
LEMMA Refreshing ==
  ASSUME NEW s \in States, NEW j \in Ids(s)
  PROVE  LET t == Refresh(s, j) IN
         /\ Mapped(s, t)
         /\ \A i \in Ids(s) :
              /\ t.mems[i].text = s.mems[i].text
              /\ t.mems[i].by = s.mems[i].by
              /\ t.mems[i].withdrawn = s.mems[i].withdrawn
              /\ t.mems[i].frozen = IF i = j THEN \E r \in s.pending : r.target = j
                                             ELSE s.mems[i].frozen
<1> DEFINE b == \E r \in s.pending : r.target = j
           f == [s.mems EXCEPT ![j].frozen = b]
<1>1. /\ s.mems \in [Ids(s) -> Mems]
  BY Numbered, LenProperties
<1>2. b \in BOOLEAN
  OBVIOUS
<1> HIDE DEF b
<1>3. f \in [Ids(s) -> Mems]
  BY <1>1, <1>2 DEF Mems
<1>4. Refresh(s, j) = [s EXCEPT !.mems = f]
  BY DEF Refresh, b, States
<1>5. \A i \in Ids(s) :
        /\ f[i].text = s.mems[i].text
        /\ f[i].by = s.mems[i].by
        /\ f[i].withdrawn = s.mems[i].withdrawn
        /\ f[i].frozen = IF i = j THEN b ELSE s.mems[i].frozen
  BY <1>1 DEF Mems
<1> HIDE DEF f
<1>6. Mapped(s, Refresh(s, j)) /\ Refresh(s, j).mems = f
  BY <1>3, <1>4, MapMems
<1> QED
  BY <1>5, <1>6 DEF b

\* CloseRetiredRelations drops what is about memories that are not in force.
LEMMA Closing ==
  ASSUME NEW s \in States
  PROVE  LET t == CloseRetiredRelations(s) IN
         /\ t \in States /\ Ids(t) = Ids(s) /\ Len(t.mems) = Len(s.mems)
         /\ t.pending = {r \in s.pending : Live(s, r.target)}
         /\ t.tensions = {p \in s.tensions : p \subseteq LiveIds(s)}
         /\ \A i \in Ids(s) :
              /\ t.mems[i].text = s.mems[i].text
              /\ t.mems[i].by = s.mems[i].by
              /\ t.mems[i].withdrawn = s.mems[i].withdrawn
              /\ Live(s, i) => t.mems[i].frozen = s.mems[i].frozen
<1> DEFINE f == [i \in Ids(s) |-> IF Live(s, i) THEN s.mems[i]
                                  ELSE [s.mems[i] EXCEPT !.frozen = FALSE]]
           u == [s EXCEPT !.mems = f]
           t == CloseRetiredRelations(s)
<1>1. \A i \in Ids(s) : s.mems[i] \in Mems
  BY Numbered
<1>2. f \in [Ids(s) -> Mems]
  BY <1>1 DEF Mems
<1>3. \A i \in Ids(s) :
        /\ f[i].text = s.mems[i].text
        /\ f[i].by = s.mems[i].by
        /\ f[i].withdrawn = s.mems[i].withdrawn
        /\ Live(s, i) => f[i].frozen = s.mems[i].frozen
  BY <1>1 DEF Mems
<1> DEFINE P == {r \in s.pending : Live(s, r.target)}
           T == {p \in s.tensions : p \subseteq LiveIds(s)}
<1>4. t = [s EXCEPT !.pending = P, !.mems = f, !.tensions = T]
  BY DEF CloseRetiredRelations
<1>5. P \subseteq Reviews /\ T \subseteq SUBSET Nat
  BY DEF States
<1> HIDE DEF f, P, T
<1>6. u \in States /\ Ids(u) = Ids(s) /\ Len(u.mems) = Len(s.mems) /\ u.mems = f
  BY <1>2, MapMems DEF Mapped
<1>7. f \in Seq(Mems)
  BY <1>6 DEF States
<1>8. t \in States /\ t.mems = f /\ t.pending = P /\ t.tensions = T
  BY <1>4, <1>5, <1>7 DEF States
<1> QED
  BY <1>3, <1>6, <1>8 DEF Ids, P, T

\* A memory that is added comes last; nothing else changes but the tensions.
Added(s, t, c) ==
  /\ t \in States /\ Len(t.mems) = Len(s.mems) + 1
  /\ Ids(t) = Ids(s) \cup {Len(t.mems)} /\ Len(t.mems) \notin Ids(s)
  /\ t.pending = s.pending
  /\ \A i \in Ids(s) : t.mems[i] = s.mems[i]
  /\ t.mems[Len(t.mems)] = [text |-> c, by |-> None, withdrawn |-> FALSE,
                           frozen |-> FALSE]

\* A text that is there already is not added.
LEMMA Proposing ==
  ASSUME NEW s \in States, NEW c \in Texts, NEW t \in Propose(s, c)
  PROVE  IF Same(s, c) # {} THEN t = s ELSE Added(s, t, c)
<1>1. CASE Same(s, c) # {}
  BY <1>1 DEF Propose
<1>2. CASE Same(s, c) = {}
  <2> DEFINE m == [text |-> c, by |-> None, withdrawn |-> FALSE, frozen |-> FALSE]
             n == Len(s.mems) + 1
             nears == {{}} \cup {{{i, n}} : i \in LiveIds(s)}
  <2>1. PICK near \in nears :
          t = [s EXCEPT !.mems = Append(@, m), !.tensions = @ \cup near]
    BY <1>2 DEF Propose
  <2>2. m \in Mems
    BY DEF Mems, None
  <2>3. /\ s.mems \in Seq(Mems) /\ Len(s.mems) \in Nat
        /\ Ids(s) = 1 .. Len(s.mems) /\ s.tensions \subseteq SUBSET Nat
    BY Numbered DEF States
  <2>4. near \subseteq SUBSET Nat
    BY <2>3 DEF LiveIds
  <2> HIDE DEF m, nears
  <2>5. /\ Append(s.mems, m) \in Seq(Mems)
        /\ Len(Append(s.mems, m)) = n
        /\ \A i \in 1 .. Len(s.mems) : Append(s.mems, m)[i] = s.mems[i]
        /\ Append(s.mems, m)[n] = m
    BY <2>2, <2>3
  <2>6. /\ t \in States /\ t.mems = Append(s.mems, m) /\ t.pending = s.pending
    BY <2>1, <2>3, <2>4, <2>5 DEF States
  <2>7. Ids(t) = 1 .. n
    BY <2>6, Numbered, <2>5
  <2> QED
    BY <1>2, <2>3, <2>5, <2>6, <2>7 DEF Added, m
<1> QED
  BY <1>1, <1>2

-----------------------------------------------------------------------------
(* Chains of replacements                                                  *)

\* f leads every memory to the end of its chain.
IsRep(s, f) ==
  /\ f \in [Ids(s) -> Ids(s)]
  /\ \A i \in Ids(s) :
       /\ s.mems[i].by = None => f[i] = i
       /\ s.mems[i].by # None => s.mems[i].by \in Ids(s) /\ f[s.mems[i].by] = f[i]
       /\ s.mems[f[i]].by = None
       /\ \A C \in SUBSET Ids(s) : i \in C /\ Closed(s, C) => f[i] \in C

Chained(s) == \E f : IsRep(s, f)

\* Then the end of a chain is what follow_chain finds.
LEMMA RepIs ==
  ASSUME NEW s, NEW f, IsRep(s, f), NEW i \in Ids(s)
  PROVE  Rep(s, i) = f[i] /\ f[i] \in Ids(s)
<1>1. f[i] \in Ids(s) /\ s.mems[f[i]].by = None
  BY DEF IsRep
<1>2. f[i] \in Seen(s, i)
  BY <1>1 DEF IsRep, Seen
<1>3. ASSUME NEW j \in Seen(s, i), s.mems[j].by = None
      PROVE  j = f[i]
  <2> DEFINE C == {k \in Ids(s) : f[k] = f[i]}
  <2>1. C \in SUBSET Ids(s) /\ i \in C /\ Closed(s, C)
    BY DEF IsRep, Closed
  <2>2. j \in C
    BY <2>1 DEF Seen
  <2> QED
    BY <1>3, <2>2 DEF IsRep
<1>4. (CHOOSE j \in Seen(s, i) : s.mems[j].by = None) = f[i]
  BY <1>1, <1>2, <1>3
<1> QED
  BY <1>1, <1>4 DEF Rep

\* The end of a chain was not replaced; a memory that was not is the end of
\* its own.
LEMMA RepEnds ==
  ASSUME NEW s, Chained(s), NEW i \in Ids(s)
  PROVE  /\ Rep(s, i) \in Ids(s) /\ s.mems[Rep(s, i)].by = None
         /\ s.mems[i].by = None => Rep(s, i) = i
         /\ s.mems[i].by # None =>
              s.mems[i].by \in Ids(s) /\ Rep(s, s.mems[i].by) = Rep(s, i)
<1>1. PICK f : IsRep(s, f)
  BY DEF Chained
<1>2. \A k \in Ids(s) : Rep(s, k) = f[k]
  BY <1>1, RepIs
<1> QED
  BY <1>1, <1>2 DEF IsRep

\* Chains are made of replacements and of nothing else.
SameLinks(s, t) ==
  Ids(t) = Ids(s) /\ \A i \in Ids(s) : t.mems[i].by = s.mems[i].by

\* Where nothing is replaced, the chains are those of before.
LEMMA SameChains ==
  ASSUME NEW s, NEW t, SameLinks(s, t), Chained(s)
  PROVE  Chained(t) /\ \A i \in Ids(s) : Rep(t, i) = Rep(s, i)
<1>1. PICK f : IsRep(s, f)
  BY DEF Chained
<1>2. \A C \in SUBSET Ids(s) : Closed(t, C) <=> Closed(s, C)
  BY DEF Closed, SameLinks
<1>3. IsRep(t, f)
  BY <1>1, <1>2 DEF IsRep, SameLinks
<1> QED
  BY <1>1, <1>3, RepIs DEF Chained, SameLinks

\* A memory that is added is a chain of its own.
LEMMA AddedChain ==
  ASSUME NEW s \in States, NEW t, NEW c, Added(s, t, c), Chained(s)
  PROVE  Chained(t)
<1> DEFINE n == Len(t.mems)
<1>1. PICK f : IsRep(s, f)
  BY DEF Chained
<1> DEFINE g == [i \in Ids(t) |-> IF i = n THEN n ELSE f[i]]
<1>2. /\ Ids(t) = Ids(s) \cup {n} /\ n \notin Ids(s)
      /\ \A i \in Ids(s) : t.mems[i].by = s.mems[i].by
      /\ t.mems[n].by = None
  BY DEF Added
<1>3. \A i \in Ids(s) : f[i] \in Ids(s) /\ g[i] = f[i]
  BY <1>1, <1>2 DEF IsRep
<1>4. g[n] = n /\ g \in [Ids(t) -> Ids(t)]
  BY <1>2, <1>3
<1>5. ASSUME NEW i \in Ids(s), NEW C \in SUBSET Ids(t), i \in C, Closed(t, C)
      PROVE  g[i] \in C
  <2>1. Closed(s, C \cap Ids(s))
    BY <1>1, <1>2, <1>5 DEF Closed, IsRep
  <2> QED
    BY <1>1, <1>3, <1>5, <2>1 DEF IsRep
<1> HIDE DEF g, n
<1>6. ASSUME NEW i \in Ids(s)
      PROVE  /\ t.mems[i].by = None => g[i] = i
             /\ t.mems[i].by # None => t.mems[i].by \in Ids(t) /\ g[t.mems[i].by] = g[i]
             /\ t.mems[g[i]].by = None
  BY <1>1, <1>2, <1>3, <1>6 DEF IsRep
<1>7. IsRep(t, g)
  BY <1>2, <1>4, <1>5, <1>6 DEF IsRep
<1> QED
  BY <1>7 DEF Chained

\* Replacing memories, whether in force or not, by one that is not replaced:
\* chains that ended in one of them now end in the new one.
LEMMA ReplacedChain ==
  ASSUME NEW s \in States, Chained(s), NEW old \in SUBSET Ids(s), NEW new \in Ids(s),
         s.mems[new].by = None, new \notin old,
         \A i \in old : Rep(s, i) \in old \cup {new}
  PROVE  LET t == Replace(s, old, new) IN
         /\ Chained(t)
         /\ \A i \in Ids(s) : Rep(t, i) = IF Rep(s, i) \in old THEN new ELSE Rep(s, i)
<1> DEFINE t == Replace(s, old, new)
<1>1. PICK f : IsRep(s, f)
  BY DEF Chained
<1>2. \A i \in Ids(s) : f[i] = Rep(s, i)
  BY <1>1, RepIs
<1> DEFINE g == [i \in Ids(s) |-> IF f[i] \in old THEN new ELSE f[i]]
<1>3. /\ Ids(t) = Ids(s) /\ new # None
      /\ \A i \in Ids(s) : t.mems[i].by = IF i \in old THEN new ELSE s.mems[i].by
  BY Replacing, Numbered DEF Mapped
<1>4. \A i \in old : f[i] \in old \cup {new}
  BY <1>2
<1> HIDE DEF t
<1>5. ASSUME NEW i \in Ids(s)
      PROVE  /\ t.mems[i].by = None => g[i] = i
             /\ t.mems[i].by # None => t.mems[i].by \in Ids(t) /\ g[t.mems[i].by] = g[i]
             /\ t.mems[g[i]].by = None
             /\ g[i] \in Ids(s)
  <2>1. f[new] = new /\ f[i] \in Ids(s) /\ g[i] = IF f[i] \in old THEN new ELSE f[i]
    BY <1>1 DEF IsRep
  <2>2. CASE i \in old
    BY <1>1, <1>3, <1>4, <2>1, <2>2 DEF IsRep
  <2>3. CASE i \notin old
    <3>1. t.mems[i].by = s.mems[i].by
      BY <1>3, <2>3
    <3>2. s.mems[i].by = None => f[i] = i
      BY <1>1 DEF IsRep
    <3>3. s.mems[i].by # None => s.mems[i].by \in Ids(s) /\ f[s.mems[i].by] = f[i]
      BY <1>1 DEF IsRep
    <3>4. s.mems[f[i]].by = None
      BY <1>1 DEF IsRep
    <3> QED
      BY <1>3, <2>1, <2>3, <3>1, <3>2, <3>3, <3>4
  <2> QED
    BY <2>2, <2>3
<1>6. ASSUME NEW i \in Ids(s), NEW C \in SUBSET Ids(s), i \in C, Closed(t, C)
      PROVE  g[i] \in C
  <2>1. C \cap old # {} => new \in C
    BY <1>3, <1>6 DEF Closed
  <2>2. C \cap old = {} => f[i] \in C
    <3>1. C \cap old = {} => Closed(s, C)
      BY <1>3, <1>6 DEF Closed
    <3> QED
      BY <1>1, <1>6, <3>1 DEF IsRep
  <2>3. CASE f[i] \in old \cup {new}
    BY <2>1, <2>2, <2>3
  <2>4. CASE f[i] \notin old \cup {new}
    <3> DEFINE D == {k \in C : f[k] \notin old \cup {new}}
    <3>1. \A k \in D : k \notin old /\ t.mems[k].by = s.mems[k].by
      BY <1>3, <1>4
    <3>2. Closed(s, D)
      BY <1>1, <1>6, <3>1 DEF Closed, IsRep
    <3>3. i \in D /\ D \in SUBSET Ids(s)
      BY <1>6, <2>4
    <3>4. f[i] \in D
      BY <1>1, <3>2, <3>3 DEF IsRep
    <3> QED
      BY <2>4, <3>4
  <2> QED
    BY <2>3, <2>4
<1>7. IsRep(t, g)
  BY <1>3, <1>5, <1>6 DEF IsRep
<1>8. \A i \in Ids(s) : Rep(t, i) = g[i]
  BY <1>3, <1>7, RepIs
<1>9. Chained(t)
  BY <1>7 DEF Chained
<1> QED
  BY <1>2, <1>8, <1>9 DEF t

-----------------------------------------------------------------------------
(* What reviews and tensions rely on                                       *)

\* A related version was in force when the review was written, or had just
\* become one with the target, of whose value it was.
PeerOK(s, r, p) ==
  /\ p[1] \in Ids(s) \ {r.target}
  /\ \/ p[2] = <<None, FALSE>>
     \/ /\ p[2] = <<r.target, FALSE>>
        /\ Keyed(s.mems[p[1]].text) /\ Keyed(s.mems[r.target].text)
        /\ Meaning(s.mems[p[1]].text) = Meaning(s.mems[r.target].text)

ReviewOK(s, r) ==
  /\ r.target \in Ids(s)
  /\ Live(s, r.target) => s.mems[r.target].frozen
  /\ \A p \in r.peers : PeerOK(s, r, p)
  /\ r.peers # {} => Keyed(r.text)

\* The ends of a tension stand for versions in force; no version became frozen
\* while it stood for another one.
TensionOK(s, p) ==
  \A i \in p :
    /\ i \in Ids(s) /\ Live(s, Rep(s, i))
    /\ s.mems[Rep(s, i)].frozen => Rep(s, i) = i

\* Between the parts of a step.
Good(s) ==
  /\ s \in States /\ Chained(s)
  /\ \A r \in s.pending : ReviewOK(s, r)

\* Between steps.
Rested(s) ==
  /\ Good(s)
  /\ \A r \in s.pending : Live(s, r.target)
  /\ \A p \in s.tensions : TensionOK(s, p)

\* Memories stay, with what they say; none comes back into force, and none that
\* stays in force is released.
Onward(s, t) ==
  \A i \in Ids(s) :
    /\ i \in Ids(t) /\ t.mems[i].text = s.mems[i].text
    /\ Live(t, i) => Live(s, i)
    /\ Live(t, i) /\ s.mems[i].frozen => t.mems[i].frozen

\* A review stays in order when the memories move on.
LEMMA ReviewStays ==
  ASSUME NEW s, NEW t, NEW r, ReviewOK(s, r), Onward(s, t)
  PROVE  ReviewOK(t, r)
<1>1. \A p \in r.peers : PeerOK(t, r, p)
  BY DEF ReviewOK, PeerOK, Onward
<1> QED
  BY <1>1 DEF ReviewOK, Onward

\* Moving on twice is moving on.
LEMMA OnwardBoth ==
  ASSUME NEW s, NEW t, NEW u, Onward(s, t), Onward(t, u)
  PROVE  Onward(s, u)
BY DEF Onward

\* enqueue_review: the review is about versions in force, or about some that
\* have just become one with its target.
LEMMA Enqueued ==
  ASSUME NEW s, Good(s), NEW c \in Candidates, NEW target \in Ids(s),
         NEW related \in SUBSET Ids(s),
         related \subseteq {target} \/ Keyed(c),
         \A i \in related \ {target} :
           \/ Stamp(s, i) = <<None, FALSE>>
           \/ /\ Stamp(s, i) = <<target, FALSE>>
              /\ Keyed(s.mems[i].text) /\ Keyed(s.mems[target].text)
              /\ Meaning(s.mems[i].text) = Meaning(s.mems[target].text)
  PROVE  LET t == EnqueueReview(s, c, target, related) IN
         /\ Good(t) /\ Onward(s, t) /\ SameLinks(s, t)
         /\ \A i \in Ids(s) : t.mems[i].withdrawn = s.mems[i].withdrawn
<1> DEFINE t == EnqueueReview(s, c, target, related)
           peers == {<<i, Stamp(s, i)>> : i \in related \ {target}}
           r == [target |-> target, text |-> c, peers |-> peers]
           waits == \E q \in s.pending : Identity(q) = Identity(r)
           P == IF waits THEN s.pending ELSE s.pending \cup {r}
           u == [s EXCEPT !.pending = P]
<1>1. s \in States /\ Chained(s)
  BY DEF Good
<1>2. r \in Reviews
  <2>1. \A i \in Ids(s) : i \in Nat /\ Stamp(s, i) \in Nat \X BOOLEAN
    BY <1>1, Numbered DEF Stamp, Mems
  <2> QED
    BY <2>1 DEF Reviews
<1>3. t = Freeze(u, {target} \cup related)
  BY DEF EnqueueReview
<1>4. ASSUME NEW p \in peers PROVE PeerOK(s, r, p)
  <2>1. PICK i \in related \ {target} : p = <<i, Stamp(s, i)>>
    OBVIOUS
  <2>2. p[1] = i /\ p[2] = Stamp(s, i) /\ r.target = target
    BY <2>1
  <2>3. p[1] \in Ids(s) \ {r.target}
    BY <2>2
  <2> HIDE DEF r, peers
  <2> QED
    BY <2>1, <2>2, <2>3 DEF PeerOK
<1>5. r.target = target /\ r.peers = peers /\ r.text = c /\ (peers # {} => Keyed(c))
  OBVIOUS
<1>6. P \subseteq s.pending \cup {r}
  OBVIOUS
<1> HIDE DEF r, peers, P, waits, t
<1>7. u \in States /\ u.mems = s.mems /\ u.pending = P /\ u.tensions = s.tensions
  BY <1>1, <1>2, <1>6 DEF States
<1>8. Ids(u) = Ids(s)
  BY <1>7 DEF Ids
<1> HIDE DEF u
<1>9. /\ t \in States /\ Ids(t) = Ids(s) /\ t.pending = P
      /\ \A i \in Ids(s) :
           /\ t.mems[i].text = s.mems[i].text
           /\ t.mems[i].by = s.mems[i].by
           /\ t.mems[i].withdrawn = s.mems[i].withdrawn
           /\ t.mems[i].frozen = (i \in {target} \cup related \/ s.mems[i].frozen)
  BY <1>3, <1>7, <1>8, Freezing DEF Mapped
<1>10. SameLinks(s, t) /\ Onward(s, t)
  BY <1>9 DEF SameLinks, Onward, Live
<1>11. Chained(t)
  BY <1>1, <1>10, SameChains
<1>12. ReviewOK(t, r)
  <2>1. \A i \in Ids(s) : i \in Ids(t) /\ t.mems[i].text = s.mems[i].text
    BY <1>9
  <2>2. ASSUME NEW p \in peers PROVE PeerOK(t, r, p)
    <3>1. PeerOK(s, r, p) /\ r.target \in Ids(s)
      BY <1>4, <1>5
    <3> QED
      BY <2>1, <3>1 DEF PeerOK
  <2> QED
    BY <1>5, <1>9, <2>2 DEF ReviewOK
<1>13. \A q \in P : ReviewOK(t, q)
  BY <1>6, <1>10, <1>12, ReviewStays DEF Good
<1>14. Good(t)
  BY <1>9, <1>11, <1>13 DEF Good
<1> QED
  BY <1>9, <1>10, <1>14 DEF t

\* A version in force stands for itself.
LEMMA LiveEnds ==
  ASSUME NEW s, Chained(s), NEW p \in SUBSET LiveIds(s)
  PROVE  TensionOK(s, p)
<1>1. \A i \in p : i \in Ids(s) /\ s.mems[i].by = None /\ Live(s, i)
  BY DEF LiveIds, Live
<1>2. \A i \in p : Rep(s, i) = i
  BY <1>1, RepEnds
<1> QED
  BY <1>1, <1>2 DEF TensionOK

\* After close_retired_relations every review and every tension is about
\* versions in force.
LEMMA Cleared ==
  ASSUME NEW s, Good(s)
  PROVE  LET t == CloseRetiredRelations(s) IN
         /\ Good(t) /\ Onward(s, t) /\ SameLinks(s, t)
         /\ \A i \in Ids(s) : t.mems[i].withdrawn = s.mems[i].withdrawn
         /\ \A r \in t.pending : Live(t, r.target)
         /\ \A p \in t.tensions : p \subseteq LiveIds(t)
<1> DEFINE t == CloseRetiredRelations(s)
<1>1. s \in States /\ Chained(s)
  BY DEF Good
<1>2. /\ t \in States /\ Ids(t) = Ids(s)
      /\ t.pending = {r \in s.pending : Live(s, r.target)}
      /\ t.tensions = {p \in s.tensions : p \subseteq LiveIds(s)}
      /\ \A i \in Ids(s) :
           /\ t.mems[i].text = s.mems[i].text
           /\ t.mems[i].by = s.mems[i].by
           /\ t.mems[i].withdrawn = s.mems[i].withdrawn
           /\ Live(s, i) => t.mems[i].frozen = s.mems[i].frozen
  BY <1>1, Closing
<1> HIDE DEF t
<1>3. \A i : Live(t, i) <=> Live(s, i)
  BY <1>2 DEF Live
<1>4. SameLinks(s, t) /\ Onward(s, t)
  BY <1>2, <1>3 DEF SameLinks, Onward
<1>5. Chained(t)
  BY <1>1, <1>4, SameChains
<1>6. \A r \in t.pending : ReviewOK(t, r) /\ Live(t, r.target)
  BY <1>2, <1>3, <1>4, ReviewStays DEF Good
<1>7. \A p \in t.tensions : p \subseteq LiveIds(t)
  BY <1>2, <1>3 DEF LiveIds
<1>8. Good(t)
  BY <1>2, <1>5, <1>6 DEF Good
<1> QED
  BY <1>2, <1>4, <1>6, <1>7, <1>8 DEF t

\* Refresh leaves no target of a review unfrozen.
LEMMA Refreshed ==
  ASSUME NEW s, Good(s), NEW j \in Ids(s)
  PROVE  LET t == Refresh(s, j) IN
         /\ Good(t) /\ SameLinks(s, t)
         /\ t.pending = s.pending /\ t.tensions = s.tensions
         /\ \A i \in Ids(s) : t.mems[i].withdrawn = s.mems[i].withdrawn
         /\ \A i : Live(t, i) <=> Live(s, i)
<1> DEFINE t == Refresh(s, j)
<1>1. s \in States /\ Chained(s)
  BY DEF Good
<1>2. /\ t \in States /\ Ids(t) = Ids(s)
      /\ t.pending = s.pending /\ t.tensions = s.tensions
      /\ \A i \in Ids(s) :
           /\ t.mems[i].text = s.mems[i].text
           /\ t.mems[i].by = s.mems[i].by
           /\ t.mems[i].withdrawn = s.mems[i].withdrawn
           /\ t.mems[i].frozen = IF i = j THEN \E r \in s.pending : r.target = j
                                          ELSE s.mems[i].frozen
  BY <1>1, Refreshing DEF Mapped
<1> HIDE DEF t
<1>3. SameLinks(s, t) /\ \A i : Live(t, i) <=> Live(s, i)
  BY <1>2 DEF SameLinks, Live
<1>4. Chained(t)
  BY <1>1, <1>3, SameChains
<1>5. ASSUME NEW r \in t.pending PROVE ReviewOK(t, r)
  <2>1. ReviewOK(s, r)
    BY <1>2 DEF Good
  <2>2. \A i \in Ids(s) : i \in Ids(t) /\ t.mems[i].text = s.mems[i].text
    BY <1>2
  <2>3. \A p \in r.peers : PeerOK(t, r, p)
    BY <2>1, <2>2 DEF ReviewOK, PeerOK
  <2>4. r.target \in Ids(t) /\ (Live(t, r.target) => t.mems[r.target].frozen)
    <3>1. CASE r.target = j
      BY <1>2, <3>1
    <3>2. CASE r.target # j
      BY <1>2, <1>3, <2>1, <3>2 DEF ReviewOK
    <3> QED
      BY <3>1, <3>2
  <2> QED
    BY <2>1, <2>3, <2>4 DEF ReviewOK
<1>6. Good(t)
  BY <1>2, <1>4, <1>5 DEF Good
<1> QED
  BY <1>2, <1>3, <1>6 DEF t

\* The end of a decision puts everything in order, whatever the review was about.
LEMMA Settling ==
  ASSUME NEW s \in States, Chained(s), NEW r \in s.pending, r.target \in Ids(s),
         \A q \in s.pending \ {r} : ReviewOK(s, q),
         NEW selected \in Ids(s) \cup {None}
  PROVE  LET t == Settled(s, r, selected) IN
         /\ Rested(t) /\ SameLinks(s, t)
         /\ \A i \in Ids(s) : t.mems[i].withdrawn = s.mems[i].withdrawn
<1> DEFINE a == [s EXCEPT !.pending = @ \ {r}]
           b == Refresh(a, r.target)
           c == CloseRetiredRelations(b)
           d == Refresh(c, selected)
           t == Settled(s, r, selected)
<1>1. t = IF selected = None THEN c ELSE d
  BY DEF Settled
<1>2. a \in States /\ a.mems = s.mems /\ a.pending = s.pending \ {r}
  BY DEF States
<1> HIDE DEF a
<1>3. Ids(a) = Ids(s) /\ SameLinks(s, a) /\ Onward(s, a)
  BY <1>2 DEF Ids, SameLinks, Onward, Live
<1>4. Chained(a)
  BY <1>3, SameChains
<1>5. Good(a)
  BY <1>2, <1>3, <1>4, ReviewStays DEF Good
<1>6. Good(b) /\ SameLinks(a, b) /\ \A i \in Ids(a) : b.mems[i].withdrawn = a.mems[i].withdrawn
  BY <1>3, <1>5, Refreshed
<1> HIDE DEF b
<1>7. /\ Good(c) /\ SameLinks(b, c)
      /\ \A i \in Ids(b) : c.mems[i].withdrawn = b.mems[i].withdrawn
      /\ \A q \in c.pending : Live(c, q.target)
      /\ \A p \in c.tensions : p \subseteq LiveIds(c)
  BY <1>6, Cleared
<1> HIDE DEF c
<1>8. /\ SameLinks(s, c) /\ Ids(c) = Ids(s)
      /\ \A i \in Ids(s) : c.mems[i].withdrawn = s.mems[i].withdrawn
  BY <1>2, <1>3, <1>6, <1>7 DEF SameLinks
<1>9. Chained(c) /\ \A p \in c.tensions : TensionOK(c, p)
  BY <1>7, LiveEnds DEF Good
<1>10. CASE selected = None
  BY <1>1, <1>7, <1>8, <1>9, <1>10 DEF Rested
<1>11. CASE selected # None
  <2>1. /\ Good(d) /\ SameLinks(c, d)
        /\ d.pending = c.pending /\ d.tensions = c.tensions
        /\ \A i \in Ids(c) : d.mems[i].withdrawn = c.mems[i].withdrawn
        /\ \A i : Live(d, i) <=> Live(c, i)
    BY <1>7, <1>8, <1>11, Refreshed
  <2> HIDE DEF d
  <2>2. \A p \in d.tensions : p \subseteq LiveIds(d)
    BY <1>7, <2>1 DEF LiveIds, SameLinks
  <2>3. \A p \in d.tensions : TensionOK(d, p)
    BY <2>1, <2>2, LiveEnds DEF Good
  <2>4. SameLinks(s, d) /\ \A i \in Ids(s) : d.mems[i].withdrawn = s.mems[i].withdrawn
    BY <1>8, <2>1 DEF SameLinks
  <2> QED
    BY <1>1, <1>7, <1>11, <2>1, <2>3, <2>4 DEF Rested
<1> QED
  BY <1>10, <1>11

-----------------------------------------------------------------------------
(* Steps                                                                   *)

\* What was in force until the step is replaced by what was in force before it,
\* or by a new memory.
Merged(s, t) ==
  \A i \in Ids(s) :
    /\ s.mems[i].by = None /\ t.mems[i].by # None /\ t.mems[i].by \in Ids(s)
    => Live(s, t.mems[i].by)

\* The state after a step is the one the step becomes.
LEMMA BecomeIs ==
  ASSUME NEW t \in States, Become(t)
  PROVE  S' = t
BY DEF Become, S, States

\* A fresh review is about versions in force, and such that its target has
\* replaced for having the same value.
LEMMA FreshPeers ==
  ASSUME Rested(S), NEW r \in pending, Fresh(r), NEW i \in Members(r), i # r.target
  PROVE  /\ i \in Ids(S)
         /\ \/ Live(S, i)
            \/ /\ S.mems[i].by = r.target
               /\ Keyed(S.mems[i].text) /\ Keyed(S.mems[r.target].text)
               /\ Meaning(S.mems[i].text) = Meaning(S.mems[r.target].text)
         /\ Keyed(r.text)
<1>1. ReviewOK(S, r)
  BY DEF Rested, Good, S
<1>2. PICK p \in r.peers : p[1] = i
  BY DEF Members
<1>3. Stamp(S, i) = p[2] /\ PeerOK(S, r, p) /\ Keyed(r.text)
  BY <1>1, <1>2 DEF Fresh, ReviewOK
<1>4. /\ Stamp(S, i)[1] = S.mems[i].by /\ Stamp(S, i)[2] = S.mems[i].withdrawn
      /\ i \in Ids(S)
  BY <1>2, <1>3 DEF Stamp, PeerOK
<1>5. CASE p[2] = <<None, FALSE>>
  <2> DEFINE stamp == Stamp(S, i)
  <2>1. stamp = <<None, FALSE>>
    BY <1>3, <1>5
  <2>2. stamp[1] = S.mems[i].by /\ stamp[2] = S.mems[i].withdrawn
    BY <1>4
  <2> HIDE DEF stamp
  <2>3. stamp[1] = None /\ stamp[2] = FALSE
    BY <2>1
  <2>4. S.mems[i].by = None /\ S.mems[i].withdrawn = FALSE
    BY <2>2, <2>3
  <2>5. Live(S, i)
    BY <1>4, <2>4 DEF Live
  <2> QED
    BY <1>3, <1>4, <2>5
<1>6. CASE p[2] # <<None, FALSE>>
  <2>1. /\ p[2] = <<r.target, FALSE>>
        /\ Keyed(S.mems[i].text) /\ Keyed(S.mems[r.target].text)
        /\ Meaning(S.mems[i].text) = Meaning(S.mems[r.target].text)
    BY <1>2, <1>3, <1>6 DEF PeerOK
  <2>2. S.mems[i].by = r.target
    BY <1>3, <1>4, <2>1
  <2> QED
    BY <1>3, <1>4, <2>1, <2>2
<1> QED
  BY <1>5, <1>6

\* So their chains end with them or with the target.
LEMMA FreshChains ==
  ASSUME Rested(S), NEW r \in pending, Fresh(r)
  PROVE  /\ r.target \in Ids(S) /\ S.mems[r.target].by = None /\ Live(S, r.target)
         /\ Members(r) \subseteq Ids(S) /\ r.target \in Members(r)
         /\ Rep(S, r.target) = r.target
         /\ \A i \in Members(r) : Rep(S, i) \in {i, r.target}
<1>1. Live(S, r.target) /\ r.target \in Ids(S) /\ S.mems[r.target].by = None
  BY DEF Fresh, Live
<1>2. Chained(S)
  BY DEF Rested, Good
<1>3. Rep(S, r.target) = r.target
  BY <1>1, <1>2, RepEnds
<1>4. ASSUME NEW i \in Members(r), i # r.target
      PROVE  i \in Ids(S) /\ Rep(S, i) \in {i, r.target}
  <2>1. i \in Ids(S) /\ (S.mems[i].by = None \/ S.mems[i].by = r.target)
    BY <1>4, FreshPeers DEF Live
  <2>2. CASE S.mems[i].by = None
    BY <1>2, <2>1, <2>2, RepEnds
  <2>3. CASE S.mems[i].by # None
    BY <1>2, <1>3, <2>1, <2>3, RepEnds
  <2> QED
    BY <2>2, <2>3
<1> QED
  BY <1>1, <1>3, <1>4 DEF Members

\* The least of some numbers. (The order of the numbers is well founded.)
LEMMA MinOf ==
  ASSUME NEW I \in SUBSET Nat, I # {}
  PROVE  Min(I) \in I
<1> DEFINE R == {ss \in Nat \X Nat : ss[1] < ss[2]}
<1>1. IsWellFoundedOn(R, Nat)
  BY NatLessThanWellFounded DEF OpToRel
<1>2. \A x, y \in Nat : <<y, x>> \in R <=> y < x
  OBVIOUS
<1> HIDE DEF R
<1>3. \E x \in I : \A y \in I : ~(<<y, x>> \in R)
  BY <1>1, WFMin
<1>4. PICK x \in I : \A y \in I : ~(<<y, x>> \in R)
  BY <1>3
<1>5. \A y \in I : x =< y
  <2>1. ASSUME NEW y \in I PROVE x =< y
    <3>1. ~(y < x) /\ x \in Nat /\ y \in Nat
      BY <1>2, <1>4
    <3> QED
      BY <3>1
  <2> QED
    BY <2>1
<1> QED
  BY <1>5 DEF Min

\* A decision rests on what it does before Settled.
LEMMA SettleStep ==
  ASSUME Rested(S), NEW r \in pending, NEW w \in States, Chained(w), Onward(S, w),
         r \in w.pending, w.pending \subseteq pending, Merged(S, w),
         NEW selected \in Ids(w) \cup {None}, Become(Settled(w, r, selected))
  PROVE  Rested(S') /\ Merged(S, S')
<1> DEFINE t == Settled(w, r, selected)
<1>1. S.pending = pending /\ \A q \in pending : ReviewOK(S, q)
  BY DEF Rested, Good, S
<1>2. \A q \in w.pending : ReviewOK(w, q)
  BY <1>1, ReviewStays
<1>3. r.target \in Ids(w)
  BY <1>2 DEF ReviewOK
<1>4. Rested(t) /\ SameLinks(w, t)
  BY <1>2, <1>3, Settling
<1> HIDE DEF t
<1>5. t \in States
  BY <1>4 DEF Rested, Good
<1>6. S' = t
  BY <1>5, BecomeIs DEF t
<1>7. Merged(S, t)
  BY <1>4 DEF Merged, SameLinks, Onward
<1> QED
  BY <1>4, <1>6, <1>7

\* The versions a review is about become one that was in force.
LEMMA ReplaceStep ==
  ASSUME Rested(S), NEW r \in pending, Fresh(r),
         NEW w \in States, w.mems = S.mems, r \in w.pending, w.pending \subseteq pending,
         NEW selected \in Members(r), Live(S, selected),
         Become(Settled(Replace(w, Members(r) \ {selected}, selected), r, selected))
  PROVE  Rested(S') /\ Merged(S, S')
<1> DEFINE old == Members(r) \ {selected}
           v == Replace(w, old, selected)
<1>1. S \in States /\ Chained(S)
  BY DEF Rested, Good
<1>2. Ids(w) = Ids(S) /\ SameLinks(S, w)
  BY DEF Ids, SameLinks
<1>3. Chained(w) /\ \A i \in Ids(S) : Rep(w, i) = Rep(S, i)
  BY <1>1, <1>2, SameChains
<1>4. /\ selected \in Ids(S) /\ selected \in Nat \ {None} /\ S.mems[selected].by = None
  BY <1>1, Numbered DEF Live
<1>5. /\ Mapped(w, v)
      /\ \A i \in Ids(w) :
           /\ v.mems[i].text = w.mems[i].text
           /\ v.mems[i].by = IF i \in old THEN selected ELSE w.mems[i].by
           /\ v.mems[i].withdrawn = w.mems[i].withdrawn
           /\ v.mems[i].frozen = w.mems[i].frozen
  BY <1>4, Replacing
<1>6. /\ Members(r) \subseteq Ids(S) /\ r.target \in Members(r)
      /\ \A i \in Members(r) : Rep(S, i) \in {i, r.target}
  BY FreshChains
<1>7. Chained(v)
  <2>1. /\ old \in SUBSET Ids(w) /\ selected \in Ids(w) /\ selected \notin old
        /\ w.mems[selected].by = None
        /\ \A i \in old : Rep(w, i) \in old \cup {selected}
    BY <1>2, <1>3, <1>4, <1>6
  <2> HIDE DEF old
  <2> QED
    BY <1>3, <2>1, ReplacedChain
<1> HIDE DEF v, old
<1>8. Onward(S, v)
  BY <1>2, <1>4, <1>5 DEF Onward, Live, Mapped
<1>9. Merged(S, v)
  BY <1>2, <1>4, <1>5 DEF Merged, Mapped
<1>10. v \in States /\ v.pending = w.pending /\ selected \in Ids(v)
  BY <1>2, <1>4, <1>5 DEF Mapped
<1> QED
  BY <1>7, <1>8, <1>9, <1>10, SettleStep DEF v, old

\* keep_old: the target replaces the versions it was compared with.
LEMMA KeepStep ==
  ASSUME Rested(S), NEW r \in pending, Fresh(r), KeepOld(r)
  PROVE  Rested(S') /\ Merged(S, S')
<1>1. S \in States /\ S.pending = pending
  BY DEF Rested, Good, S
<1>2. r.target \in Members(r) /\ Live(S, r.target)
  BY FreshChains
<1> QED
  BY <1>1, <1>2, ReplaceStep DEF KeepOld

\* The version that is selected because it says already what was accepted is in
\* force: one that the target has replaced says what the target says.
LEMMA SelectedLive ==
  ASSUME Rested(S), NEW r \in pending, Fresh(r), Stated(r) # {}
  PROVE  FirstOf(r, Stated(r)) \in Members(r) /\ Live(S, FirstOf(r, Stated(r)))
<1> DEFINE sel == FirstOf(r, Stated(r))
<1>1. /\ r.target \in Members(r) /\ Live(S, r.target) /\ Members(r) \subseteq Ids(S)
      /\ S \in States /\ S.mems = mems
  BY FreshChains DEF Rested, Good, S
<1>2. Stated(r) \subseteq Members(r) /\ Stated(r) \in SUBSET Nat
  BY <1>1, Numbered DEF Stated
<1>3. CASE r.target \in Stated(r)
  BY <1>1, <1>3 DEF FirstOf
<1>4. CASE r.target \notin Stated(r)
  <2>1. sel \in Stated(r) /\ sel # r.target /\ sel \in Members(r)
    BY <1>2, <1>4, MinOf DEF FirstOf
  <2> HIDE DEF sel
  <2>2. /\ \/ Live(S, sel)
           \/ /\ Keyed(S.mems[sel].text) /\ Keyed(S.mems[r.target].text)
              /\ Meaning(S.mems[sel].text) = Meaning(S.mems[r.target].text)
        /\ Keyed(r.text)
    BY <2>1, FreshPeers
  <2>3. /\ r.text # Retraction
        /\ mems[sel].text = r.text \/ Meaning(mems[sel].text) = Meaning(r.text)
    BY <2>1 DEF Stated
  <2>4. ~(Keyed(mems[r.target].text) /\ Meaning(mems[r.target].text) = Meaning(r.text))
    BY <1>1, <1>4, <2>2, <2>3 DEF Stated
  <2>5. Live(S, sel)
    BY <1>1, <2>2, <2>3, <2>4
  <2> QED
    BY <2>1, <2>5 DEF sel
<1> QED
  BY <1>3, <1>4

\* accept_new, when the versions are withdrawn.
LEMMA RetractStep ==
  ASSUME Rested(S), NEW r \in pending, Fresh(r),
         NEW w \in States, w.mems = S.mems, r \in w.pending, w.pending \subseteq pending,
         Become(Settled(Withdraw(w, Members(r)), r, None))
  PROVE  Rested(S') /\ Merged(S, S')
<1> DEFINE v == Withdraw(w, Members(r))
<1>1. Ids(w) = Ids(S) /\ Chained(S)
  BY DEF Ids, Rested, Good
<1>2. /\ Mapped(w, v)
      /\ \A i \in Ids(w) :
           /\ v.mems[i].text = w.mems[i].text
           /\ v.mems[i].by = w.mems[i].by
           /\ v.mems[i].withdrawn = (i \in Members(r) \/ w.mems[i].withdrawn)
           /\ v.mems[i].frozen = w.mems[i].frozen
  BY Withdrawing
<1> HIDE DEF v
<1>3. SameLinks(S, v)
  BY <1>1, <1>2 DEF SameLinks, Mapped
<1>4. Chained(v) /\ Onward(S, v) /\ Merged(S, v)
  BY <1>1, <1>2, <1>3, SameChains DEF Onward, Merged, Live, Mapped
<1>5. v \in States /\ v.pending = w.pending
  BY <1>2 DEF Mapped
<1> QED
  BY <1>4, <1>5, SettleStep DEF v

\* A new memory takes the place of some that are there.
LEMMA Succeeded ==
  ASSUME NEW s \in States, Chained(s), NEW c \in Texts, NEW p, Added(s, p, c),
         NEW old \in SUBSET Ids(s), \A i \in old : Rep(s, i) \in old
  PROVE  LET n == Len(p.mems)
             v == Replace(p, old, n) IN
         /\ v \in States /\ Chained(v) /\ v.pending = s.pending
         /\ n \in Ids(v) \ Ids(s) /\ Ids(v) = Ids(s) \cup {n} /\ n # None
         /\ \A i \in Ids(s) :
              /\ v.mems[i].text = s.mems[i].text
              /\ v.mems[i].by = IF i \in old THEN n ELSE s.mems[i].by
              /\ v.mems[i].withdrawn = s.mems[i].withdrawn
              /\ v.mems[i].frozen = s.mems[i].frozen
<1> DEFINE n == Len(p.mems)
           v == Replace(p, old, n)
<1>1. /\ p \in States /\ Ids(p) = Ids(s) \cup {n} /\ n \notin Ids(s)
      /\ p.pending = s.pending /\ p.mems[n].by = None
      /\ \A i \in Ids(s) : p.mems[i] = s.mems[i]
  BY DEF Added
<1>2. Chained(p)
  BY AddedChain
<1>3. n \in Nat \ {None}
  BY <1>1, Numbered
<1>4. /\ Mapped(p, v)
      /\ \A i \in Ids(p) :
           /\ v.mems[i].text = p.mems[i].text
           /\ v.mems[i].by = IF i \in old THEN n ELSE p.mems[i].by
           /\ v.mems[i].withdrawn = p.mems[i].withdrawn
           /\ v.mems[i].frozen = p.mems[i].frozen
  BY <1>1, <1>3, Replacing
<1>5. \A i \in old : Rep(p, i) \in old \cup {n}
  <2>1. PICK f : IsRep(s, f)
    BY DEF Chained
  <2>2. PICK g : IsRep(p, g)
    BY <1>2 DEF Chained
  <2>3. ASSUME NEW i \in old PROVE g[i] = f[i]
    <3> DEFINE C == {k \in Ids(p) : k = n \/ g[k] = g[i]}
    <3>1. Closed(s, C \cap Ids(s)) /\ i \in C \cap Ids(s)
      BY <1>1, <2>1, <2>2 DEF Closed, IsRep
    <3>2. f[i] \in C \cap Ids(s)
      BY <2>1, <3>1 DEF IsRep
    <3>3. g[f[i]] = g[i]
      BY <1>1, <3>2
    <3>4. s.mems[f[i]].by = None /\ p.mems[f[i]].by = None
      BY <1>1, <2>1, <3>2 DEF IsRep
    <3>5. g[f[i]] = f[i]
      BY <1>1, <2>2, <3>2, <3>4 DEF IsRep
    <3> QED
      BY <3>3, <3>5
  <2>4. \A i \in old : Rep(s, i) = f[i] /\ Rep(p, i) = g[i]
    BY <1>1, <2>1, <2>2, RepIs
  <2> QED
    BY <2>3, <2>4
<1>6. Chained(v)
  <2>1. old \in SUBSET Ids(p) /\ n \in Ids(p) /\ n \notin old
    BY <1>1
  <2> QED
    BY <1>1, <1>2, <1>5, <2>1, ReplacedChain
<1> HIDE DEF v, n
<1> QED
  BY <1>1, <1>3, <1>4, <1>6 DEF Mapped, v, n

\* accept_new, when the candidate becomes a memory.
LEMMA CreateStep ==
  ASSUME Rested(S), NEW r \in pending, Fresh(r), r.text \in Texts,
         NEW w \in States, w.mems = S.mems, r \in w.pending, w.pending \subseteq pending,
         Same(S, r.text) = {}, NEW p \in Propose(w, r.text),
         Become(Settled(Replace(p, Members(r), Len(p.mems)), r, Len(p.mems)))
  PROVE  Rested(S') /\ Merged(S, S')
<1> DEFINE n == Len(p.mems)
           v == Replace(p, Members(r), n)
<1>1. Ids(w) = Ids(S) /\ Chained(S) /\ SameLinks(S, w)
  BY DEF Ids, Rested, Good, SameLinks
<1>2. Same(w, r.text) = {}
  BY <1>1 DEF Same, LiveIds, Live, Ids
<1>3. Added(w, p, r.text)
  BY <1>2, Proposing
<1>4. Chained(w) /\ \A i \in Ids(S) : Rep(w, i) = Rep(S, i)
  BY <1>1, SameChains
<1>5. /\ Members(r) \in SUBSET Ids(w)
      /\ \A i \in Members(r) : Rep(w, i) \in Members(r)
  BY <1>1, <1>4, FreshChains
<1>6. /\ v \in States /\ Chained(v) /\ v.pending = w.pending
      /\ n \in Ids(v) \ Ids(w) /\ Ids(v) = Ids(w) \cup {n} /\ n # None
      /\ \A i \in Ids(w) :
           /\ v.mems[i].text = w.mems[i].text
           /\ v.mems[i].by = IF i \in Members(r) THEN n ELSE w.mems[i].by
           /\ v.mems[i].withdrawn = w.mems[i].withdrawn
           /\ v.mems[i].frozen = w.mems[i].frozen
  BY <1>3, <1>4, <1>5, Succeeded
<1> HIDE DEF v, n
<1>7. Onward(S, v) /\ Merged(S, v)
  BY <1>1, <1>6 DEF Onward, Merged, Live
<1> QED
  BY <1>6, <1>7, SettleStep DEF v, n

\* accept_new
LEMMA AcceptStep ==
  ASSUME Rested(S), NEW r \in pending, Fresh(r), AcceptNew(r)
  PROVE  Rested(S') /\ Merged(S, S')
<1> DEFINE P == {q \in pending : q.target # r.target} \cup {r}
           w == [S EXCEPT !.pending = P]
<1>1. S \in States /\ S.pending = pending /\ S.mems = mems
  BY DEF Rested, Good, S
<1>2. r \in Reviews /\ P \subseteq pending /\ r \in P
  BY <1>1, Numbered
<1>3. w = [S EXCEPT !.pending = {q \in @ : q.target # r.target} \cup {r}]
  BY <1>1
<1> HIDE DEF P
<1>4. w \in States /\ w.mems = S.mems /\ w.pending = P
  BY <1>1, <1>2 DEF States
<1> HIDE DEF w
<1>5. CASE r.text = Retraction
  <2>1. Become(Settled(Withdraw(w, Members(r)), r, None))
    BY <1>3, <1>5 DEF AcceptNew
  <2> QED
    BY <1>2, <1>4, <2>1, RetractStep
<1>6. CASE r.text # Retraction /\ Stated(r) # {}
  <2> DEFINE sel == FirstOf(r, Stated(r))
  <2>1. Become(Settled(Replace(w, Members(r) \ {sel}, sel), r, sel))
    BY <1>3, <1>6 DEF AcceptNew
  <2>2. sel \in Members(r) /\ Live(S, sel)
    BY <1>6, SelectedLive
  <2> HIDE DEF sel
  <2> QED
    BY <1>2, <1>4, <2>1, <2>2, ReplaceStep
<1>7. CASE r.text # Retraction /\ Stated(r) = {}
  <2>1. r.text \in Texts
    BY <1>2, <1>7 DEF Reviews, Candidates
  <2>2. Same(S, r.text) = {}
    BY <1>7 DEF AcceptNew
  <2>3. PICK t \in Propose(w, r.text) :
          Become(Settled(Replace(t, Members(r), Len(t.mems)), r, Len(t.mems)))
    BY <1>3, <1>7 DEF AcceptNew
  <2> QED
    BY <1>2, <1>4, <2>1, <2>2, <2>3, CreateStep
<1> QED
  BY <1>5, <1>6, <1>7

\* A retrieval
LEMMA SuppressStep ==
  ASSUME Rested(S), Suppress
  PROVE  Rested(S') /\ Merged(S, S') /\ pending' = pending
<1>1. PICK i, j \in LiveIds(S) :
        tensions' = tensions \cup {{i, j}} /\ mems' = mems /\ pending' = pending
  BY DEF Suppress
<1>2. /\ S \in States /\ Chained(S) /\ S.mems = mems /\ S.pending = pending
      /\ S.tensions = tensions
  BY DEF Rested, Good, S
<1> DEFINE u == [S EXCEPT !.tensions = tensions \cup {{i, j}}]
<1>4. {i, j} \in SUBSET Nat /\ {i, j} \in SUBSET LiveIds(S)
  BY <1>2, Numbered DEF LiveIds
<1>3. /\ u \in States /\ u.mems = S.mems /\ u.pending = S.pending
      /\ u.tensions = tensions \cup {{i, j}}
  BY <1>2, <1>4 DEF States
<1>5. /\ S' \in States /\ S'.mems = S.mems /\ S'.pending = S.pending
      /\ S'.tensions = tensions \cup {{i, j}}
  <2> HIDE DEF u
  <2>1. Become(u)
    BY <1>1, <1>2, <1>3 DEF Become
  <2>2. S' = u
    BY <1>3, <2>1, BecomeIs
  <2> QED
    BY <1>3, <2>2
<1>6. /\ Ids(S') = Ids(S) /\ SameLinks(S, S') /\ Onward(S, S') /\ Merged(S, S')
      /\ \A k : Live(S', k) <=> Live(S, k)
  BY <1>5 DEF Ids, SameLinks, Onward, Merged, Live
<1>7. Chained(S') /\ \A k \in Ids(S) : Rep(S', k) = Rep(S, k)
  BY <1>2, <1>6, SameChains
<1>8. TensionOK(S', {i, j})
  BY <1>4, <1>6, <1>7, LiveEnds DEF LiveIds
<1>9. \A p \in tensions : TensionOK(S', p)
  BY <1>2, <1>5, <1>6, <1>7 DEF Rested, TensionOK
<1>10. Good(S')
  BY <1>2, <1>5, <1>6, <1>7, ReviewStays DEF Rested, Good
<1>11. Rested(S')
  BY <1>2, <1>5, <1>6, <1>8, <1>9, <1>10 DEF Rested
<1> QED
  BY <1>1, <1>6, <1>11

\* A merge of two versions in force of which no human has to decide about either.
LEMMA MergeStep ==
  ASSUME Rested(S), NEW drop \in Ids(S), NEW keep \in Ids(S), drop # keep,
         Live(S, drop), Live(S, keep), ~S.mems[drop].frozen, ~S.mems[keep].frozen,
         NEW v, v = Replace(S, {drop}, keep), NEW T \in SUBSET tensions,
         S' = [v EXCEPT !.tensions = T]
  PROVE  Rested(S') /\ Merged(S, S') /\ pending' = pending
<1>1. /\ S \in States /\ Chained(S) /\ S.pending = pending /\ S.tensions = tensions
      /\ keep \in Nat \ {None} /\ S.mems[keep].by = None /\ S.mems[drop].by = None
  BY Numbered DEF Rested, Good, S, Live
<1>2. /\ Mapped(S, v)
      /\ \A i \in Ids(S) :
           /\ v.mems[i].text = S.mems[i].text
           /\ v.mems[i].by = IF i \in {drop} THEN keep ELSE S.mems[i].by
           /\ v.mems[i].withdrawn = S.mems[i].withdrawn
           /\ v.mems[i].frozen = S.mems[i].frozen
  BY <1>1, Replacing
<1>3. /\ Chained(v)
      /\ \A i \in Ids(S) : Rep(v, i) = IF Rep(S, i) \in {drop} THEN keep ELSE Rep(S, i)
  <2>1. /\ {drop} \in SUBSET Ids(S) /\ keep \notin {drop}
        /\ \A i \in {drop} : Rep(S, i) \in {drop} \cup {keep}
    BY <1>1, RepEnds
  <2> QED
    BY <1>1, <2>1, ReplacedChain
<1>4. /\ S' \in States /\ S'.mems = v.mems /\ S'.pending = pending /\ S'.tensions = T
  <2>1. T \in SUBSET SUBSET Nat /\ v \in States /\ v.pending = pending
    BY <1>1, <1>2 DEF States, Mapped
  <2> QED
    BY <2>1 DEF States
<1>5. Ids(S') = Ids(S) /\ SameLinks(v, S') /\ pending' = pending
  BY <1>2, <1>4 DEF Ids, Mapped, SameLinks, S
<1>6. /\ Chained(S')
      /\ \A i \in Ids(S) : Rep(S', i) = IF Rep(S, i) = drop THEN keep ELSE Rep(S, i)
  <2>1. Ids(v) = Ids(S)
    BY <1>2 DEF Mapped
  <2>2. Chained(S') /\ \A i \in Ids(v) : Rep(S', i) = Rep(v, i)
    BY <1>3, <1>5, SameChains
  <2> QED
    BY <1>3, <2>1, <2>2
<1>7. \A i \in Ids(S) :
        /\ S'.mems[i].text = S.mems[i].text
        /\ S'.mems[i].by = IF i = drop THEN keep ELSE S.mems[i].by
        /\ S'.mems[i].withdrawn = S.mems[i].withdrawn
        /\ S'.mems[i].frozen = S.mems[i].frozen
  BY <1>2, <1>4
<1>8. Onward(S, S') /\ Merged(S, S')
  BY <1>1, <1>5, <1>7 DEF Onward, Merged, Live
<1>9. \A i \in Ids(S) \ {drop} : Live(S', i) <=> Live(S, i)
  BY <1>5, <1>7 DEF Live
<1>10. Good(S')
  BY <1>1, <1>4, <1>6, <1>8, ReviewStays DEF Rested, Good
<1>11. \A r \in pending : Live(S', r.target)
  BY <1>1, <1>9 DEF Rested, Good, ReviewOK
<1>12. ASSUME NEW p \in T PROVE TensionOK(S', p)
  <2>1. TensionOK(S, p)
    BY <1>1 DEF Rested
  <2>2. ASSUME NEW i \in p
        PROVE  /\ i \in Ids(S') /\ Live(S', Rep(S', i))
               /\ S'.mems[Rep(S', i)].frozen => Rep(S', i) = i
    <3>1. /\ i \in Ids(S) /\ Live(S, Rep(S, i)) /\ Rep(S, i) \in Ids(S)
          /\ S.mems[Rep(S, i)].frozen => Rep(S, i) = i
      BY <2>1 DEF TensionOK, Live
    <3>2. CASE Rep(S, i) = drop
      <4>1. Rep(S', i) = keep
        BY <1>6, <3>1, <3>2
      <4> QED
        BY <1>5, <1>7, <1>9, <3>1, <4>1
    <3>3. CASE Rep(S, i) # drop
      <4>1. Rep(S', i) = Rep(S, i)
        BY <1>6, <3>1, <3>3
      <4> QED
        BY <1>5, <1>7, <1>9, <3>1, <3>3, <4>1
    <3> QED
      BY <3>2, <3>3
  <2> QED
    BY <2>2 DEF TensionOK
<1>13. Rested(S')
  BY <1>4, <1>10, <1>11, <1>12 DEF Rested
<1> QED
  BY <1>5, <1>8, <1>13

\* A tension that is dropped.
LEMMA DropStep ==
  ASSUME Rested(S), NEW T \in SUBSET tensions, S' = [S EXCEPT !.tensions = T]
  PROVE  Rested(S') /\ Merged(S, S') /\ pending' = pending
<1>1. S \in States /\ Chained(S) /\ S.pending = pending /\ S.tensions = tensions
  BY DEF Rested, Good, S
<1>2. /\ S' \in States /\ S'.mems = S.mems /\ S'.pending = S.pending /\ S'.tensions = T
  BY <1>1 DEF States
<1>3. /\ Ids(S') = Ids(S) /\ SameLinks(S, S') /\ Onward(S, S') /\ Merged(S, S')
      /\ pending' = pending
      /\ \A k : Live(S', k) <=> Live(S, k)
  BY <1>1, <1>2 DEF Ids, SameLinks, Onward, Merged, Live, S
<1>4. Chained(S') /\ \A k \in Ids(S) : Rep(S', k) = Rep(S, k)
  BY <1>1, <1>3, SameChains
<1>5. \A p \in T : TensionOK(S', p)
  BY <1>1, <1>2, <1>3, <1>4 DEF Rested, TensionOK
<1>6. Good(S')
  BY <1>1, <1>2, <1>3, <1>4, ReviewStays DEF Rested, Good
<1> QED
  BY <1>1, <1>2, <1>3, <1>5, <1>6 DEF Rested

\* A verdict: the two representatives are in force, and unfrozen, since a frozen
\* one would be the end of the tension itself.
LEMMA VerdictStep ==
  ASSUME Rested(S), Verdict
  PROVE  Rested(S') /\ Merged(S, S') /\ pending' = pending
<1>1. PICK i \in Ids(S), j \in Ids(S), verdict \in {"synonym", "update", "collision"},
           authorised \in BOOLEAN, keepsFirst \in BOOLEAN :
        LET newer == Rep(S, i) > Rep(S, j)
            s == IF verdict = "collision" THEN S
                 ELSE Merge(S, i, j, IF verdict = "update" THEN newer ELSE keepsFirst)
        IN  /\ i < j
            /\ {i, j} \in tensions
            /\ Rep(S, i) = Rep(S, j) \/ ~Overruled(i, j, verdict, authorised)
            /\ Become([s EXCEPT !.tensions = @ \ {{i, j}}])
  BY DEF Verdict
<1> DEFINE newer == Rep(S, i) > Rep(S, j)
           s == IF verdict = "collision" THEN S
                ELSE Merge(S, i, j, IF verdict = "update" THEN newer ELSE keepsFirst)
           T == tensions \ {{i, j}}
<1>2. S \in States /\ S.pending = pending /\ S.tensions = tensions /\ S.mems = mems
  BY DEF Rested, Good, S
<1>3. /\ Live(S, Rep(S, i)) /\ Live(S, Rep(S, j))
      /\ Rep(S, i) \in Ids(S) /\ Rep(S, j) \in Ids(S)
      /\ S.mems[Rep(S, i)].frozen => Rep(S, i) = i
      /\ S.mems[Rep(S, j)].frozen => Rep(S, j) = j
  <2>1. TensionOK(S, {i, j})
    BY <1>1, <1>2 DEF Rested
  <2> QED
    BY <2>1 DEF TensionOK, Live
<1>4. CASE s = S
  <2>1. Become([S EXCEPT !.tensions = T])
    BY <1>1, <1>2, <1>4
  <2>2. [S EXCEPT !.tensions = T] \in States
    BY <1>2 DEF States
  <2>3. S' = [S EXCEPT !.tensions = T]
    BY <2>1, <2>2, BecomeIs
  <2> QED
    BY <2>3, DropStep
<1>5. CASE Rep(S, i) = Rep(S, j)
  <2>1. s = S
    BY <1>5 DEF Merge
  <2> QED
    BY <1>4, <2>1
<1>6. CASE s # S /\ Rep(S, i) # Rep(S, j)
  <2>1. ~S.mems[i].frozen /\ ~S.mems[j].frozen
    BY <1>1, <1>2, <1>6 DEF Overruled
  <2>2. ~S.mems[Rep(S, i)].frozen /\ ~S.mems[Rep(S, j)].frozen
    BY <1>3, <2>1
  <2>3. PICK drop \in {Rep(S, i), Rep(S, j)}, keep \in {Rep(S, i), Rep(S, j)} :
          drop # keep /\ s = Replace(S, {drop}, keep)
    BY <1>6 DEF Merge
  <2>4. Become([s EXCEPT !.tensions = @ \ {{i, j}}])
    BY <1>1
  <2>5. Mapped(S, s)
    <3>1. keep \in Nat
      BY <1>2, <1>3, <2>3, Numbered
    <3> QED
      BY <1>2, <2>3, <3>1, Replacing
  <2> HIDE DEF s
  <2>6. s \in States /\ s.tensions = tensions
    BY <1>2, <2>5 DEF Mapped
  <2>7. Become([s EXCEPT !.tensions = T]) /\ [s EXCEPT !.tensions = T] \in States
    BY <2>4, <2>6 DEF States
  <2>8. S' = [s EXCEPT !.tensions = T]
    BY <2>7, BecomeIs
  <2>9. /\ Live(S, drop) /\ Live(S, keep) /\ drop \in Ids(S) /\ keep \in Ids(S)
        /\ ~S.mems[drop].frozen /\ ~S.mems[keep].frozen
    BY <1>3, <2>2, <2>3
  <2> HIDE DEF T
  <2>10. T \in SUBSET tensions
    BY DEF T
  <2> QED
    BY <2>3, <2>8, <2>9, <2>10, MergeStep
<1> QED
  BY <1>4, <1>5, <1>6

-----------------------------------------------------------------------------
(* A batch of the Selector                                                 *)

\* What a batch may decide on: a version in force, together with versions of the
\* claim only when it is the one of them that scores highest, and without
\* putting any of them aside while a human has to decide about one.
Decided(s, d, top) ==
  \/ d.act = "REJECT"
  \/ d.act = "CREATE" /\ d.text \in Texts
  \/ /\ d.act = "EXIST" /\ d.target = top /\ top \in Current(s)
     /\ d.related \subseteq Current(s)
     /\ d.related # {} => ~AnyFrozen(s, Current(s))
     /\ \A i \in Current(s) : Meaning(s.mems[i].text) = Meaning(s.mems[top].text)
  \/ /\ d.act = "CONFLICT" /\ d.text \in Candidates
     /\ d.target \in LiveIds(s) /\ d.related \subseteq Current(s)
     /\ d.related # {} => d.target = top /\ top \in Current(s) /\ Keyed(d.text)
  \/ /\ d.act = "UPDATE" /\ d.text \in Candidates
     /\ d.target \in LiveIds(s) /\ d.related \subseteq Current(s)
     /\ \/ /\ d.target = top /\ top \in Current(s) /\ Keyed(d.text)
           /\ ~AnyFrozen(s, Current(s))
        \/ d.related = {} /\ d.target \notin Current(s) /\ d.text \in Texts

\* normalize_claim sees to it, for a candidate with a claim ...
LEMMA ClaimDecided ==
  ASSUME NEW s \in States, NEW top, top \in Current(s) \/ Current(s) = {},
         NEW c \in Candidates, Keyed(c), NEW d \in NormalizeClaim(s, c, top)
  PROVE  Decided(s, d, top)
<1> DEFINE cur == Current(s)
           others == IF Cardinality(cur) > 1 THEN cur ELSE {}
           same == \A i \in cur : Meaning(s.mems[i].text) = Meaning(c)
<1>1. cur \subseteq LiveIds(s) /\ others \subseteq cur
  BY DEF Current
<1>2. CASE cur = {}
  <2>1. c # Retraction
    BY <1>2 DEF NormalizeClaim
  <2>2. d \in {Decision("CREATE", c, None, {})}
              \cup {Decision("CONFLICT", c, i, {}) : i \in LiveIds(s)}
    BY <1>2, <2>1 DEF NormalizeClaim
  <2>3. c \in Texts
    BY <2>1 DEF Candidates
  <2> QED
    BY <2>2, <2>3 DEF Decided, Decision
<1>3. CASE cur # {} /\ same
  <2>1. d = Decision("EXIST", c, top, IF AnyFrozen(s, cur) THEN {} ELSE others \ {top})
    BY <1>3 DEF NormalizeClaim
  <2>2. top \in cur
    BY <1>3
  <2>3. \A i \in cur : Meaning(s.mems[i].text) = Meaning(s.mems[top].text)
    BY <1>3, <2>2
  <2>4. /\ d.act = "EXIST" /\ d.target = top
        /\ d.related = IF AnyFrozen(s, cur) THEN {} ELSE others \ {top}
    BY <2>1 DEF Decision
  <2> QED
    BY <1>1, <2>2, <2>3, <2>4 DEF Decided
<1>4. CASE cur # {} /\ ~same
  <2>1. d \in {Decision("CONFLICT", c, top, others)}
              \cup IF AnyFrozen(s, cur) THEN {} ELSE {Decision("UPDATE", c, top, others)}
    BY <1>4 DEF NormalizeClaim
  <2>2. top \in cur /\ top \in LiveIds(s)
    BY <1>1, <1>4
  <2> HIDE DEF others, same
  <2>3. /\ d.act = "CONFLICT" \/ (d.act = "UPDATE" /\ ~AnyFrozen(s, cur))
        /\ d.text = c /\ d.target = top /\ d.related = others
    BY <2>1 DEF Decision
  <2> QED
    BY <1>1, <2>2, <2>3 DEF Decided
<1> QED
  BY <1>2, <1>3, <1>4

\* ... and for one without.
LEMMA DecisionDecided ==
  ASSUME NEW s \in States, NEW top, top \in Current(s) \/ Current(s) = {},
         NEW d \in Decisions(s, top)
  PROVE  Decided(s, d, top)
<1>1. CASE d \in {Decision("REJECT", c, None, {}) : c \in Candidates}
  BY <1>1 DEF Decided, Decision
<1>2. ASSUME NEW c \in Candidates, Keyed(c), d \in NormalizeClaim(s, c, top)
      PROVE  Decided(s, d, top)
  BY <1>2, ClaimDecided
<1>3. ASSUME NEW c \in Candidates, ~Keyed(c), d \in NormalizeOther(s, c)
      PROVE  Decided(s, d, top)
  <2>1. c \in Texts
    BY <1>3 DEF Keyed, Candidates
  <2>2. CASE d = Decision("CREATE", c, None, {})
    BY <2>1, <2>2 DEF Decided, Decision
  <2>3. CASE \E i \in LiveIds(s) : d = Decision("CONFLICT", c, i, {})
    BY <2>3 DEF Decided, Decision
  <2>4. CASE \E i \in LiveIds(s) \ Current(s) : d = Decision("UPDATE", c, i, {})
    BY <2>1, <2>4 DEF Decided, Decision
  <2> QED
    BY <1>3, <2>2, <2>3, <2>4 DEF NormalizeOther
<1>4. \/ d \in {Decision("REJECT", c, None, {}) : c \in Candidates}
      \/ \E c \in Candidates :
           d \in IF Keyed(c) THEN NormalizeClaim(s, c, top) ELSE NormalizeOther(s, c)
  BY DEF Decisions
<1> QED
  BY <1>1, <1>2, <1>3, <1>4

\* Between the decisions of a batch that found the state z: no version a human
\* has to decide about has been retired, and as long as the version that scored
\* highest is in force, so are the others of the claim, or they have become one
\* with it for having its value.
Batch(z, s, top) ==
  /\ Good(s) /\ Onward(z, s) /\ Merged(z, s)
  /\ \A r \in z.pending : Live(s, r.target)
  /\ Live(s, top) =>
       \A k \in Current(z) :
         /\ s.mems[k].withdrawn = FALSE
         /\ \/ s.mems[k].by = None
            \/ /\ s.mems[k].by = top
               /\ Meaning(z.mems[k].text) = Meaning(z.mems[top].text)

\* A decision that retires nothing
LEMMA BatchStays ==
  ASSUME NEW z, Rested(z), NEW top, top \in Current(z) \/ Current(z) = {},
         NEW s, Batch(z, s, top), NEW t, Good(t), Onward(s, t),
         \A i \in Ids(s) : t.mems[i].by = s.mems[i].by
                           /\ t.mems[i].withdrawn = s.mems[i].withdrawn
  PROVE  Batch(z, t, top)
<1>1. Onward(z, t)
  BY OnwardBoth DEF Batch
<1>2. \A i \in Ids(z) : i \in Ids(s) /\ i \in Ids(t)
  BY <1>1 DEF Batch, Onward
<1>3. Merged(z, t)
  BY <1>2 DEF Batch, Merged
<1>4. \A i \in Ids(s) : Live(s, i) => Live(t, i)
  BY DEF Onward, Live
<1>5. \A r \in z.pending : Live(t, r.target)
  BY <1>4 DEF Batch, Live
<1>6. ASSUME NEW k \in Current(z), Live(t, top)
      PROVE  /\ t.mems[k].withdrawn = FALSE
             /\ \/ t.mems[k].by = None
                \/ /\ t.mems[k].by = top
                   /\ Meaning(z.mems[k].text) = Meaning(z.mems[top].text)
  <2>1. k \in Ids(z) /\ top \in Ids(z)
    BY DEF Current, LiveIds
  <2>2. k \in Ids(s) /\ Live(s, top)
    BY <1>2, <1>6, <2>1 DEF Onward
  <2> QED
    BY <2>2 DEF Batch
<1> QED
  BY <1>1, <1>3, <1>5, <1>6 DEF Batch

\* A version a human has to decide about was frozen in the state the batch found,
\* and still is.
LEMMA StillFrozen ==
  ASSUME NEW z, Rested(z), NEW top, NEW s, Batch(z, s, top), NEW r \in z.pending
  PROVE  /\ r.target \in Ids(z) /\ Live(z, r.target) /\ z.mems[r.target].frozen
         /\ Live(s, r.target) /\ s.mems[r.target].frozen
         /\ r.target \in Current(z) => AnyFrozen(z, Current(z))
<1>1. r.target \in Ids(z) /\ Live(z, r.target) /\ z.mems[r.target].frozen
  BY DEF Rested, Good, ReviewOK
<1>2. Live(s, r.target) /\ s.mems[r.target].frozen
  BY <1>1 DEF Batch, Onward
<1> QED
  BY <1>1, <1>2 DEF AnyFrozen

\* In a batch, the chains of the versions of the claim end with them or with the
\* one that scored highest.
InBatch(z, s, top, k) ==
  /\ k \in Ids(s) /\ s.mems[k].withdrawn = FALSE
  /\ s.mems[k].text = z.mems[k].text
  /\ Keyed(s.mems[k].text) /\ Live(z, k)
  /\ s.mems[k].by = None => Live(s, k) /\ Rep(s, k) = k
  /\ s.mems[k].by # None =>
       /\ s.mems[k].by = top /\ Rep(s, k) = top
       /\ Meaning(s.mems[k].text) = Meaning(s.mems[top].text)

LEMMA BatchChains ==
  ASSUME NEW z, NEW top, top \in Current(z),
         NEW s, Batch(z, s, top), Live(s, top), NEW k, k \in Current(z)
  PROVE  InBatch(z, s, top, k)
<1>1. \A i \in Current(z) :
        i \in Ids(z) /\ i \in Ids(s) /\ s.mems[i].text = z.mems[i].text /\ Live(z, i)
  BY DEF Current, LiveIds, Batch, Onward
<1>2. /\ s.mems[k].withdrawn = FALSE
      /\ \/ s.mems[k].by = None
         \/ /\ s.mems[k].by = top
            /\ Meaning(z.mems[k].text) = Meaning(z.mems[top].text)
  BY DEF Batch
<1>3. Chained(s) /\ top \in Ids(s) /\ s.mems[top].by = None
  BY DEF Batch, Good, Live
<1>4. Keyed(s.mems[k].text)
  BY <1>1 DEF Current
<1>5. Rep(s, top) = top
  BY <1>3, RepEnds
<1>6. CASE s.mems[k].by = None
  BY <1>1, <1>2, <1>3, <1>4, <1>5, <1>6, RepEnds DEF Live, InBatch
<1>7. CASE s.mems[k].by # None
  <2>1. Rep(s, k) = Rep(s, s.mems[k].by)
    BY <1>1, <1>3, <1>7, RepEnds
  <2> QED
    BY <1>1, <1>2, <1>4, <1>5, <1>7, <2>1 DEF InBatch
<1> QED
  BY <1>6, <1>7

\* EXIST: the versions of one value become one.
LEMMA ExistApplies ==
  ASSUME NEW z, Rested(z), NEW top \in Current(z),
         NEW s, Batch(z, s, top), Live(s, top),
         NEW related \in SUBSET Current(z),
         related # {} => ~AnyFrozen(z, Current(z)),
         \A i \in Current(z) : Meaning(z.mems[i].text) = Meaning(z.mems[top].text)
  PROVE  Batch(z, MergeAll(s, top, related), top)
<1> DEFINE old == {Rep(s, i) : i \in related} \ {top}
           t == Replace(s, old, top)
<1>0. \A k \in Current(z) : InBatch(z, s, top, k)
  BY BatchChains
<1>1. /\ s \in States /\ Chained(s) /\ top \in Ids(s) /\ s.mems[top].by = None
      /\ top \in Nat \ {None} /\ Rep(s, top) = top
  <2>1. s \in States /\ Chained(s) /\ top \in Ids(s) /\ s.mems[top].by = None
    BY DEF Batch, Good, Live
  <2> QED
    BY <2>1, Numbered, RepEnds
<1>2. MergeAll(s, top, related) = t
  BY <1>1 DEF MergeAll
<1>3. \A i \in old : i \in related /\ i \in Ids(s) /\ Live(s, i) /\ Rep(s, i) = i
  BY <1>0 DEF InBatch
<1>4. old \subseteq Ids(s) /\ old \subseteq related /\ top \notin old
  BY <1>3
<1>5. /\ Mapped(s, t)
      /\ \A i \in Ids(s) :
           /\ t.mems[i].text = s.mems[i].text
           /\ t.mems[i].by = IF i \in old THEN top ELSE s.mems[i].by
           /\ t.mems[i].withdrawn = s.mems[i].withdrawn
           /\ t.mems[i].frozen = s.mems[i].frozen
  BY <1>1, Replacing
<1> HIDE DEF old
<1>6. Chained(t)
  BY <1>1, <1>3, <1>4, ReplacedChain
<1> HIDE DEF t
<1>7. Onward(s, t)
  BY <1>1, <1>5 DEF Onward, Live, Mapped
<1>8. Good(t)
  BY <1>5, <1>6, <1>7, ReviewStays DEF Batch, Good, Mapped
<1>9. Onward(z, t)
  BY <1>7, OnwardBoth DEF Batch
<1>10. \A i \in Ids(z) : i \in Ids(s)
  BY DEF Batch, Onward
<1>11. Merged(z, t)
  <2>1. Live(z, top)
    BY <1>0 DEF InBatch
  <2> QED
    BY <1>5, <1>10, <2>1 DEF Batch, Merged
<1>12. ASSUME NEW r \in z.pending PROVE Live(t, r.target)
  <2>1. Live(s, r.target) /\ (r.target \in Current(z) => AnyFrozen(z, Current(z)))
    BY StillFrozen
  <2>2. r.target \notin old
    BY <1>4, <2>1
  <2> QED
    BY <1>5, <2>1, <2>2 DEF Live, Mapped
<1>13. ASSUME NEW k \in Current(z)
       PROVE  /\ t.mems[k].withdrawn = FALSE
              /\ \/ t.mems[k].by = None
                 \/ /\ t.mems[k].by = top
                    /\ Meaning(z.mems[k].text) = Meaning(z.mems[top].text)
  <2>1. /\ k \in Ids(s) /\ s.mems[k].withdrawn = FALSE
        /\ s.mems[k].by = None \/ s.mems[k].by = top
    BY <1>0 DEF InBatch
  <2> QED
    BY <1>5, <2>1
<1> QED
  BY <1>2, <1>8, <1>9, <1>11, <1>12, <1>13 DEF Batch

\* A proposal for a human
LEMMA ConflictApplies ==
  ASSUME NEW z, Rested(z), NEW top, top \in Current(z) \/ Current(z) = {},
         NEW s, Batch(z, s, top),
         NEW c \in Candidates, NEW target, Live(s, target),
         NEW related \in SUBSET Current(z),
         related # {} => target = top /\ top \in Current(z) /\ Keyed(c)
  PROVE  Batch(z, EnqueueReview(s, c, target, related), top)
<1> DEFINE t == EnqueueReview(s, c, target, related)
<1>1. Good(s) /\ target \in Ids(s)
  BY DEF Batch, Live
<1>2. related \in SUBSET Ids(s)
  BY DEF Batch, Onward, Current, LiveIds
<1>3. ASSUME NEW i \in related \ {target}
      PROVE  \/ Stamp(s, i) = <<None, FALSE>>
             \/ /\ Stamp(s, i) = <<target, FALSE>>
                /\ Keyed(s.mems[i].text) /\ Keyed(s.mems[target].text)
                /\ Meaning(s.mems[i].text) = Meaning(s.mems[target].text)
  <2>1. target = top /\ top \in Current(z) /\ i \in Current(z) /\ Live(s, top)
    OBVIOUS
  <2>2. /\ s.mems[i].withdrawn = FALSE /\ Keyed(s.mems[i].text)
        /\ s.mems[i].by # None =>
             /\ s.mems[i].by = top
             /\ Meaning(s.mems[i].text) = Meaning(s.mems[top].text)
    <3>1. InBatch(z, s, top, i)
      BY <2>1, BatchChains
    <3> QED
      BY <3>1 DEF InBatch
  <2>3. Keyed(s.mems[top].text)
    <3>1. InBatch(z, s, top, top)
      BY <2>1, BatchChains
    <3> QED
      BY <3>1 DEF InBatch
  <2> QED
    BY <2>1, <2>2, <2>3 DEF Stamp
<1>4. /\ Good(t) /\ Onward(s, t) /\ SameLinks(s, t)
      /\ \A i \in Ids(s) : t.mems[i].withdrawn = s.mems[i].withdrawn
  BY <1>1, <1>2, <1>3, Enqueued
<1> QED
  BY <1>4, BatchStays DEF SameLinks

\* UPDATE: what is put aside with the target is no version a human has to decide
\* about.
LEMMA UpdateTargets ==
  ASSUME NEW z, Rested(z), NEW top, NEW s, Batch(z, s, top),
         NEW d, Decided(z, d, top), d.act = "UPDATE",
         Live(s, d.target), ~s.mems[d.target].frozen
  PROVE  /\ d.related \cup {d.target} \in SUBSET Ids(s)
         /\ \A r \in z.pending : r.target \notin d.related \cup {d.target}
         /\ d.related = {} \/ (d.target = top /\ top \in Current(z))
         /\ \/ d.target = top /\ top \in Current(z)
            \/ d.target \notin Current(z) /\ d.related = {} /\ d.text \in Texts
<1>1. /\ d.target \in LiveIds(z) /\ d.related \subseteq Current(z)
      /\ \/ d.target = top /\ top \in Current(z) /\ ~AnyFrozen(z, Current(z))
         \/ d.related = {} /\ d.target \notin Current(z) /\ d.text \in Texts
  BY DEF Decided
<1>2. Ids(z) \subseteq Ids(s) /\ Current(z) \subseteq Ids(z)
  BY DEF Batch, Onward, Current, LiveIds
<1>3. d.target \in Ids(s)
  BY DEF Live
<1>4. ASSUME NEW r \in z.pending PROVE r.target \notin d.related \cup {d.target}
  <2>1. s.mems[r.target].frozen /\ (r.target \in Current(z) => AnyFrozen(z, Current(z)))
    BY StillFrozen
  <2> QED
    BY <1>1, <2>1
<1> QED
  BY <1>1, <1>2, <1>3, <1>4

\* ... and their chains end among them.
LEMMA UpdateChains ==
  ASSUME NEW z, Rested(z), NEW top, NEW s, Batch(z, s, top),
         NEW d, Decided(z, d, top), d.act = "UPDATE",
         Live(s, d.target), ~s.mems[d.target].frozen,
         NEW i \in d.related \cup {d.target}
  PROVE  Rep(s, i) \in d.related \cup {d.target}
<1>1. Chained(s) /\ d.target \in Ids(s) /\ s.mems[d.target].by = None
  BY DEF Batch, Good, Live
<1>2. Rep(s, d.target) = d.target
  BY <1>1, RepEnds
<1>3. CASE i \in d.related
  <2>1. d.related \subseteq Current(z)
    BY DEF Decided
  <2>2. d.target = top /\ top \in Current(z) /\ i \in Current(z)
    BY <1>3, <2>1, UpdateTargets
  <2>3. InBatch(z, s, top, i)
    BY <2>2, BatchChains
  <2>4. Rep(s, i) = i \/ Rep(s, i) = top
    BY <2>3 DEF InBatch
  <2> QED
    BY <1>3, <2>2, <2>4
<1> QED
  BY <1>2, <1>3

\* A claim that is withdrawn
LEMMA RetractApplies ==
  ASSUME NEW z, Rested(z), NEW top, top \in Current(z) \/ Current(z) = {},
         NEW s, Batch(z, s, top),
         NEW d, Decided(z, d, top), d.act = "UPDATE", d.text = Retraction,
         Live(s, d.target), ~s.mems[d.target].frozen
  PROVE  Batch(z, Withdraw(s, d.related \cup {d.target}), top)
<1> DEFINE I == d.related \cup {d.target}
           t == Withdraw(s, I)
<1>1. Good(s) /\ s \in States /\ Chained(s)
  BY DEF Batch, Good
<1>2. /\ I \in SUBSET Ids(s) /\ d.target \in I
      /\ \A r \in z.pending : r.target \notin I
      /\ d.target = top
  <2>1. d.text \notin Texts
    BY ConstantsAssumption
  <2> QED
    BY <2>1, UpdateTargets
<1> HIDE DEF I
<1>3. /\ Mapped(s, t)
      /\ \A i \in Ids(s) :
           /\ t.mems[i].text = s.mems[i].text
           /\ t.mems[i].by = s.mems[i].by
           /\ t.mems[i].withdrawn = (i \in I \/ s.mems[i].withdrawn)
           /\ t.mems[i].frozen = s.mems[i].frozen
  BY <1>1, Withdrawing
<1> HIDE DEF t
<1>4. SameLinks(s, t) /\ Onward(s, t)
  BY <1>3 DEF SameLinks, Onward, Live, Mapped
<1>5. Good(t)
  BY <1>1, <1>3, <1>4, SameChains, ReviewStays DEF Good, Mapped
<1>6. Onward(z, t) /\ \A i \in Ids(z) : i \in Ids(s)
  BY <1>4, OnwardBoth DEF Batch, Onward
<1>7. Merged(z, t)
  BY <1>3, <1>6 DEF Batch, Merged
<1>8. \A r \in z.pending : Live(t, r.target)
  BY <1>2, <1>3 DEF Batch, Live, Mapped
<1>9. ~Live(t, top)
  BY <1>2, <1>3 DEF Live
<1>10. Batch(z, t, top)
  BY <1>5, <1>6, <1>7, <1>8, <1>9 DEF Batch
<1> QED
  BY <1>10 DEF t, I

\* A memory that takes the place of others
LEMMA ReplaceApplies ==
  ASSUME NEW z, Rested(z), NEW top, top \in Current(z) \/ Current(z) = {},
         NEW s, Batch(z, s, top),
         NEW d, Decided(z, d, top), d.act = "UPDATE", d.text \in Texts,
         Live(s, d.target), ~s.mems[d.target].frozen,
         NEW p, Added(s, p, d.text)
  PROVE  Batch(z, Replace(p, d.related \cup {d.target}, Len(p.mems)), top)
<1> DEFINE I == d.related \cup {d.target}
           n == Len(p.mems)
           t == Replace(p, I, n)
<1>1. Good(s) /\ s \in States /\ Chained(s)
  BY DEF Batch, Good
<1>2. /\ I \in SUBSET Ids(s) /\ d.target \in I
      /\ \A r \in z.pending : r.target \notin I
      /\ d.target = top \/ (I = {d.target} /\ d.target \notin Current(z))
  BY UpdateTargets
<1>3. \A i \in I : Rep(s, i) \in I
  BY UpdateChains
<1> HIDE DEF I
<1>4. /\ t \in States /\ Chained(t) /\ t.pending = s.pending
      /\ n \in Ids(t) \ Ids(s) /\ Ids(t) = Ids(s) \cup {n} /\ n # None
      /\ \A i \in Ids(s) :
           /\ t.mems[i].text = s.mems[i].text
           /\ t.mems[i].by = IF i \in I THEN n ELSE s.mems[i].by
           /\ t.mems[i].withdrawn = s.mems[i].withdrawn
           /\ t.mems[i].frozen = s.mems[i].frozen
  BY <1>1, <1>2, <1>3, Succeeded
<1> HIDE DEF t, n
<1>5. Onward(s, t)
  BY <1>4 DEF Onward, Live
<1>6. Good(t)
  BY <1>1, <1>4, <1>5, ReviewStays DEF Good
<1>7. Onward(z, t) /\ \A i \in Ids(z) : i \in Ids(s)
  BY <1>5, OnwardBoth DEF Batch, Onward
<1>8. Merged(z, t)
  BY <1>4, <1>7 DEF Batch, Merged
<1>9. \A r \in z.pending : Live(t, r.target)
  BY <1>2, <1>4 DEF Batch, Live
<1>10. ASSUME NEW k \in Current(z), Live(t, top)
       PROVE  /\ t.mems[k].withdrawn = FALSE
              /\ \/ t.mems[k].by = None
                 \/ /\ t.mems[k].by = top
                    /\ Meaning(z.mems[k].text) = Meaning(z.mems[top].text)
  <2>1. top # d.target /\ k \notin I
    BY <1>2, <1>4, <1>10 DEF Live
  <2>2. k \in Ids(s) /\ top \in Ids(z)
    BY <1>7, <1>10 DEF Current, LiveIds
  <2>3. Live(s, top)
    BY <1>5, <1>7, <1>10, <2>2 DEF Onward
  <2> QED
    BY <1>4, <2>1, <2>2, <2>3 DEF Batch
<1>11. Batch(z, t, top)
  BY <1>6, <1>7, <1>8, <1>9, <1>10 DEF Batch
<1> QED
  BY <1>11 DEF t, I, n

\* A memory that is only added
LEMMA CreateApplies ==
  ASSUME NEW z, Rested(z), NEW top, top \in Current(z) \/ Current(z) = {},
         NEW s, Batch(z, s, top), NEW c \in Texts, NEW t \in Propose(s, c)
  PROVE  Batch(z, t, top)
<1>1. Good(s) /\ s \in States /\ Chained(s)
  BY DEF Batch, Good
<1>2. CASE t = s
  BY <1>2
<1>3. CASE Added(s, t, c)
  <2>1. /\ t \in States /\ t.pending = s.pending
        /\ \A i \in Ids(s) : i \in Ids(t) /\ t.mems[i] = s.mems[i]
    BY <1>3 DEF Added
  <2>2. Chained(t)
    BY <1>1, <1>3, AddedChain
  <2>3. Onward(s, t)
    BY <2>1 DEF Onward, Live
  <2>4. Good(t)
    BY <1>1, <2>1, <2>2, <2>3, ReviewStays DEF Good
  <2> QED
    BY <2>1, <2>3, <2>4, BatchStays
<1> QED
  BY <1>1, <1>2, <1>3, Proposing

\* Whatever a decision leads to, the next one finds a batch in order.
LEMMA DecisionApplies ==
  ASSUME NEW z, Rested(z), NEW top, top \in Current(z) \/ Current(z) = {},
         NEW s, Batch(z, s, top), NEW d, Decided(z, d, top), NEW t \in Apply(s, d)
  PROVE  Batch(z, t, top)
<1>1. CASE d.act = "REJECT"
  <2>1. t = s
    BY <1>1 DEF Apply
  <2> QED
    BY <2>1
<1>2. CASE d.act = "CREATE"
  <2>1. t \in Propose(s, d.text) /\ d.text \in Texts
    BY <1>2 DEF Apply, Decided
  <2> QED
    BY <2>1, CreateApplies
<1>3. CASE d.act = "EXIST"
  <2>1. Live(s, d.target) /\ t = MergeAll(s, d.target, d.related)
    BY <1>3 DEF Apply
  <2>2. /\ d.target = top /\ top \in Current(z) /\ d.related \in SUBSET Current(z)
        /\ d.related # {} => ~AnyFrozen(z, Current(z))
        /\ \A i \in Current(z) : Meaning(z.mems[i].text) = Meaning(z.mems[top].text)
    BY <1>3 DEF Decided
  <2> QED
    BY <2>1, <2>2, ExistApplies
<1>4. CASE d.act = "CONFLICT"
  <2>1. Live(s, d.target) /\ t = EnqueueReview(s, d.text, d.target, d.related)
    BY <1>4 DEF Apply
  <2>2. /\ d.text \in Candidates /\ d.related \in SUBSET Current(z)
        /\ d.related # {} => d.target = top /\ top \in Current(z) /\ Keyed(d.text)
    BY <1>4 DEF Decided
  <2> QED
    BY <2>1, <2>2, ConflictApplies
<1>5. CASE d.act = "UPDATE" /\ s.mems[d.target].frozen
  <2>1. Live(s, d.target) /\ t = EnqueueReview(s, d.text, d.target, d.related)
    BY <1>5 DEF Apply
  <2>2. /\ d.text \in Candidates /\ d.related \in SUBSET Current(z)
        /\ d.related # {} => d.target = top /\ top \in Current(z) /\ Keyed(d.text)
    BY <1>5 DEF Decided
  <2> QED
    BY <2>1, <2>2, ConflictApplies
<1>6. CASE d.act = "UPDATE" /\ ~s.mems[d.target].frozen
  <2>1. Live(s, d.target) /\ t \in ApplyUpdate(s, d)
    BY <1>6 DEF Apply
  <2>2. CASE d.text = Retraction
    <3>1. t = Withdraw(s, d.related \cup {d.target})
      BY <2>1, <2>2 DEF ApplyUpdate
    <3> QED
      BY <1>6, <2>1, <2>2, <3>1, RetractApplies
  <2>3. CASE d.text # Retraction /\ Same(s, d.text) # {}
    <3>1. t = s
      BY <2>1, <2>3 DEF ApplyUpdate
    <3> QED
      BY <3>1
  <2>4. CASE d.text # Retraction /\ Same(s, d.text) = {}
    <3>1. d.text \in Texts
      BY <1>6, <2>4 DEF Decided, Candidates
    <3>2. PICK p \in Propose(s, d.text) :
            t = Replace(p, d.related \cup {d.target}, Len(s.mems) + 1)
      BY <2>1, <2>4 DEF ApplyUpdate
    <3>3. s \in States
      BY DEF Batch, Good
    <3>4. Added(s, p, d.text)
      BY <2>4, <3>1, <3>2, <3>3, Proposing
    <3>5. Len(p.mems) = Len(s.mems) + 1
      BY <3>4 DEF Added
    <3> QED
      BY <1>6, <2>1, <3>1, <3>2, <3>4, <3>5, ReplaceApplies
  <2> QED
    BY <2>2, <2>3, <2>4
<1> QED
  BY <1>1, <1>2, <1>3, <1>4, <1>5, <1>6 DEF Decided

\* The end of a batch
LEMMA BatchEnds ==
  ASSUME Rested(S), NEW top, NEW s, Batch(S, s, top), Become(CloseRetiredRelations(s))
  PROVE  /\ Rested(S') /\ Merged(S, S')
         /\ \A r \in pending : Live(S', r.target)
<1> DEFINE t == CloseRetiredRelations(s)
<1>1. /\ Good(t) /\ Onward(s, t) /\ SameLinks(s, t)
      /\ \A i \in Ids(s) : t.mems[i].withdrawn = s.mems[i].withdrawn
      /\ \A r \in t.pending : Live(t, r.target)
      /\ \A p \in t.tensions : p \subseteq LiveIds(t)
  BY Cleared DEF Batch
<1> HIDE DEF t
<1>2. t \in States /\ S.pending = pending
  BY <1>1 DEF Good, S
<1>3. S' = t
  BY <1>2, BecomeIs DEF t
<1>4. Rested(t)
  <2>1. Chained(t)
    BY <1>1 DEF Good
  <2>2. \A p \in t.tensions : TensionOK(t, p)
    BY <1>1, <2>1, LiveEnds
  <2> QED
    BY <1>1, <2>2 DEF Rested
<1>5. Merged(S, t)
  BY <1>1 DEF Batch, Merged, Onward, SameLinks
<1>6. \A r \in pending : Live(t, r.target)
  BY <1>1, <1>2 DEF Batch, SameLinks, Live
<1> QED
  BY <1>3, <1>4, <1>5, <1>6

\* The batch of the Selector
LEMMA SelectStep ==
  ASSUME Rested(S), Select
  PROVE  /\ Rested(S') /\ Merged(S, S')
         /\ \A r \in pending : Live(S', r.target)
<1>1. S \in States /\ S.pending = pending
  BY DEF Rested, Good, S
<1>2. PICK top \in Current(S) \cup {x \in {None} : Current(S) = {}} :
        \E d1, d2 \in Decisions(S, top) : \E s1 \in Apply(S, d1) : \E s2 \in Apply(s1, d2) :
          Become(CloseRetiredRelations(s2))
  BY DEF Select
<1>3. PICK d1 \in Decisions(S, top), d2 \in Decisions(S, top) :
        \E s1 \in Apply(S, d1) : \E s2 \in Apply(s1, d2) :
          Become(CloseRetiredRelations(s2))
  BY <1>2
<1>4. PICK s1 \in Apply(S, d1) :
        \E s2 \in Apply(s1, d2) : Become(CloseRetiredRelations(s2))
  BY <1>3
<1>5. PICK s2 \in Apply(s1, d2) : Become(CloseRetiredRelations(s2))
  BY <1>4
<1>6. top \in Current(S) \/ Current(S) = {}
  OBVIOUS
<1>7. Decided(S, d1, top) /\ Decided(S, d2, top)
  BY <1>1, <1>6, DecisionDecided
<1>8. Batch(S, S, top)
  <2>1. Good(S) /\ Onward(S, S) /\ Merged(S, S)
    BY DEF Rested, Onward, Merged
  <2>2. \A r \in S.pending : Live(S, r.target)
    BY DEF Rested
  <2>3. \A k \in Current(S) : S.mems[k].by = None /\ S.mems[k].withdrawn = FALSE
    <3>1. \A k \in Current(S) : k \in Ids(S) /\ Live(S, k)
      BY DEF Current, LiveIds
    <3>2. \A k \in Ids(S) : S.mems[k].withdrawn \in BOOLEAN
      BY <1>1, Numbered DEF Mems
    <3> QED
      BY <3>1, <3>2 DEF Live
  <2> QED
    BY <2>1, <2>2, <2>3 DEF Batch
<1>9. Batch(S, s1, top)
  BY <1>6, <1>7, <1>8, DecisionApplies
<1>10. Batch(S, s2, top)
  BY <1>6, <1>7, <1>9, DecisionApplies
<1> QED
  BY <1>5, <1>10, BatchEnds

-----------------------------------------------------------------------------
(* What holds of every behaviour                                           *)

\* At first there is nothing.
LEMMA InitRests ==
  ASSUME Init
  PROVE  Rested(S)
<1>1. S.mems = <<>> /\ S.pending = {} /\ S.tensions = {}
  BY DEF Init, S
<1>2. S \in States
  BY DEF Init, S, States
<1>3. Ids(S) = {}
  BY <1>1 DEF Ids
<1>4. IsRep(S, [i \in Ids(S) |-> i])
  BY <1>3 DEF IsRep
<1>5. Chained(S)
  BY <1>4 DEF Chained
<1> QED
  BY <1>1, <1>2, <1>5 DEF Rested, Good

\* A step that is taken, or none.
LEMMA StepRests ==
  ASSUME Rested(S), [Next]_vars
  PROVE  /\ Rested(S') /\ Merged(S, S')
         /\ Decide \/ \A r \in pending : Live(S', r.target)
<1>1. S.pending = pending /\ \A r \in pending : Live(S, r.target)
  BY DEF Rested, S
<1>2. pending' = pending /\ Rested(S') => \A r \in pending : Live(S', r.target)
  BY DEF Rested, S
<1>3. CASE Select
  BY <1>3, SelectStep
<1>4. CASE Suppress
  BY <1>2, <1>4, SuppressStep
<1>5. CASE Verdict
  BY <1>2, <1>5, VerdictStep
<1>6. CASE Decide
  <2>1. PICK r \in pending : Fresh(r) /\ (KeepOld(r) \/ AcceptNew(r))
    BY <1>6 DEF Decide
  <2>2. Rested(S') /\ Merged(S, S')
    BY <2>1, KeepStep, AcceptStep
  <2> QED
    BY <1>6, <2>2
<1>7. CASE UNCHANGED vars
  <2>1. S' = S
    BY <1>7 DEF vars, S
  <2>2. Merged(S, S)
    BY DEF Merged
  <2> QED
    BY <1>1, <2>1, <2>2
<1> QED
  BY <1>3, <1>4, <1>5, <1>6, <1>7 DEF Next

IInv == Rested(S)

\* Every state between transactions is at rest.
LEMMA Invariance == Spec => []IInv
<1>1. Init => IInv
  BY InitRests DEF IInv
<1>2. IInv /\ [Next]_vars => IInv'
  BY StepRests DEF IInv
<1> QED
  BY <1>1, <1>2, PTL DEF Spec

\* Every chain of replacements ends, with a memory that was not replaced itself:
\* merges, updates and human decisions never close a ring (follow_chain).
THEOREM ChainsEnd ==
  Spec => [](\A i \in Ids(S) : Rep(S, i) \in Ids(S) /\ mems[Rep(S, i)].by = None)
<1>1. IInv => \A i \in Ids(S) : Rep(S, i) \in Ids(S) /\ mems[Rep(S, i)].by = None
  <2> SUFFICES ASSUME IInv, NEW i \in Ids(S)
               PROVE  Rep(S, i) \in Ids(S) /\ mems[Rep(S, i)].by = None
    OBVIOUS
  <2>1. Chained(S) /\ S.mems = mems
    BY DEF IInv, Rested, Good, S
  <2> QED
    BY <2>1, RepEnds
<1> QED
  BY <1>1, Invariance, PTL

\* A review that waits is about a version in force, and that version is frozen,
\* whatever was enqueued, merged, withdrawn or decided in between
\* (enqueue_review, close_retired_relations, decide_human_review).
THEOREM TargetsFrozen == Spec => []TargetsAreFrozen
<1>1. IInv => TargetsAreFrozen
  BY DEF IInv, Rested, Good, ReviewOK, TargetsAreFrozen, S
<1> QED
  BY <1>1, Invariance, PTL

\* Neither a batch of the Selector, nor a retrieval, nor a verdict of the semantic
\* worker retires the target of a review that waits (apply_selector,
\* apply_conflict, submit_verdicts).
THEOREM FreezeFirst == Spec => FreezeGoesFirst
<1>1. ASSUME IInv, [Next]_vars
      PROVE  [(\E r \in pending : Live(S, r.target) /\ ~Live(S, r.target)') => Decide]_vars
  BY <1>1, StepRests DEF IInv
<1> QED
  BY <1>1, Invariance, PTL DEF Spec, FreezeGoesFirst

\* No version is retired in favour of one that had been retired before, so none
\* disappears behind a version the user withdrew (submit_verdicts, merge_pair,
\* decide_human_review, apply_selector).
THEOREM NoneIntoRetired == Spec => NothingMergedIntoRetired
<1>1. ASSUME IInv, [Next]_vars
      PROVE  [\A i \in DOMAIN mems :
                mems[i].by = None /\ mems'[i].by # None /\ mems'[i].by \in Ids(S)
                  => Live(S, mems'[i].by)]_vars
  <2>1. Merged(S, S') /\ Ids(S) = DOMAIN mems /\ S.mems = mems /\ (S').mems = mems'
    BY <1>1, StepRests DEF IInv, Ids, S
  <2> QED
    BY <2>1 DEF Merged
<1> QED
  BY <1>1, Invariance, PTL DEF Spec, NothingMergedIntoRetired
=============================================================================
