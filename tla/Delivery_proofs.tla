--------------------------- MODULE Delivery_proofs ---------------------------
(***************************************************************************)
(* Proofs about the delivery of turns, for any number of turns, attempts   *)
(* and failed writes and whatever is retrieved, empty or refused: the      *)
(* evidence log holds every turn once and in order, a retrieval is         *)
(* credited once and after its turn, and no turn leaves the outbox file    *)
(* before it is dealt with.                                                *)
(*                                                                         *)
(* The inductive invariant says what a mark in the outbox means at the     *)
(* sidecar.  The plugin changes marks and never the sidecar, the sidecar   *)
(* the other way round and only forward (Grows), so a mark that was right  *)
(* stays right (ItemKept).  The order of the log rests on what was dealt   *)
(* with before a request was first sent (OrderOK), the single credit on    *)
(* feedback ids that belong to one turn each (IdsOK).                      *)
(***************************************************************************)
EXTENDS Delivery, TLAPS

\* Logged, and credited unless there is nothing to credit any more.
Finished(t) == Logged(t) /\ (t \in registry \ Empty => credit[t] = 1)

\* What the marks of a turn in the outbox say about the sidecar.
ItemOK(t, item) ==
  /\ item.observe = "open" => item.feedback = "open"
  /\ item.observe = "done" => Logged(t)
  /\ item.observe = "terminal" => t \in Rejected
  /\ item.observe = "done" /\ item.feedback # "open" => Finished(t)
  /\ item.fid \in 0 .. minted

BoxOK(box) == \A t \in DOMAIN box : t \in 1 .. captured /\ ItemOK(t, box[t])

\* The flush is in the middle of a turn it has, and waits for what it sent.
PlaceOK ==
  /\ pc # "idle" => loaded
  /\ pc \in {"observe", "credit", "feedback"} => cur \in DOMAIN outbox
  /\ pc = "observe" => outbox[cur].observe = "open"
  /\ pc \in {"credit", "feedback"} => outbox[cur].observe = "done"
  /\ pc = "feedback" => outbox[cur].fid # 0
  /\ pc \in {"observe", "feedback"} => Current \in net

\* An answer that waits to be read is true.
AnswerOK ==
  /\ answer # "none" => pc \in {"observe", "feedback"}
  /\ pc = "observe" /\ answer = "accepted" => Logged(cur)
  /\ pc = "observe" /\ answer = "refused" => cur \in Rejected
  /\ pc = "feedback" /\ answer \in {"accepted", "refused"} => Finished(cur)

\* What is only in the file is dealt with.
FileOK == loaded => \A t \in DOMAIN file : t \in DOMAIN outbox \/ Finished(t)

\* Whatever is still on its way is about a captured turn.
NetOK ==
  \A r \in net :
    /\ r.turn \in 1 .. captured
    /\ r.id \in 0 .. minted
    /\ r.path = "feedback" => r.id # 0 /\ Logged(r.turn)

\* A feedback id belongs to one turn, which is dealt with once the id has a
\* receipt.
Issued(t, id) ==
  \/ Request("feedback", t, id) \in net
  \/ t \in DOMAIN outbox /\ outbox[t].fid = id
  \/ t \in DOMAIN file /\ file[t].fid = id

IdsOK ==
  /\ receipts \subseteq 1 .. minted
  /\ \A id \in 1 .. minted, t, u \in Turns : Issued(t, id) /\ Issued(u, id) => t = u
  /\ \A id \in receipts, t \in Turns : Issued(t, id) => Finished(t)

\* As long as every write succeeds, a turn is only sent when those before it are
\* in the log or refused.
Past(t) == Logged(t) \/ t \in Rejected
OrderOK ==
  lost = 0 =>
    /\ \A u \in 1 .. captured :
         /\ loaded => u \in DOMAIN outbox \/ Logged(u)
         /\ u \in DOMAIN file \/ Logged(u)
    /\ \A r \in net : r.path = "observe" => \A u \in 1 .. r.turn - 1 : Past(u)
    /\ \A n \in DOMAIN units : \A u \in 1 .. units[n] - 1 : Past(u)

RegistryOK == registry \subseteq Retrieved \cap (1 .. captured)

IInv ==
  /\ TypeOK
  /\ BoxOK(outbox) /\ BoxOK(file)
  /\ PlaceOK /\ AnswerOK /\ FileOK /\ NetOK /\ IdsOK /\ OrderOK /\ RegistryOK
  /\ LogInTurnOrder /\ CreditOnceAndAfter

\* The sidecar only moves forward.
Grows ==
  /\ captured' \in Nat /\ captured <= captured' /\ captured' <= MaxTurns
  /\ minted' \in Nat /\ minted <= minted'
  /\ \A t \in Turns : Logged(t) => Logged(t)'
  /\ \A t \in 1 .. captured : t \in registry' => t \in registry
  /\ \A t \in Turns : credit[t] = 1 => credit'[t] = 1

LEMMA ItemKept ==
  ASSUME TypeOK, Grows, NEW t \in 1 .. captured, NEW item, ItemOK(t, item)
  PROVE  ItemOK(t, item)'
BY ConstantsAssumption DEF TypeOK, Grows, ItemOK, Finished, Turns

LEMMA FinishedKept ==
  ASSUME TypeOK, Grows, NEW t \in 1 .. captured, Finished(t)
  PROVE  Finished(t)'
BY ConstantsAssumption DEF TypeOK, Grows, Finished, Turns

LEMMA RetainedPart ==
  ASSUME NEW box, IsOutbox(box)
  PROVE  /\ DOMAIN Retained(box) \subseteq DOMAIN box
         /\ \A t \in DOMAIN Retained(box) : Retained(box)[t] = box[t]
         /\ \A t \in DOMAIN box \ DOMAIN Retained(box) :
              box[t].observe = "done" /\ box[t].feedback # "open"
         /\ IsOutbox(Retained(box))
<1>1. DOMAIN Retained(box) = {t \in DOMAIN box : Unsettled(box[t]) \/ box[t].observe = "terminal"}
  BY DEF Retained
<1>2. \A t \in DOMAIN Retained(box) : Retained(box)[t] = box[t]
  BY DEF Retained
<1>3. \A t \in DOMAIN box : box[t] \in Items
  BY DEF IsOutbox
<1>4. \A t \in DOMAIN box : box[t].observe \in Marks /\ box[t].feedback \in Marks
  BY <1>3 DEF Items
<1> QED
  BY <1>1, <1>2, <1>4 DEF IsOutbox, Unsettled, Marks

LEMMA InitIInv == Init => IInv
<1> SUFFICES ASSUME Init PROVE IInv
  OBVIOUS
<1>1. DOMAIN outbox = {} /\ DOMAIN file = {} /\ units = << >> /\ units \in Seq(Turns) /\ DOMAIN units = {}
  BY DEF Init, Nothing
<1>2. TypeOK
  <2>1. IsOutbox(outbox) /\ IsOutbox(file)
    BY <1>1 DEF IsOutbox
  <2>2. captured \in 0 .. MaxTurns /\ cur \in 0 .. MaxTurns /\ tries \in 0 .. Attempts
    BY ConstantsAssumption DEF Init
  <2>3. lost \in 0 .. MaxLost /\ credit \in [Turns -> Nat] /\ minted \in Nat
    BY ConstantsAssumption DEF Init
  <2> QED
    BY <1>1, <2>1, <2>2, <2>3 DEF Init, TypeOK, Steps, Answers
<1> QED
  BY <1>1, <1>2, ConstantsAssumption
  DEF Init, IInv, BoxOK, PlaceOK, AnswerOK, FileOK, NetOK, IdsOK, OrderOK,
      RegistryOK, LogInTurnOrder, CreditOnceAndAfter, Turns

-----------------------------------------------------------------------------
(* The sidecar moves forward                                               *)

LEMMA LogGrows ==
  ASSUME TypeOK, NEW t \in Turns, units' = Append(units, t)
  PROVE  /\ units' \in Seq(Turns)
         /\ DOMAIN units = 1 .. Len(units)
         /\ DOMAIN units' = 1 .. (Len(units) + 1)
         /\ \A n \in DOMAIN units : n \in DOMAIN units' /\ units'[n] = units[n]
         /\ units'[Len(units) + 1] = t
         /\ \A u : Logged(u)' <=> Logged(u) \/ u = t
<1>1. units \in Seq(Turns) /\ Len(units) \in Nat
  BY DEF TypeOK
<1>2. /\ units' \in Seq(Turns)
      /\ DOMAIN units = 1 .. Len(units)
      /\ DOMAIN units' = 1 .. (Len(units) + 1)
      /\ \A n \in 1 .. Len(units) : units'[n] = units[n]
      /\ units'[Len(units) + 1] = t
  BY <1>1
<1>3. \A u : Logged(u)' <=> Logged(u) \/ u = t
  BY <1>1, <1>2 DEF Logged
<1> QED
  BY <1>1, <1>2, <1>3

LEMMA SameGrows ==
  ASSUME TypeOK, UNCHANGED <<captured, minted, units, credit>>, registry' \subseteq registry
  PROVE  Grows
BY ConstantsAssumption DEF TypeOK, Grows, Logged

LEMMA CaptureGrows ==
  ASSUME TypeOK, Capture
  PROVE  Grows
BY ConstantsAssumption DEF TypeOK, Capture, Grows, Logged

LEMMA ServeGrows ==
  ASSUME IInv, NEW r \in net, Serve(r) \/ ServeRefused(r)
  PROVE  Grows /\ UNCHANGED <<plugin, net, registry>>
<1> USE ConstantsAssumption DEF IInv
<1>0. r \in Requests /\ r.turn \in Turns
  BY DEF TypeOK, Requests
<1>1. CASE ServeObserve(r)
  <2>1. UNCHANGED <<plugin, net, registry, credit>>
    BY <1>1 DEF ServeObserve, Reply
  <2>2. \A t \in Turns : Logged(t) => Logged(t)'
    BY <1>0, <1>1, LogGrows DEF ServeObserve, Logged
  <2> QED
    BY <2>1, <2>2 DEF TypeOK, Grows, plugin
<1>2. CASE ServeFeedback(r)
  <2>1. UNCHANGED <<plugin, net, registry, units>>
    BY <1>2 DEF ServeFeedback, Reply
  <2>2. \A t \in Turns : credit[t] = 1 => credit'[t] = 1
    BY <1>2 DEF ServeFeedback, TypeOK
  <2> QED
    BY <2>1, <2>2 DEF TypeOK, Grows, plugin, Logged
<1>3. CASE ServeRejected(r)
  BY <1>3, SameGrows DEF ServeRejected, Reply, plugin, sidecar
<1>4. CASE ServeTooLarge(r)
  BY <1>4, SameGrows DEF ServeTooLarge, Reply, plugin, sidecar
<1>5. CASE ServeRefused(r)
  BY <1>5, SameGrows DEF ServeRefused, Reply, plugin, sidecar
<1> QED
  BY <1>1, <1>2, <1>3, <1>4, <1>5 DEF Serve

-----------------------------------------------------------------------------
(* Steps of the sidecar                                                    *)

\* The plugin's marks stay right while the plugin itself does not move.
LEMMA PluginStill ==
  ASSUME IInv, Grows, UNCHANGED <<plugin, net>>
  PROVE  /\ BoxOK(outbox)' /\ BoxOK(file)' /\ PlaceOK' /\ FileOK' /\ NetOK'
         /\ \A t \in Turns : \A id : Issued(t, id)' <=> Issued(t, id)
<1> USE DEF IInv, plugin
<1>1. BoxOK(outbox)' /\ BoxOK(file)'
  BY ItemKept DEF BoxOK
<1>2. PlaceOK'
  BY DEF PlaceOK, Current
<1>3. FileOK'
  BY FinishedKept DEF FileOK, BoxOK
<1>4. NetOK'
  BY DEF NetOK, Grows, TypeOK, Requests
<1>5. \A t \in Turns : \A id : Issued(t, id)' <=> Issued(t, id)
  BY DEF Issued
<1> QED
  BY <1>1, <1>2, <1>3, <1>4, <1>5

\* What an answer says is true of the request it answers.
TrueReply(r, a) ==
  /\ r.path = "observe" /\ a = "accepted" => Logged(r.turn)
  /\ r.path = "observe" /\ a = "refused" => r.turn \in Rejected
  /\ r.path = "feedback" /\ a \in {"accepted", "refused"} => Finished(r.turn)

LEMMA ReplyOK ==
  ASSUME IInv, Grows, NEW r \in net, NEW a \in Answers, Reply(r, a), TrueReply(r, a)'
  PROVE  AnswerOK' /\ answer' \in Answers
<1> USE DEF IInv, plugin
<1>1. UNCHANGED <<pc, cur, outbox>>
  BY DEF Reply
<1>2. CASE UNCHANGED answer
  <2>1. pc \in {"observe", "feedback"} => cur \in 1 .. captured
    BY DEF PlaceOK, BoxOK
  <2>2. pc = "observe" /\ answer = "accepted" => Logged(cur)'
    BY <1>1, <2>1 DEF AnswerOK, Grows, TypeOK, Turns, Logged
  <2>3. pc = "feedback" /\ answer \in {"accepted", "refused"} => Finished(cur)'
    BY <1>1, <2>1, FinishedKept DEF AnswerOK, Finished, Logged
  <2> QED
    BY <1>1, <1>2, <2>2, <2>3 DEF AnswerOK, TypeOK
<1>3. CASE pc \in {"observe", "feedback"} /\ r = Current /\ answer' = a
  <2>1. r.path = pc /\ r.turn = cur
    BY <1>3 DEF Current, Request
  <2> QED
    BY <1>1, <1>3, <2>1 DEF AnswerOK, TrueReply
<1> QED
  BY <1>2, <1>3 DEF Reply

LEMMA ObserveServed ==
  ASSUME IInv, NEW r \in net, ServeObserve(r)
  PROVE  IInv'
<1> USE ConstantsAssumption DEF IInv
<1>0. Grows /\ UNCHANGED <<plugin, net, registry, receipts, credit>>
  BY ServeGrows DEF Serve, ServeObserve
<1>1. r \in Requests /\ r.turn \in Turns /\ r.path = "observe" /\ r.turn \notin Rejected
  BY DEF TypeOK, Requests, ServeObserve
<1>2. PICK outcome \in Outcomes : Reply(r, ObserveReply(outcome))
  BY DEF ServeObserve
<1>3. ObserveReply(outcome) \in {"retry", "accepted"}
  BY DEF ObserveReply
<1>4. Logged(r.turn)'
  BY <1>1, LogGrows DEF ServeObserve, Logged
<1>5. AnswerOK' /\ answer' \in Answers
  BY <1>0, <1>1, <1>2, <1>3, <1>4, ReplyOK DEF TrueReply, Answers
<1>6. TypeOK'
  <2>1. units' \in Seq(Turns)
    BY <1>1, LogGrows DEF ServeObserve, TypeOK
  <2> QED
    BY <1>0, <1>5, <2>1 DEF TypeOK, plugin
<1>7. IdsOK'
  BY <1>0, PluginStill, FinishedKept DEF IdsOK, plugin, Issued, BoxOK, NetOK, Request
<1>8. CreditOnceAndAfter'
  BY <1>0 DEF CreditOnceAndAfter, Grows, TypeOK
<1>9. OrderOK' /\ LogInTurnOrder'
  <2>1. CASE Logged(r.turn)
    <3>1. units' = units
      BY <2>1 DEF ServeObserve
    <3> QED
      BY <1>0, <3>1 DEF OrderOK, LogInTurnOrder, Past, Logged, plugin
  <2>2. CASE ~Logged(r.turn)
    <3>1. units' = Append(units, r.turn)
      BY <2>2 DEF ServeObserve
    <3> DEFINE last == Len(units) + 1
    <3>2. /\ Len(units) \in Nat /\ DOMAIN units = 1 .. Len(units)
          /\ DOMAIN units' = 1 .. last
          /\ \A n \in 1 .. Len(units) : units'[n] = units[n] /\ units[n] \in Turns
          /\ units'[last] = r.turn
          /\ \A u : Logged(u)' <=> Logged(u) \/ u = r.turn
      BY <1>1, <3>1, LogGrows DEF TypeOK
    <3>3. \A u : Past(u) => Past(u)'
      BY <3>2 DEF Past
    <3>4. \A n \in 1 .. Len(units) : units[n] # r.turn
      BY <2>2, <3>2 DEF Logged
    <3>5. lost = 0 => \A n \in 1 .. Len(units) : units[n] < r.turn
      <4> SUFFICES ASSUME lost = 0, NEW n \in 1 .. Len(units) PROVE units[n] < r.turn
        OBVIOUS
      <4>1. ~Past(r.turn)
        BY <1>1, <2>2 DEF Past
      <4>2. \A u \in 1 .. units[n] - 1 : Past(u)
        BY <3>2 DEF OrderOK
      <4> QED
        BY <1>1, <3>2, <3>4, <4>1, <4>2 DEF Turns
    <3>6. LogInTurnOrder'
      <4> SUFFICES ASSUME NEW m \in 1 .. last, NEW n \in 1 .. last, m < n
                   PROVE  units'[m] # units'[n] /\ (lost' = 0 => units'[m] < units'[n])
        BY <3>2 DEF LogInTurnOrder
      <4>1. m \in 1 .. Len(units) /\ lost' = lost
        BY <1>0, <3>2 DEF plugin
      <4>2. CASE n = last
        BY <3>2, <3>4, <3>5, <4>1, <4>2
      <4>3. CASE n \in 1 .. Len(units)
        BY <3>2, <4>1, <4>3 DEF LogInTurnOrder
      <4> QED
        BY <3>2, <4>2, <4>3
    <3>7. OrderOK'
      <4> SUFFICES ASSUME lost = 0 PROVE OrderOK'
        BY <1>0 DEF OrderOK, plugin
      <4>1. \A u \in 1 .. captured :
              /\ loaded => u \in DOMAIN outbox \/ Logged(u)'
              /\ u \in DOMAIN file \/ Logged(u)'
        BY <3>2 DEF OrderOK
      <4>2. \A q \in net : q.path = "observe" => \A u \in 1 .. q.turn - 1 : Past(u)'
        BY <3>3 DEF OrderOK
      <4>3. \A n \in DOMAIN units' : \A u \in 1 .. units'[n] - 1 : Past(u)'
        BY <1>1, <3>2, <3>3 DEF OrderOK
      <4> QED
        BY <1>0, <4>1, <4>2, <4>3 DEF OrderOK, plugin
    <3> QED
      BY <3>6, <3>7
  <2> QED
    BY <2>1, <2>2
<1> QED
  BY <1>0, <1>5, <1>6, <1>7, <1>8, <1>9, PluginStill DEF RegistryOK, plugin

\* A receipt is written for an id of the turn itself, which is credited with it.
LEMMA ReceiptsOK ==
  ASSUME IInv, Grows, UNCHANGED <<plugin, net>>,
         NEW t \in 1 .. captured, NEW id \in 1 .. minted, Issued(t, id),
         receipts' \in {receipts, receipts \cup {id}}, Finished(t)'
  PROVE  IdsOK'
<1> USE ConstantsAssumption DEF IInv, plugin
<1>0. t \in Turns /\ minted \in Nat /\ captured \in 0 .. MaxTurns
  BY DEF TypeOK, Turns
<1>1. \A u \in Turns : \A i : Issued(u, i)' <=> Issued(u, i)
  BY PluginStill
<1>2. \A u \in Turns : \A i : i \in 1 .. minted /\ Issued(u, i) => u \in 1 .. captured
  BY DEF Issued, NetOK, BoxOK, Request
<1>3. \A i \in receipts', u \in Turns : Issued(u, i)' => Finished(u)'
  <2> SUFFICES ASSUME NEW i \in receipts', NEW u \in Turns, Issued(u, i) PROVE Finished(u)'
    BY <1>1
  <2>1. CASE i \in receipts
    <3>1. u \in 1 .. captured /\ Finished(u)
      BY <1>2, <2>1 DEF IdsOK
    <3> QED
      BY <3>1, FinishedKept
  <2>2. CASE i = id
    BY <1>0, <2>2 DEF IdsOK
  <2> QED
    BY <2>1, <2>2
<1> QED
  BY <1>1, <1>3 DEF IdsOK

LEMMA FeedbackServed ==
  ASSUME IInv, NEW r \in net, ServeFeedback(r)
  PROVE  IInv'
<1> USE DEF IInv
<1>0. Grows /\ UNCHANGED <<plugin, net, registry, units>>
  BY ServeGrows DEF Serve, ServeFeedback
<1>1. /\ r \in Requests /\ r.turn \in Turns /\ r.path = "feedback"
      /\ r.turn \in 1 .. captured /\ r.id \in 1 .. minted
      /\ r = Request("feedback", r.turn, r.id) /\ Logged(r.turn)
  BY DEF TypeOK, Requests, ServeFeedback, NetOK, Request
<1>2. Issued(r.turn, r.id) /\ Logged(r.turn)'
  BY <1>0, <1>1 DEF Issued, Logged
<1>3. PICK a \in {"accepted", "refused", "retry"} :
        /\ Reply(r, a)
        /\ a = "refused" => r.turn \notin registry
        /\ receipts' \in {receipts, receipts \cup {r.id}}
        /\ credit' \in {credit, [credit EXCEPT ![r.turn] = 1]}
        /\ receipts' # receipts \/ a \in {"accepted", "refused"} => Finished(r.turn)'
  <2>1. CASE r.id \in receipts
    <3>1. Finished(r.turn)
      BY <1>1, <1>2, <2>1 DEF IdsOK
    <3>2. Finished(r.turn)'
      BY <1>0, <1>1, <3>1, FinishedKept
    <3> QED
      BY <2>1, <3>2 DEF ServeFeedback
  <2>2. CASE r.id \notin receipts /\ r.turn \notin registry
    BY <1>0, <1>2, <2>2 DEF ServeFeedback, Finished
  <2>3. CASE r.id \notin receipts /\ r.turn \in registry \cap Empty
    BY <1>0, <1>2, <2>3 DEF ServeFeedback, Finished
  <2>4. CASE r.id \notin receipts /\ r.turn \in registry \ Empty /\ credit[r.turn] > 0
    <3>1. credit[r.turn] = 1
      BY <1>1, <2>4 DEF CreditOnceAndAfter, TypeOK
    <3> QED
      BY <1>0, <1>2, <2>4, <3>1 DEF ServeFeedback, Finished
  <2>5. CASE r.id \notin receipts /\ r.turn \in registry \ Empty /\ credit[r.turn] = 0
    <3>1. credit' = [credit EXCEPT ![r.turn] = 1] /\ credit'[r.turn] = 1
      BY <1>1, <2>5 DEF ServeFeedback, TypeOK
    <3>2. Finished(r.turn)'
      BY <1>2, <3>1 DEF Finished
    <3> QED
      BY <2>5, <3>1, <3>2 DEF ServeFeedback
  <2>6. credit[r.turn] \in Nat
    BY <1>1 DEF TypeOK
  <2> QED
    BY <2>1, <2>2, <2>3, <2>4, <2>5, <2>6
<1>4. AnswerOK' /\ answer' \in Answers
  BY <1>0, <1>1, <1>3, ReplyOK DEF TrueReply, Answers
<1>5. TypeOK'
  <2>1. receipts' \subseteq Nat /\ credit' \in [Turns -> Nat]
    BY <1>1, <1>3 DEF TypeOK
  <2> QED
    BY <1>0, <1>4, <2>1 DEF TypeOK, plugin
<1>6. IdsOK'
  <2>1. CASE receipts' = receipts
    BY <1>0, <2>1, PluginStill, FinishedKept DEF IdsOK, plugin, Issued, BoxOK, NetOK, Request
  <2>2. CASE receipts' # receipts
    BY <1>0, <1>1, <1>2, <1>3, <2>2, ReceiptsOK
  <2> QED
    BY <2>1, <2>2
<1>7. CreditOnceAndAfter'
  <2> SUFFICES ASSUME NEW t \in Turns
               PROVE  credit'[t] <= 1 /\ (credit'[t] = 1 => Logged(t)')
    BY DEF CreditOnceAndAfter, Logged
  <2>1. credit[t] <= 1 /\ (credit[t] = 1 => Logged(t)) /\ credit \in [Turns -> Nat]
    BY DEF CreditOnceAndAfter, TypeOK
  <2>2. Logged(t) => Logged(t)'
    BY <1>0 DEF Logged
  <2>3. credit'[t] = credit[t] \/ (t = r.turn /\ credit'[t] = 1)
    BY <1>3, <2>1
  <2> QED
    BY <1>2, <2>1, <2>2, <2>3
<1>8. OrderOK' /\ LogInTurnOrder'
  BY <1>0 DEF OrderOK, LogInTurnOrder, Past, Logged, plugin
<1> QED
  BY <1>0, <1>4, <1>5, <1>6, <1>7, <1>8, PluginStill DEF RegistryOK, plugin

LEMMA OtherwiseServed ==
  ASSUME IInv, NEW r \in net, ServeRejected(r) \/ ServeTooLarge(r) \/ ServeRefused(r)
  PROVE  IInv'
<1> USE ConstantsAssumption DEF IInv
<1>0. Grows /\ UNCHANGED <<plugin, net, sidecar>>
  BY ServeGrows DEF Serve, ServeRejected, ServeTooLarge, ServeRefused
<1>1. AnswerOK' /\ answer' \in Answers
  <2>1. CASE ServeRejected(r)
    BY <1>0, <2>1, ReplyOK DEF ServeRejected, TrueReply, Answers
  <2>2. CASE ServeTooLarge(r)
    BY <1>0, <2>2, ReplyOK DEF ServeTooLarge, TrueReply, Answers
  <2>3. CASE ServeRefused(r)
    BY <1>0, <2>3, ReplyOK DEF ServeRefused, TrueReply, Answers
  <2> QED
    BY <2>1, <2>2, <2>3
<1>2. TypeOK'
  BY <1>0, <1>1 DEF TypeOK, plugin, sidecar
<1>3. IdsOK'
  BY <1>0, PluginStill, FinishedKept DEF IdsOK, plugin, sidecar, Issued, BoxOK, NetOK, Request
<1>4. OrderOK' /\ LogInTurnOrder' /\ CreditOnceAndAfter' /\ RegistryOK'
  BY <1>0 DEF OrderOK, LogInTurnOrder, CreditOnceAndAfter, RegistryOK, Past, Logged, plugin, sidecar
<1> QED
  BY <1>0, <1>1, <1>2, <1>3, <1>4, PluginStill

LEMMA EvictOK ==
  ASSUME IInv, NEW t \in Turns, Evict(t)
  PROVE  IInv'
<1> USE ConstantsAssumption DEF IInv
<1>0. UNCHANGED <<plugin, net, answer, units, receipts, credit>> /\ registry' \subseteq registry
  BY DEF Evict
<1>1. Grows
  BY <1>0, SameGrows DEF plugin
<1>2. TypeOK'
  BY <1>0 DEF TypeOK, plugin
<1>3. AnswerOK'
  BY <1>0 DEF AnswerOK, Finished, Logged, plugin
<1>4. IdsOK'
  BY <1>0, <1>1, PluginStill, FinishedKept DEF IdsOK, plugin, Issued, BoxOK, NetOK, Request
<1>5. OrderOK' /\ LogInTurnOrder' /\ CreditOnceAndAfter' /\ RegistryOK'
  BY <1>0 DEF OrderOK, LogInTurnOrder, CreditOnceAndAfter, RegistryOK, Past, Logged, plugin
<1> QED
  BY <1>0, <1>1, <1>2, <1>3, <1>4, <1>5, PluginStill

-----------------------------------------------------------------------------
(* Steps of the plugin                                                     *)

LEMMA PersistOK ==
  ASSUME TypeOK, NEW box, IsOutbox(box), NEW ok \in BOOLEAN, Persist(box, ok)
  PROVE  /\ IsOutbox(file') /\ lost' \in 0 .. MaxLost /\ lost <= lost'
         /\ ok => lost' = lost
         /\ \/ UNCHANGED file /\ lost' # 0
            \/ /\ DOMAIN file' \subseteq DOMAIN box
               /\ \A t \in DOMAIN file' : file'[t] = box[t]
               /\ \A t \in DOMAIN box \ DOMAIN file' :
                    box[t].observe = "done" /\ box[t].feedback # "open"
<1> USE ConstantsAssumption
<1>1. CASE ok
  <2>1. file' = Retained(box) /\ lost' = lost
    BY <1>1 DEF Persist
  <2> QED
    BY <2>1, RetainedPart DEF TypeOK
<1>2. CASE ~ok
  BY <1>2 DEF Persist, TypeOK
<1> QED
  BY <1>1, <1>2

\* The file is what is left of the outbox, and what left the outbox is dealt
\* with.
FileFollows ==
  /\ lost <= lost'
  /\ \/ UNCHANGED file /\ lost' # 0
     \/ /\ DOMAIN file' \subseteq DOMAIN outbox'
        /\ \A t \in DOMAIN file' : file'[t] = outbox'[t]
        /\ \A t \in DOMAIN outbox' \ DOMAIN file' :
             outbox'[t].observe = "done" /\ outbox'[t].feedback # "open"

LEMMA BoxMoves ==
  ASSUME IInv, Grows, loaded, UNCHANGED loaded, lost' \in Nat, BoxOK(outbox)', FileFollows,
         \A t \in DOMAIN outbox : t \in DOMAIN outbox' \/ Finished(t)',
         \A t \in captured + 1 .. captured' : t \in DOMAIN outbox'
  PROVE  /\ BoxOK(file)' /\ FileOK'
         /\ lost' = 0 => /\ lost = 0
                         /\ \A u \in 1 .. captured' :
                              /\ u \in DOMAIN outbox' \/ Logged(u)'
                              /\ u \in DOMAIN file' \/ Logged(u)'
<1> USE ConstantsAssumption DEF IInv
<1>0. captured \in Nat /\ captured' \in Nat /\ captured <= captured' /\ lost \in Nat /\ captured' <= MaxTurns
  BY DEF TypeOK, Grows
<1>1. \A t \in DOMAIN outbox' :
        outbox'[t].observe = "done" /\ outbox'[t].feedback # "open" => Finished(t)'
  BY DEF BoxOK, ItemOK
<1>2. CASE UNCHANGED file /\ lost' # 0
  <2>1. BoxOK(file)'
    BY <1>0, <1>2, ItemKept DEF BoxOK
  <2>2. FileOK'
    <3> SUFFICES ASSUME NEW t \in DOMAIN file PROVE t \in DOMAIN outbox' \/ Finished(t)'
      BY <1>2 DEF FileOK
    <3>1. t \in 1 .. captured /\ (t \in DOMAIN outbox \/ Finished(t))
      BY DEF FileOK, BoxOK
    <3> QED
      BY <3>1, FinishedKept
  <2> QED
    BY <1>2, <2>1, <2>2
<1>3. CASE ~(UNCHANGED file /\ lost' # 0)
  <2>1. /\ DOMAIN file' \subseteq DOMAIN outbox'
        /\ \A t \in DOMAIN file' : file'[t] = outbox'[t]
        /\ \A t \in DOMAIN outbox' \ DOMAIN file' : Finished(t)'
        /\ lost <= lost'
    BY <1>1, <1>3 DEF FileFollows
  <2>2. BoxOK(file)'
    BY <2>1 DEF BoxOK
  <2>3. FileOK'
    BY <2>1 DEF FileOK
  <2>4. ASSUME lost' = 0, NEW u \in 1 .. captured'
        PROVE  (u \in DOMAIN outbox' \/ Logged(u)') /\ (u \in DOMAIN file' \/ Logged(u)')
    <3>0. u \in Turns
      BY <1>0 DEF Turns
    <3>1. u \in DOMAIN outbox' \/ Logged(u)'
      <4>1. CASE u \in 1 .. captured
        <5>1. u \in DOMAIN outbox \/ Logged(u)
          BY <1>0, <2>1, <2>4, <4>1 DEF OrderOK
        <5> QED
          BY <3>0, <5>1 DEF Finished, Grows
      <4>2. CASE u \in captured + 1 .. captured'
        BY <4>2
      <4> QED
        BY <1>0, <4>1, <4>2
    <3>2. u \in DOMAIN file' \/ Logged(u)'
      BY <2>1, <3>1 DEF Finished
    <3> QED
      BY <3>1, <3>2
  <2> QED
    BY <1>0, <2>1, <2>2, <2>3, <2>4
<1> QED
  BY <1>2, <1>3

\* Only an id that was never used before is new.
LEMMA IdsMove ==
  ASSUME IInv, Grows, UNCHANGED receipts, NEW c,
         \A t \in Turns, id \in 1 .. minted' :
           Issued(t, id)' => Issued(t, id) \/ (id = minted + 1 /\ t = c)
  PROVE  IdsOK'
<1> USE ConstantsAssumption DEF IInv
<1>0. minted \in Nat /\ minted' \in Nat /\ minted <= minted'
  BY DEF TypeOK, Grows
<1>1. \A t \in Turns, id \in Nat : Issued(t, id) => id <= minted /\ t \in 1 .. captured
  BY <1>0 DEF Issued, NetOK, BoxOK, ItemOK, Request
<1>2. ASSUME NEW id \in 1 .. minted', NEW t \in Turns, NEW u \in Turns,
             Issued(t, id)', Issued(u, id)'
      PROVE  t = u
  <2>1. CASE id \in 1 .. minted
    BY <1>0, <1>2, <2>1 DEF IdsOK
  <2>2. CASE id > minted
    BY <1>0, <1>1, <1>2, <2>2
  <2> QED
    BY <1>0, <2>1, <2>2
<1>3. ASSUME NEW id \in receipts, NEW t \in Turns, Issued(t, id)'
      PROVE  Finished(t)'
  <2>1. id \in 1 .. minted
    BY DEF IdsOK
  <2>2. Issued(t, id)
    BY <1>0, <1>3, <2>1
  <2> QED
    BY <1>1, <2>1, <2>2, FinishedKept DEF IdsOK
<1> QED
  BY <1>0, <1>2, <1>3 DEF IdsOK

\* What is sent for a turn does not come before its time.
LEMMA NetMoves ==
  ASSUME IInv, Grows, UNCHANGED <<units, lost>>,
         NEW t \in Turns, NEW r, r.turn = t, net' \in {net, net \cup {r}},
         lost = 0 /\ r.path = "observe" => \A u \in 1 .. t - 1 : Past(u)
  PROVE  lost' = 0 => \A q \in net' : q.path = "observe" => \A u \in 1 .. q.turn - 1 : Past(u)'
<1> USE DEF IInv
<1>1. \A u : Past(u)' <=> Past(u)
  BY DEF Past, Logged
<1> QED
  BY <1>1 DEF OrderOK

\* Marks are changed that are true, and the flush goes on, or is over when the
\* file cannot be written.
LEMMA MarkKeeps ==
  ASSUME IInv, pc # "idle", cur \in DOMAIN outbox,
         NEW item \in Items, NEW next \in {"credit", "flush", "end"},
         MarkAndGo(item, next),
         item.observe = "open" => item.feedback = "open",
         item.observe = "done" => Logged(cur),
         item.observe = "terminal" => cur \in Rejected,
         item.observe = "done" /\ item.feedback # "open" => Finished(cur),
         \/ UNCHANGED minted /\ item.fid = outbox[cur].fid
         \/ minted' = minted + 1 /\ item.fid = minted + 1,
         next = "credit" => item.observe = "done",
         answer' = "none", wanted' \in BOOLEAN, closing' \in BOOLEAN, authDead' \in BOOLEAN,
         UNCHANGED <<captured, loaded, net, sidecar>>
  PROVE  IInv'
<1> USE ConstantsAssumption DEF IInv
<1>0. /\ captured \in 0 .. MaxTurns /\ minted \in Nat /\ minted' \in Nat /\ minted <= minted'
      /\ cur \in Turns /\ cur \in 1 .. captured /\ loaded
      /\ units \in Seq(Turns) /\ outbox[cur] \in Items
  BY DEF TypeOK, BoxOK, IsOutbox, PlaceOK
<1>1. Grows
  BY <1>0 DEF Grows, Logged, sidecar, TypeOK
<1>2. /\ outbox' = [outbox EXCEPT ![cur] = item] /\ tries' = 0
      /\ DOMAIN outbox' = DOMAIN outbox /\ outbox'[cur] = item
      /\ \A t \in DOMAIN outbox : t # cur => outbox'[t] = outbox[t]
  BY DEF MarkAndGo
<1>3. IsOutbox(outbox')
  BY <1>2 DEF TypeOK, IsOutbox
<1>4. PICK ok \in BOOLEAN : Persist(outbox', ok) /\ pc' = IF ok THEN next ELSE "idle"
  BY <1>2 DEF MarkAndGo
<1>5. IsOutbox(file') /\ lost' \in 0 .. MaxLost /\ FileFollows
  <2>1. TypeOK
    OBVIOUS
  <2> QED
    BY <1>3, <1>4, <2>1, PersistOK DEF FileFollows
<1>6. BoxOK(outbox)'
  <2>1. ASSUME NEW t \in DOMAIN outbox
        PROVE  t \in 1 .. captured' /\ ItemOK(t, outbox[t])'
    <3>1. t \in 1 .. captured /\ ItemOK(t, outbox[t])
      BY DEF BoxOK
    <3>2. CASE t = cur
      BY <1>0, <1>2, <3>1, <3>2 DEF ItemOK, Finished, Logged, sidecar, Items
    <3>3. CASE t # cur
      <4>1. outbox'[t] = outbox[t]
        BY <1>2, <3>3
      <4>2. ItemOK(t, outbox[t])'
        BY <1>0, <1>1, <3>1, <4>1, ConstantsAssumption DEF ItemOK, Finished, Grows, Turns, TypeOK
      <4> QED
        BY <1>0, <3>1, <4>2
    <3> QED
      BY <3>2, <3>3
  <2> QED
    BY <1>2, <2>1 DEF BoxOK
<1>7. /\ BoxOK(file)' /\ FileOK'
      /\ lost' = 0 => /\ lost = 0
                      /\ \A u \in 1 .. captured' :
                           /\ u \in DOMAIN outbox' \/ Logged(u)'
                           /\ u \in DOMAIN file' \/ Logged(u)'
  <2>1. captured + 1 .. captured' = {} /\ lost' \in Nat
    BY <1>0, <1>5
  <2> QED
    BY <1>0, <1>1, <1>2, <1>5, <1>6, <2>1, BoxMoves
<1>8. PlaceOK' /\ AnswerOK'
  <2>1. pc' \in {"credit", "flush", "end", "idle"} /\ (pc' = "credit" => next = "credit")
    BY <1>4
  <2>2. pc' = "credit" => cur' = cur
    BY DEF MarkAndGo
  <2> QED
    BY <1>0, <1>2, <2>1, <2>2 DEF PlaceOK, AnswerOK
<1>9. TypeOK'
  <2>1. pc' \in Steps /\ cur' \in 0 .. MaxTurns
    BY <1>0, <1>4 DEF MarkAndGo, Steps, Turns
  <2> QED
    BY <1>0, <1>2, <1>3, <1>5, <2>1 DEF TypeOK, sidecar, Answers
<1>10. NetOK' /\ RegistryOK' /\ LogInTurnOrder' /\ CreditOnceAndAfter'
  <2>1. lost' = 0 => lost = 0
    BY <1>7
  <2>2. UNCHANGED <<captured, net, units, receipts, credit, registry>>
    BY DEF sidecar
  <2>3. NetOK'
    BY <1>0, <2>2 DEF NetOK, Logged
  <2>4. RegistryOK' /\ LogInTurnOrder' /\ CreditOnceAndAfter'
    BY <2>1, <2>2 DEF RegistryOK, LogInTurnOrder, CreditOnceAndAfter, Logged
  <2> QED
    BY <2>3, <2>4
<1>11. IdsOK'
  <2>0. PICK c : c = cur
    OBVIOUS
  <2>1. ASSUME NEW t \in Turns, NEW id \in 1 .. minted', Issued(t, id)'
        PROVE  Issued(t, id) \/ (id = minted + 1 /\ t = c)
    <3>1. t \in DOMAIN outbox' /\ outbox'[t].fid = id
            => Issued(t, id) \/ (id = minted + 1 /\ t = c)
      BY <1>2, <2>0 DEF Issued
    <3>2. t \in DOMAIN file' /\ file'[t].fid = id
            => Issued(t, id) \/ (t \in DOMAIN outbox' /\ outbox'[t].fid = id)
      BY <1>5 DEF FileFollows, Issued
    <3> QED
      BY <2>1, <3>1, <3>2 DEF Issued
  <2>2. UNCHANGED receipts
    BY DEF sidecar
  <2> HIDE DEF IInv
  <2> QED
    BY <1>1, <2>1, <2>2, IdsMove
<1>12. OrderOK'
  <2>1. \A u : Past(u)' <=> Past(u)
    BY DEF Past, Logged, sidecar
  <2> QED
    BY <1>7, <2>1 DEF OrderOK, sidecar
<1> QED
  BY <1>6, <1>7, <1>8, <1>9, <1>10, <1>11, <1>12

\* A request is sent, for the first time or again.
LEMMA SendKeeps ==
  ASSUME IInv, UNCHANGED <<captured, outbox, file, minted, lost, loaded, authDead, sidecar>>,
         NEW t \in DOMAIN outbox, NEW r \in Requests, net' \in {net, net \cup {r}},
         \/ r = Request("observe", t, 0) /\ (lost = 0 => \A u \in 1 .. t - 1 : Past(u))
         \/ r = Request("feedback", t, outbox[t].fid) /\ outbox[t].fid # 0 /\ Logged(t),
         wanted' \in BOOLEAN, closing' \in BOOLEAN, pc' \in Steps, cur' \in 0 .. MaxTurns,
         tries' \in 0 .. Attempts, answer' = "none", PlaceOK'
  PROVE  IInv'
<1> USE ConstantsAssumption DEF IInv
<1>0. /\ captured \in 0 .. MaxTurns /\ minted \in Nat /\ t \in 1 .. captured /\ t \in Turns
      /\ outbox[t] \in Items /\ outbox[t].fid \in 0 .. minted /\ units \in Seq(Turns)
      /\ r.turn = t
  BY DEF TypeOK, BoxOK, ItemOK, IsOutbox, Turns, Request
<1>1. Grows
  BY <1>0, SameGrows DEF sidecar
<1>2. TypeOK'
  BY <1>0 DEF TypeOK, sidecar, Answers
<1>3. BoxOK(outbox)' /\ BoxOK(file)' /\ FileOK'
  BY DEF BoxOK, ItemOK, FileOK, Finished, Logged, sidecar
<1>4. AnswerOK'
  BY DEF AnswerOK
<1>5. NetOK'
  BY <1>0 DEF NetOK, Logged, sidecar, Request
<1>6. IdsOK'
  <2>1. \A u \in Turns, id \in 1 .. minted' :
          Issued(u, id)' => Issued(u, id) \/ (id = minted + 1 /\ u = t)
    BY <1>0 DEF Issued, Request
  <2>2. UNCHANGED receipts
    BY DEF sidecar
  <2> HIDE DEF IInv
  <2> QED
    BY <1>1, <2>1, <2>2, IdsMove
<1>7. OrderOK'
  <2>1. r.path = "observe" /\ lost = 0 => \A u \in 1 .. t - 1 : Past(u)
    BY DEF Request
  <2>2. lost' = 0 => \A q \in net' : q.path = "observe" => \A u \in 1 .. q.turn - 1 : Past(u)'
    BY <1>0, <1>1, <2>1, NetMoves DEF sidecar
  <2>3. \A u : (Past(u)' <=> Past(u)) /\ (Logged(u)' <=> Logged(u))
    BY DEF Past, Logged, sidecar
  <2> QED
    BY <2>2, <2>3 DEF OrderOK, sidecar
<1>8. RegistryOK' /\ LogInTurnOrder' /\ CreditOnceAndAfter'
  BY DEF RegistryOK, LogInTurnOrder, CreditOnceAndAfter, Logged, sidecar
<1> QED
  BY <1>2, <1>3, <1>4, <1>5, <1>6, <1>7, <1>8

\* The flush begins, or the plugin is about to go: nothing is sent.
LEMMA StillKeeps ==
  ASSUME IInv, UNCHANGED <<captured, outbox, file, minted, lost, loaded, authDead, sidecar,
                           net, answer, cur, tries>>,
         wanted' \in BOOLEAN, closing' \in BOOLEAN,
         pc' = pc \/ (loaded /\ pc = "idle" /\ pc' = "flush")
  PROVE  IInv'
<1> USE ConstantsAssumption DEF IInv, sidecar
<1>1. TypeOK'
  BY DEF TypeOK, Steps
<1>2. BoxOK(outbox)' /\ BoxOK(file)' /\ FileOK' /\ NetOK'
  BY DEF BoxOK, ItemOK, FileOK, NetOK, Finished, Logged
<1>3. PlaceOK'
  BY DEF PlaceOK, Current
<1>4. AnswerOK'
  BY DEF AnswerOK, Finished, Logged
<1>5. IdsOK'
  BY DEF IdsOK, Issued, Finished, Logged
<1>6. OrderOK' /\ RegistryOK' /\ LogInTurnOrder' /\ CreditOnceAndAfter'
  BY DEF OrderOK, Past, RegistryOK, LogInTurnOrder, CreditOnceAndAfter, Logged
<1> QED
  BY <1>1, <1>2, <1>3, <1>4, <1>5, <1>6

LEMMA UnloadKeeps ==
  ASSUME IInv, loaded, Unload
  PROVE  IInv'
<1> USE ConstantsAssumption DEF IInv, sidecar
<1>0. /\ outbox' = Nothing /\ DOMAIN outbox' = {} /\ ~loaded' /\ pc' = "idle" /\ answer' = "none"
      /\ UNCHANGED <<captured, file, minted, lost, net, units, receipts, credit, registry>>
  BY DEF Unload, Nothing
<1>1. TypeOK'
  <2>1. IsOutbox(outbox')
    BY <1>0 DEF IsOutbox
  <2>2. loaded' = FALSE /\ cur' = 0 /\ tries' = 0 /\ closing' = FALSE /\ authDead' = FALSE /\ wanted' = FALSE
    BY DEF Unload
  <2>3. pc' \in Steps /\ answer' \in Answers /\ cur' \in 0 .. MaxTurns /\ tries' \in 0 .. Attempts
    BY <1>0, <2>2 DEF Steps, Answers
  <2>4. wanted' \in BOOLEAN /\ closing' \in BOOLEAN /\ authDead' \in BOOLEAN /\ loaded' \in BOOLEAN
    BY <2>2
  <2> QED
    BY <1>0, <2>1, <2>3, <2>4 DEF TypeOK
<1>2. BoxOK(outbox)' /\ BoxOK(file)' /\ FileOK' /\ NetOK' /\ PlaceOK' /\ AnswerOK'
  BY <1>0 DEF BoxOK, ItemOK, FileOK, NetOK, PlaceOK, AnswerOK, Finished, Logged
<1>3. IdsOK'
  BY <1>0 DEF IdsOK, Issued, Finished, Logged
<1>4. OrderOK' /\ RegistryOK' /\ LogInTurnOrder' /\ CreditOnceAndAfter'
  BY <1>0 DEF OrderOK, Past, RegistryOK, LogInTurnOrder, CreditOnceAndAfter, Logged
<1> QED
  BY <1>1, <1>2, <1>3, <1>4

LEMMA LoadKeeps ==
  ASSUME IInv, Load
  PROVE  IInv'
<1> USE ConstantsAssumption DEF IInv, sidecar
<1>0. /\ outbox' = file /\ ~loaded /\ loaded'
      /\ UNCHANGED <<captured, file, minted, lost, pc, cur, tries, net, answer,
                     units, receipts, credit, registry>>
  BY DEF Load
<1>1. pc = "idle" /\ answer = "none"
  BY <1>0 DEF PlaceOK, AnswerOK
<1>2. TypeOK'
  BY <1>0 DEF TypeOK, Load
<1>3. BoxOK(outbox)' /\ BoxOK(file)' /\ FileOK' /\ NetOK' /\ PlaceOK' /\ AnswerOK'
  BY <1>0, <1>1 DEF BoxOK, ItemOK, FileOK, NetOK, PlaceOK, AnswerOK, Finished, Logged
<1>4. IdsOK'
  BY <1>0 DEF IdsOK, Issued, Finished, Logged
<1>5. OrderOK' /\ RegistryOK' /\ LogInTurnOrder' /\ CreditOnceAndAfter'
  BY <1>0 DEF OrderOK, Past, RegistryOK, LogInTurnOrder, CreditOnceAndAfter, Logged
<1> QED
  BY <1>2, <1>3, <1>4, <1>5

LEMMA CaptureKeeps ==
  ASSUME IInv, Capture
  PROVE  IInv'
<1> USE ConstantsAssumption DEF IInv, sidecar
<1> DEFINE item == [observe |-> "open", feedback |-> "open", fid |-> 0]
<1> PICK t : t = captured + 1
  OBVIOUS
<1>0. /\ captured \in 0 .. MaxTurns /\ captured < MaxTurns /\ minted \in Nat
      /\ t \in Turns /\ t \notin DOMAIN outbox /\ captured' = t /\ loaded /\ item \in Items
      /\ units \in Seq(Turns)
  BY DEF TypeOK, Capture, BoxOK, Turns, Items, Marks
<1>1. Grows
  BY CaptureGrows
<1>2. /\ DOMAIN outbox' = DOMAIN outbox \cup {t} /\ outbox'[t] = item
      /\ \A u \in DOMAIN outbox : outbox'[u] = outbox[u]
  BY <1>0 DEF Capture
<1>3. UNCHANGED <<minted, loaded, closing, authDead, pc, cur, tries, net, answer,
                  units, receipts, credit>>
  BY DEF Capture
<1>4. IsOutbox(outbox')
  BY <1>0, <1>2 DEF TypeOK, IsOutbox
<1>5. PICK ok \in BOOLEAN : Persist(outbox', ok)
  BY DEF Capture
<1>6. IsOutbox(file') /\ lost' \in 0 .. MaxLost /\ FileFollows
  <2>1. TypeOK
    OBVIOUS
  <2> QED
    BY <1>4, <1>5, <2>1, PersistOK DEF FileFollows
<1>7. BoxOK(outbox)'
  <2>1. ASSUME NEW u \in DOMAIN outbox
        PROVE  u \in 1 .. captured' /\ ItemOK(u, outbox[u])'
    <3>1. u \in 1 .. captured /\ ItemOK(u, outbox[u]) /\ outbox'[u] = outbox[u]
      BY <1>2 DEF BoxOK
    <3>2. ItemOK(u, outbox[u])'
      BY <1>0, <1>1, <3>1, ConstantsAssumption DEF ItemOK, Finished, Grows, Turns, TypeOK
    <3> QED
      BY <1>0, <3>1, <3>2
  <2>2. t \in 1 .. captured' /\ ItemOK(t, outbox[t])'
    BY <1>0, <1>2, <1>3 DEF ItemOK
  <2>3. \A u \in DOMAIN outbox' : u \in 1 .. captured' /\ ItemOK(u, outbox[u])'
    BY <1>2, <2>1, <2>2
  <2> QED
    BY <2>3 DEF BoxOK
<1>8. /\ BoxOK(file)' /\ FileOK'
      /\ lost' = 0 => /\ lost = 0
                      /\ \A u \in 1 .. captured' :
                           /\ u \in DOMAIN outbox' \/ Logged(u)'
                           /\ u \in DOMAIN file' \/ Logged(u)'
  <2>1. captured + 1 .. captured' = {t} /\ lost' \in Nat
    BY <1>0, <1>6
  <2>2. UNCHANGED loaded
    BY <1>3
  <2> QED
    BY <1>0, <1>1, <1>2, <1>6, <1>7, <2>1, <2>2, BoxMoves
<1>9. PlaceOK'
  BY <1>2, <1>3 DEF PlaceOK, Current
<1>10. AnswerOK'
  <2>1. pc \in {"observe", "feedback"} => cur \in 1 .. captured
    BY DEF PlaceOK, BoxOK
  <2>2. pc = "feedback" /\ answer \in {"accepted", "refused"} => Finished(cur)'
    BY <1>1, <1>3, <2>1, FinishedKept DEF AnswerOK, Finished, Logged
  <2>3. pc = "observe" /\ answer = "accepted" => Logged(cur)'
    BY <1>3 DEF AnswerOK, Logged
  <2> QED
    BY <1>3, <2>2, <2>3 DEF AnswerOK
<1>11. RegistryOK'
  <2>1. registry' = registry \cup ({t} \cap Retrieved)
    BY DEF Capture
  <2>2. t \in 1 .. captured' /\ 1 .. captured \subseteq 1 .. captured'
    BY <1>0
  <2> QED
    BY <2>1, <2>2 DEF RegistryOK
<1>12. TypeOK'
  BY <1>0, <1>3, <1>4, <1>6, <1>11 DEF TypeOK, Capture
<1>13. NetOK'
  BY <1>0, <1>3 DEF NetOK, Logged
<1>14. IdsOK'
  <2>1. ASSUME NEW u \in Turns, NEW id \in 1 .. minted', Issued(u, id)'
        PROVE  Issued(u, id)
    <3>1. u \in DOMAIN outbox' /\ outbox'[u].fid = id => Issued(u, id)
      BY <1>2, <1>3 DEF Issued
    <3>2. u \in DOMAIN file' /\ file'[u].fid = id
            => Issued(u, id) \/ (u \in DOMAIN outbox' /\ outbox'[u].fid = id)
      BY <1>6 DEF FileFollows, Issued
    <3> QED
      BY <1>3, <2>1, <3>1, <3>2 DEF Issued
  <2> QED
    BY <1>0, <1>1, <1>3, <2>1, IdsMove
<1>15. OrderOK' /\ LogInTurnOrder' /\ CreditOnceAndAfter'
  <2>1. \A u : (Past(u)' <=> Past(u)) /\ (Logged(u)' <=> Logged(u))
    BY <1>3 DEF Past, Logged
  <2>2. lost' = 0 => lost = 0
    BY <1>8
  <2> QED
    BY <1>3, <1>8, <2>1, <2>2 DEF OrderOK, LogInTurnOrder, CreditOnceAndAfter
<1> QED
  BY <1>7, <1>8, <1>9, <1>10, <1>11, <1>12, <1>13, <1>14, <1>15

LEMMA FlushEndKeeps ==
  ASSUME IInv, FlushEnd
  PROVE  IInv'
<1> USE ConstantsAssumption DEF IInv, sidecar
<1>0. /\ captured \in 0 .. MaxTurns /\ minted \in Nat /\ units \in Seq(Turns)
      /\ pc \in {"flush", "end"} /\ pc' = "idle" /\ loaded /\ answer = "none"
      /\ UNCHANGED <<captured, minted, loaded, closing, authDead, wanted, cur, tries,
                     net, answer, units, receipts, credit, registry>>
  BY DEF FlushEnd, TypeOK, PlaceOK, AnswerOK
<1>1. Grows
  BY <1>0, SameGrows
<1>2. /\ outbox' = Retained(outbox) /\ IsOutbox(outbox')
      /\ DOMAIN outbox' \subseteq DOMAIN outbox
      /\ \A t \in DOMAIN outbox' : outbox'[t] = outbox[t]
      /\ \A t \in DOMAIN outbox \ DOMAIN outbox' : Finished(t)
  BY RetainedPart DEF FlushEnd, TypeOK, BoxOK, ItemOK
<1>3. PICK ok \in BOOLEAN : Persist(outbox, ok)
  BY DEF FlushEnd
<1>4. IsOutbox(file') /\ lost' \in 0 .. MaxLost /\ lost <= lost'
  BY <1>3, PersistOK DEF TypeOK
<1>5. FileFollows
  <2>1. ok => file' = outbox'
    BY <1>2, <1>3 DEF Persist
  <2>2. ~ok => UNCHANGED file /\ lost' # 0
    BY <1>3 DEF Persist, TypeOK
  <2> QED
    BY <1>4, <2>1, <2>2 DEF FileFollows
<1>6. BoxOK(outbox)'
  BY <1>0, <1>2 DEF BoxOK, ItemOK, Finished, Logged
<1>7. /\ BoxOK(file)' /\ FileOK'
      /\ lost' = 0 => /\ lost = 0
                      /\ \A u \in 1 .. captured' :
                           /\ u \in DOMAIN outbox' \/ Logged(u)'
                           /\ u \in DOMAIN file' \/ Logged(u)'
  <2>1. captured + 1 .. captured' = {} /\ lost' \in Nat
    BY <1>0, <1>4
  <2>2. \A t \in DOMAIN outbox : t \in DOMAIN outbox' \/ Finished(t)'
    BY <1>0, <1>2 DEF Finished, Logged
  <2>3. loaded /\ UNCHANGED loaded
    BY <1>0
  <2> QED
    BY <1>1, <1>5, <1>6, <2>1, <2>2, <2>3, BoxMoves
<1>8. TypeOK'
  BY <1>0, <1>2, <1>4 DEF TypeOK, Steps
<1>9. PlaceOK' /\ AnswerOK' /\ NetOK' /\ RegistryOK'
  BY <1>0 DEF PlaceOK, AnswerOK, NetOK, RegistryOK, Logged
<1>10. IdsOK'
  <2>1. ASSUME NEW u \in Turns, NEW id \in 1 .. minted', Issued(u, id)'
        PROVE  Issued(u, id) \/ (id = minted + 1 /\ u = 0)
    BY <1>0, <1>2, <1>5, <2>1 DEF Issued, FileFollows
  <2> QED
    BY <1>0, <1>1, <2>1, IdsMove
<1>11. OrderOK' /\ LogInTurnOrder' /\ CreditOnceAndAfter'
  <2>1. \A u : (Past(u)' <=> Past(u)) /\ (Logged(u)' <=> Logged(u))
    BY <1>0 DEF Past, Logged
  <2>2. lost' = 0 => lost = 0
    BY <1>7
  <2> QED
    BY <1>0, <1>7, <2>1, <2>2 DEF OrderOK, LogInTurnOrder, CreditOnceAndAfter
<1> QED
  BY <1>6, <1>7, <1>8, <1>9, <1>10, <1>11

LEMMA DeliverNextKeeps ==
  ASSUME IInv, DeliverNext
  PROVE  IInv'
<1> USE DEF IInv
<1>1. PICK t \in DOMAIN outbox :
        /\ Unsettled(outbox[t])
        /\ \A u \in DOMAIN outbox : Unsettled(outbox[u]) => t <= u
        /\ cur' = t
        /\ IF outbox[t].observe = "open"
           THEN /\ net' = net \cup {Request("observe", t, 0)}
                /\ pc' = "observe" /\ tries' = 1
           ELSE pc' = "credit" /\ tries' = 0 /\ UNCHANGED net
  BY DEF DeliverNext
<1>2. /\ pc = "flush" /\ loaded
      /\ UNCHANGED <<captured, outbox, file, minted, lost, loaded, closing, authDead,
                     wanted, answer, sidecar>>
  BY DEF DeliverNext, PlaceOK
<1>3. t \in 1 .. captured /\ captured \in 0 .. MaxTurns /\ t \in Turns /\ outbox[t] \in Items
  BY ConstantsAssumption DEF BoxOK, TypeOK, IsOutbox, Turns
<1>4. lost = 0 => \A u \in 1 .. t - 1 : Past(u)
  <2> SUFFICES ASSUME lost = 0, NEW u \in 1 .. t - 1 PROVE Past(u)
    OBVIOUS
  <2>1. u \in 1 .. captured /\ u < t
    BY <1>3
  <2>2. CASE Logged(u)
    BY <2>2 DEF Past
  <2>3. CASE u \in DOMAIN outbox
    <3>1. ~Unsettled(outbox[u]) /\ outbox[u] \in Items
      BY <1>1, <1>3, <2>1, <2>3 DEF TypeOK, IsOutbox
    <3>2. outbox[u].observe \in {"done", "terminal"}
      BY <3>1 DEF Unsettled, Items, Marks
    <3> QED
      BY <2>3, <3>2 DEF BoxOK, ItemOK, Past
  <2> QED
    BY <1>2, <2>1, <2>2, <2>3 DEF OrderOK
<1>5. PICK r \in Requests : r = Request("observe", t, 0)
  BY <1>3 DEF Request, Requests
<1>6. net' \in {net, net \cup {r}} /\ pc' \in {"observe", "credit"}
  BY <1>1, <1>5
<1>7. PlaceOK'
  <2>1. outbox[t].observe # "open" => outbox[t].observe = "done"
    BY <1>1 DEF Unsettled
  <2> QED
    BY <1>1, <1>2, <2>1 DEF PlaceOK, Current
<1>8. answer' = "none"
  BY <1>2 DEF AnswerOK
<1>9. tries' \in 0 .. Attempts /\ cur' \in 0 .. MaxTurns /\ pc' \in Steps
  BY <1>1, <1>3, <1>6, ConstantsAssumption DEF Steps, Turns
<1>10. wanted' \in BOOLEAN /\ closing' \in BOOLEAN
  BY <1>2 DEF TypeOK
<1> HIDE DEF IInv
<1> QED
  BY <1>2, <1>4, <1>5, <1>6, <1>7, <1>8, <1>9, <1>10, SendKeeps

LEMMA ObserveAnsweredKeeps ==
  ASSUME IInv, ObserveAnswered
  PROVE  IInv'
<1>1. /\ pc = "observe" /\ cur \in DOMAIN outbox /\ outbox[cur] \in Items
      /\ answer = "accepted" => Logged(cur)
      /\ answer = "refused" => cur \in Rejected
      /\ answer' = "none" /\ minted' = minted
      /\ UNCHANGED <<captured, loaded, net, sidecar>>
      /\ wanted' \in BOOLEAN /\ closing' \in BOOLEAN /\ authDead' \in BOOLEAN
      /\ outbox[cur].observe = "open" /\ outbox[cur].feedback = "open"
  BY DEF IInv, TypeOK, IsOutbox, PlaceOK, AnswerOK, ObserveAnswered, BoxOK, ItemOK
<1>2. CASE answer = "accepted"
  <2> DEFINE item == [outbox[cur] EXCEPT !.observe = "done"]
  <2>1. /\ item \in Items /\ item.observe = "done" /\ item.feedback = "open"
        /\ item.fid = outbox[cur].fid
    BY <1>1, <1>2 DEF Items, Marks
  <2>2. MarkAndGo(item, "credit")
    BY <1>2 DEF ObserveAnswered
  <2> HIDE DEF item
  <2> QED
    BY <1>1, <1>2, <2>1, <2>2, MarkKeeps
<1>3. CASE answer = "refused"
  <2> DEFINE item == [outbox[cur] EXCEPT !.observe = "terminal"]
  <2>1. item \in Items /\ item.observe = "terminal" /\ item.fid = outbox[cur].fid
    BY <1>1, <1>3 DEF Items, Marks
  <2>2. MarkAndGo(item, "flush")
    BY <1>3 DEF ObserveAnswered
  <2> HIDE DEF item
  <2> QED
    BY <1>1, <1>3, <2>1, <2>2, MarkKeeps
<1> QED
  BY <1>2, <1>3 DEF ObserveAnswered

\* What is known wherever deliver() goes on with its turn.
LEMMA Midway ==
  ASSUME IInv, pc \in {"observe", "credit", "feedback"}
  PROVE  /\ cur \in DOMAIN outbox /\ outbox[cur] \in Items /\ cur \in Turns
         /\ cur \in 1 .. captured /\ minted \in Nat /\ outbox[cur].fid \in 0 .. minted
         /\ ItemOK(cur, outbox[cur])
BY ConstantsAssumption DEF IInv, TypeOK, IsOutbox, PlaceOK, BoxOK, ItemOK, Turns

LEMMA CreditStartKeeps ==
  ASSUME IInv, CreditStart
  PROVE  IInv'
<1>1. /\ pc = "credit" /\ outbox[cur].observe = "done" /\ answer' = "none" /\ loaded
      /\ UNCHANGED <<captured, loaded, sidecar>>
      /\ wanted' \in BOOLEAN /\ closing' \in BOOLEAN /\ authDead' \in BOOLEAN
      /\ Logged(cur)
      /\ UNCHANGED <<authDead, wanted, closing>>
  BY DEF IInv, TypeOK, PlaceOK, AnswerOK, CreditStart, BoxOK, ItemOK
<1>2. /\ cur \in DOMAIN outbox /\ outbox[cur] \in Items /\ cur \in Turns
      /\ minted \in Nat /\ outbox[cur].fid \in 0 .. minted /\ ItemOK(cur, outbox[cur])
  BY <1>1, Midway
<1>3. CASE cur \notin Retrieved
  <2> DEFINE item == [outbox[cur] EXCEPT !.feedback = "done"]
  <2>1. /\ item \in Items /\ item.observe = "done" /\ item.fid = outbox[cur].fid
        /\ item.feedback = "done"
    BY <1>1, <1>2 DEF Items, Marks
  <2>2. MarkAndGo(item, "flush") /\ UNCHANGED <<minted, net>>
    BY <1>3 DEF CreditStart
  <2>3. Finished(cur)
    BY <1>1, <1>3 DEF Finished, IInv, RegistryOK
  <2> HIDE DEF item
  <2> QED
    BY <1>1, <1>2, <2>1, <2>2, <2>3, MarkKeeps
<1>4. CASE cur \in Retrieved /\ outbox[cur].fid = 0
  <2>0. PICK fresh : fresh = minted + 1
    OBVIOUS
  <2> DEFINE item == [outbox[cur] EXCEPT !.fid = fresh]
  <2>1. /\ item \in Items /\ item.observe = "done" /\ item.fid = minted + 1
        /\ item.feedback = outbox[cur].feedback
    BY <1>1, <1>2, <2>0 DEF Items, Marks
  <2>2. MarkAndGo(item, "credit") /\ minted' = minted + 1 /\ UNCHANGED net
    BY <1>4, <2>0 DEF CreditStart
  <2>3. item.feedback # "open" => Finished(cur)
    BY <1>1, <1>2, <2>1 DEF ItemOK
  <2> HIDE DEF item
  <2> QED
    BY <1>1, <1>2, <2>1, <2>2, <2>3, MarkKeeps
<1>5. CASE cur \in Retrieved /\ outbox[cur].fid # 0
  <2>1. /\ net' = net \cup {Request("feedback", cur, outbox[cur].fid)}
        /\ pc' = "feedback" /\ tries' = 1
        /\ UNCHANGED <<outbox, file, lost, minted, cur>>
    BY <1>5 DEF CreditStart
  <2>0. Request("feedback", cur, outbox[cur].fid) \in Requests
    BY <1>2 DEF Requests, Request
  <2>2. PICK r \in Requests, t \in DOMAIN outbox :
          r = Request("feedback", cur, outbox[cur].fid) /\ t = cur
    BY <1>2, <2>0
  <2>3. PlaceOK'
    BY <1>1, <1>2, <1>5, <2>1 DEF PlaceOK, Current
  <2>4. pc' \in Steps /\ cur' \in 0 .. MaxTurns /\ tries' \in 0 .. Attempts
    BY <1>2, <2>1, ConstantsAssumption DEF Steps, Turns
  <2>5. UNCHANGED <<captured, outbox, file, minted, lost, loaded, authDead, sidecar>>
    BY <1>1, <2>1
  <2>6. net' \in {net, net \cup {r}}
    BY <2>1, <2>2
  <2>7. r = Request("feedback", t, outbox[t].fid) /\ outbox[t].fid # 0 /\ Logged(t)
    BY <1>1, <1>5, <2>2
  <2> QED
    BY <1>1, <2>3, <2>4, <2>5, <2>6, <2>7, SendKeeps
<1> QED
  BY <1>3, <1>4, <1>5

LEMMA FeedbackAnsweredKeeps ==
  ASSUME IInv, FeedbackAnswered
  PROVE  IInv'
<1>1. /\ pc = "feedback" /\ outbox[cur].observe = "done" /\ answer' = "none"
      /\ Finished(cur) /\ Logged(cur) /\ minted' = minted
      /\ UNCHANGED <<captured, loaded, net, sidecar>>
      /\ wanted' \in BOOLEAN /\ closing' \in BOOLEAN /\ authDead' \in BOOLEAN
  BY DEF IInv, TypeOK, PlaceOK, AnswerOK, FeedbackAnswered, Finished
<1>2. /\ cur \in DOMAIN outbox /\ outbox[cur] \in Items
  BY <1>1, Midway
<1>3. PICK mark \in {"done", "terminal"} :
        MarkAndGo([outbox[cur] EXCEPT !.feedback = mark], "flush")
  <2>1. CASE answer = "accepted"
    BY <2>1 DEF FeedbackAnswered
  <2>2. CASE answer # "accepted"
    BY <2>2 DEF FeedbackAnswered
  <2> QED
    BY <2>1, <2>2
<1> DEFINE item == [outbox[cur] EXCEPT !.feedback = mark]
<1>4. item \in Items /\ item.observe = "done" /\ item.fid = outbox[cur].fid
  BY <1>1, <1>2 DEF Items, Marks
<1>5. MarkAndGo(item, "flush")
  BY <1>3
<1> HIDE DEF item
<1> QED
  BY <1>1, <1>2, <1>4, <1>5, MarkKeeps

\* The turn stays as it is, and the flush is over.
LEMMA StuckKeeps ==
  ASSUME IInv, pc \in {"observe", "feedback"}, MarkAndGo(outbox[cur], "end"),
         answer' = "none", wanted' \in BOOLEAN, closing' \in BOOLEAN, authDead' \in BOOLEAN,
         UNCHANGED <<captured, minted, loaded, net, sidecar>>
  PROVE  IInv'
<1>1. /\ cur \in DOMAIN outbox /\ outbox[cur] \in Items /\ ItemOK(cur, outbox[cur])
  BY Midway
<1>2. PICK item \in Items : item = outbox[cur]
  BY <1>1
<1>3. /\ item.observe = "open" => item.feedback = "open"
      /\ item.observe = "done" => Logged(cur)
      /\ item.observe = "terminal" => cur \in Rejected
      /\ item.observe = "done" /\ item.feedback # "open" => Finished(cur)
  BY <1>1, <1>2 DEF ItemOK
<1>4. MarkAndGo(item, "end") /\ pc # "idle" /\ UNCHANGED minted
  BY <1>2
<1> QED
  BY <1>1, <1>2, <1>3, <1>4, MarkKeeps

LEMMA TryAgainKeeps ==
  ASSUME IInv, TryAgain
  PROVE  IInv'
<1>1. /\ pc \in {"observe", "feedback"} /\ answer' = "none" /\ loaded
      /\ UNCHANGED <<captured, minted, loaded, closing, authDead, wanted, sidecar>>
      /\ wanted' \in BOOLEAN /\ closing' \in BOOLEAN /\ authDead' \in BOOLEAN
      /\ tries \in 0 .. Attempts
  BY DEF IInv, TypeOK, PlaceOK, TryAgain
<1>2. CASE tries < Attempts
  <2>1. /\ net' = net \cup {Current} /\ tries' = tries + 1
        /\ UNCHANGED <<pc, cur, outbox, file, lost>>
    BY <1>2 DEF TryAgain
  <2>2. net' = net
    BY <1>1, <2>1 DEF IInv, PlaceOK
  <2>3. tries' \in 0 .. Attempts
    BY <1>1, <1>2, <2>1, ConstantsAssumption
  <2>4. Grows /\ AnswerOK'
    BY <1>1, <2>1, SameGrows DEF IInv, AnswerOK, sidecar
  <2>5. TypeOK'
    BY <1>1, <2>1, <2>2, <2>3 DEF IInv, TypeOK, sidecar, Answers
  <2>6. BoxOK(outbox)' /\ BoxOK(file)' /\ FileOK' /\ NetOK' /\ PlaceOK'
    BY <1>1, <2>1, <2>2
    DEF IInv, BoxOK, ItemOK, FileOK, NetOK, PlaceOK, Current, Finished, Logged, sidecar
  <2>7. IdsOK'
    BY <1>1, <2>1, <2>2 DEF IInv, IdsOK, Issued, Finished, Logged, sidecar
  <2>8. OrderOK' /\ RegistryOK' /\ LogInTurnOrder' /\ CreditOnceAndAfter'
    BY <1>1, <2>1, <2>2
    DEF IInv, OrderOK, Past, RegistryOK, LogInTurnOrder, CreditOnceAndAfter, Logged, sidecar
  <2> QED
    BY <2>4, <2>5, <2>6, <2>7, <2>8 DEF IInv
<1>3. CASE ~(tries < Attempts)
  BY <1>1, <1>3, StuckKeeps DEF TryAgain
<1> QED
  BY <1>2, <1>3

LEMMA UnauthorizedKeeps ==
  ASSUME IInv, Unauthorized
  PROVE  IInv'
<1>1. authDead' \in BOOLEAN /\ wanted' \in BOOLEAN /\ closing' \in BOOLEAN
  BY DEF IInv, TypeOK, Unauthorized
<1> QED
  BY <1>1, StuckKeeps DEF Unauthorized

LEMMA StepIInv == IInv /\ [Next]_vars => IInv'
<1> SUFFICES ASSUME IInv, [Next]_vars PROVE IInv'
  OBVIOUS
<1>1. CASE Capture
  BY <1>1, CaptureKeeps
<1>2. CASE Load
  BY <1>2, LoadKeeps
<1>3. CASE Disposed \/ Kill
  BY <1>3, UnloadKeeps DEF Disposed, Kill
<1>4. CASE Dispose
  BY <1>4, StillKeeps DEF Dispose
<1>5. CASE FlushStart
  BY <1>5, StillKeeps DEF FlushStart, IInv, TypeOK
<1>6. CASE DeliverNext \/ ObserveAnswered \/ CreditStart \/ FeedbackAnswered
  BY <1>6, DeliverNextKeeps, ObserveAnsweredKeeps, CreditStartKeeps, FeedbackAnsweredKeeps
<1>7. CASE TryAgain \/ Unauthorized \/ FlushEnd
  BY <1>7, TryAgainKeeps, UnauthorizedKeeps, FlushEndKeeps
<1>8. ASSUME NEW r \in net, Serve(r) \/ ServeRefused(r) PROVE IInv'
  BY <1>8, ObserveServed, FeedbackServed, OtherwiseServed DEF Serve
<1>9. ASSUME NEW t \in Turns, Evict(t) PROVE IInv'
  BY <1>9, EvictOK
<1>10. CASE UNCHANGED vars
  BY <1>10
  DEF vars, IInv, TypeOK, BoxOK, ItemOK, FileOK, NetOK, PlaceOK, AnswerOK, Current, IdsOK,
      Issued, OrderOK, Past, RegistryOK, LogInTurnOrder, CreditOnceAndAfter, Finished, Logged
<1> QED
  BY <1>1, <1>2, <1>3, <1>4, <1>5, <1>6, <1>7, <1>8, <1>9, <1>10 DEF Next, PluginStep

LEMMA Invariance == Spec => []IInv
BY InitIInv, StepIInv, PTL DEF Spec

-----------------------------------------------------------------------------
(* What the delivery promises                                              *)

\* Every variable keeps its type.
THEOREM TypeCorrect == Spec => []TypeOK
<1>1. IInv => TypeOK
  BY DEF IInv
<1> QED
  BY <1>1, Invariance, PTL

\* Every turn is in the evidence log at most once, and the log follows the
\* conversation as long as every write of the outbox file succeeds.
THEOREM OrderedLog == Spec => []LogInTurnOrder
<1>1. IInv => LogInTurnOrder
  BY DEF IInv
<1> QED
  BY <1>1, Invariance, PTL

\* A retrieval is credited at most once and not before its turn is logged, even
\* when writes fail and feedback goes out again under another id.
THEOREM CreditedOnce == Spec => []CreditOnceAndAfter
<1>1. IInv => CreditOnceAndAfter
  BY DEF IInv
<1> QED
  BY <1>1, Invariance, PTL

\* The steps that write the file write what the outbox is, or was before what is
\* dealt with is taken out of it; they do not touch the sidecar.
LEMMA FileWritten ==
  ASSUME IInv, Next, file' # file
  PROVE  /\ loaded /\ UNCHANGED <<units, credit>> /\ registry \subseteq registry'
         /\ \/ DOMAIN outbox \subseteq DOMAIN outbox' /\ \E ok \in BOOLEAN : Persist(outbox', ok)
            \/ \E ok \in BOOLEAN : Persist(outbox, ok)
<1>1. CASE Capture
  BY <1>1 DEF Capture
<1>2. CASE ObserveAnswered \/ FeedbackAnswered \/ Unauthorized \/ CreditStart \/ TryAgain
  <2>1. PICK item, next : MarkAndGo(item, next)
    BY <1>2 DEF ObserveAnswered, FeedbackAnswered, Unauthorized, CreditStart, TryAgain
  <2>2. UNCHANGED sidecar /\ pc # "idle"
    BY <1>2 DEF ObserveAnswered, FeedbackAnswered, Unauthorized, CreditStart, TryAgain
  <2>3. DOMAIN outbox' = DOMAIN outbox /\ \E ok \in BOOLEAN : Persist(outbox', ok)
    BY <2>1 DEF MarkAndGo
  <2> QED
    BY <2>2, <2>3 DEF sidecar, IInv, PlaceOK
<1>3. CASE FlushEnd
  BY <1>3 DEF FlushEnd, sidecar, IInv, PlaceOK
<1>4. ~(FlushStart \/ DeliverNext \/ Load \/ Dispose \/ Disposed \/ Kill)
  BY DEF FlushStart, DeliverNext, Load, Dispose, Disposed, Kill, Unload
<1>5. \A r \in net : ~(Serve(r) \/ ServeRefused(r))
  BY ServeGrows DEF plugin
<1>6. \A u \in Turns : ~Evict(u)
  BY DEF Evict, plugin
<1> QED
  BY <1>1, <1>2, <1>3, <1>4, <1>5, <1>6 DEF Next, PluginStep

LEMMA DropOK ==
  ASSUME IInv, IInv', Next, NEW t \in DOMAIN file \ DOMAIN file'
  PROVE  Finished(t)
<1>1. /\ loaded /\ UNCHANGED <<units, credit>> /\ registry \subseteq registry'
      /\ \/ DOMAIN outbox \subseteq DOMAIN outbox' /\ \E ok \in BOOLEAN : Persist(outbox', ok)
         \/ \E ok \in BOOLEAN : Persist(outbox, ok)
  BY FileWritten
<1>2. t \in DOMAIN outbox \/ Finished(t)
  BY <1>1 DEF IInv, FileOK
<1>3. ASSUME t \in DOMAIN outbox, DOMAIN outbox \subseteq DOMAIN outbox',
             NEW ok \in BOOLEAN, Persist(outbox', ok)
      PROVE  Finished(t)
  <2>1. file' = Retained(outbox') /\ IsOutbox(outbox')
    BY <1>3 DEF Persist, IInv, TypeOK
  <2>2. t \in DOMAIN outbox' /\ outbox'[t].observe = "done" /\ outbox'[t].feedback # "open"
    BY <1>3, <2>1, RetainedPart
  <2>3. Logged(t)' /\ (t \in registry' \ Empty => credit'[t] = 1)
    BY <2>2 DEF IInv, BoxOK, ItemOK, Finished
  <2> QED
    BY <1>1, <2>3 DEF Finished, Logged
<1>4. ASSUME t \in DOMAIN outbox, NEW ok \in BOOLEAN, Persist(outbox, ok)
      PROVE  Finished(t)
  <2>1. file' = Retained(outbox) /\ IsOutbox(outbox)
    BY <1>4 DEF Persist, IInv, TypeOK
  <2>2. outbox[t].observe = "done" /\ outbox[t].feedback # "open"
    BY <1>4, <2>1, RetainedPart
  <2> QED
    BY <1>4, <2>2 DEF IInv, BoxOK, ItemOK
<1> QED
  BY <1>1, <1>2, <1>3, <1>4

\* A turn leaves the outbox file only when it is in the log and its retrieval is
\* credited, or holds nothing to credit, or is gone.
THEOREM KeptUntilDone == Spec => NothingForgotten
<1>1. ASSUME IInv, IInv', [Next]_vars, NEW t \in DOMAIN file \ DOMAIN file'
      PROVE  Logged(t) /\ (t \in registry \ Empty => credit[t] = 1)
  <2>1. Next
    BY <1>1 DEF vars
  <2> QED
    BY <1>1, <2>1, DropOK DEF Finished
<1>2. IInv /\ IInv' /\ [Next]_vars =>
        [\A t \in DOMAIN file \ DOMAIN file' :
           /\ Logged(t)
           /\ t \in registry \ Empty => credit[t] = 1]_vars
  BY <1>1
<1> QED
  BY <1>2, Invariance, PTL DEF Spec, NothingForgotten
=============================================================================
