------------------------------ MODULE Delivery ------------------------------
(***************************************************************************)
(* Delivery of the turns of a conversation by the OpenCode plugin          *)
(* (.opencode/plugin/memory-bridge.ts) to the sidecar's /observe and       *)
(* /feedback (service/observe.py, service/feedback.py).                    *)
(*                                                                         *)
(* The plugin keeps an outbox, in memory and in a file, mints one request  *)
(* id per call it has to get through, and sends one request at a time,     *)
(* several times if need be.  Requests may be served long after the plugin *)
(* has stopped waiting for them, answers get lost, the file may fail to be *)
(* written, and the plugin may be killed at any moment.  The sidecar's     *)
(* databases survive its restarts, so a restart of it is just an answer    *)
(* that is lost or refused.  An operator named _Faulty is a plausible      *)
(* wrong version of the definition after it; nothing uses it.              *)
(***************************************************************************)
EXTENDS Naturals, Sequences, FiniteSets

CONSTANTS
  MaxTurns,   \* turns of the conversation, numbered in order
  Retrieved,  \* turns that memories were retrieved for
  Empty,      \* ... but none was shown
  Rejected,   \* turns whose body the sidecar answers with a 400
  TooLarge,   \* <<path, turn>>: the body of this request is over MAX_BODY
  Attempts,   \* captureAttempts()
  MaxLost     \* bound: writes of the outbox file that fail

Turns == 1 .. MaxTurns

ASSUME ConstantsAssumption ==
  /\ MaxTurns \in Nat /\ Attempts \in Nat \ {0} /\ MaxLost \in Nat
  /\ Empty \subseteq Retrieved /\ Retrieved \subseteq Turns /\ Rejected \subseteq Turns
  /\ TooLarge \subseteq {"observe", "feedback"} \X Turns

VARIABLES
  captured,  \* turns captured so far
  outbox,    \* the plugin's list of turns
  file,      \* bridge-outbox.json
  minted,    \* feedback ids minted so far
  lost,      \* writes of the file that failed
  loaded,    \* the plugin is loaded
  closing,   \* dispose has begun
  authDead,  \* a 401 has stopped this instance
  wanted,    \* a flush is scheduled
  pc,        \* where the flush stands
  cur,       \* the turn in deliver()
  tries,     \* times its current request has been sent
  net,       \* requests sent: each may still be served, at any time, or never
  answer,    \* what the sidecar has answered to the current request
  units,     \* L0: the turn of each unit, in the order of the log
  receipts,  \* feedback ids with a capture receipt
  credit,    \* feedback effects committed for the retrieval of each turn
  registry   \* retrievals the sidecar still holds, by turn

plugin == <<captured, outbox, file, minted, lost, loaded, closing, authDead,
            wanted, pc, cur, tries>>
sidecar == <<units, receipts, credit, registry>>
vars == <<captured, outbox, file, minted, lost, loaded, closing, authDead,
          wanted, pc, cur, tries, net, answer, units, receipts, credit, registry>>

Marks == {"open", "done", "terminal"}
Items == [observe : Marks, feedback : Marks, fid : Nat]
IsOutbox(box) == DOMAIN box \subseteq Turns /\ \A t \in DOMAIN box : box[t] \in Items
Requests == [path : {"observe"}, turn : Turns, id : {0}]
            \cup [path : {"feedback"}, turn : Turns, id : Nat]
Answers == {"none", "accepted", "refused", "retry", "unauthorized"}
Steps == {"idle", "flush", "observe", "credit", "feedback", "end"}

TypeOK ==
  /\ captured \in 0 .. MaxTurns
  /\ IsOutbox(outbox) /\ IsOutbox(file)
  /\ minted \in Nat /\ lost \in 0 .. MaxLost
  /\ loaded \in BOOLEAN /\ closing \in BOOLEAN /\ authDead \in BOOLEAN
  /\ wanted \in BOOLEAN
  /\ pc \in Steps /\ cur \in 0 .. MaxTurns /\ tries \in 0 .. Attempts
  /\ net \subseteq Requests /\ answer \in Answers
  /\ units \in Seq(Turns)
  /\ receipts \subseteq Nat
  /\ credit \in [Turns -> Nat]
  /\ registry \subseteq Turns

Nothing == [t \in {} |-> 0]

Init ==
  /\ captured = 0 /\ outbox = Nothing /\ file = Nothing
  /\ minted = 0 /\ lost = 0
  /\ loaded = FALSE /\ closing = FALSE /\ authDead = FALSE /\ wanted = FALSE
  /\ pc = "idle" /\ cur = 0 /\ tries = 0
  /\ net = {} /\ answer = "none"
  /\ units = << >> /\ receipts = {} /\ credit = [t \in Turns |-> 0]
  /\ registry = {}

Logged(t) == \E n \in DOMAIN units : units[n] = t

-----------------------------------------------------------------------------
(* The outbox                                                              *)

\* Whether a turn still has something to send.
Unsettled(item) ==
  item.observe = "open" \/ (item.observe = "done" /\ item.feedback = "open")

\* Turns that are stopped for good are dropped as well.
Retained_Faulty(box) ==
  [t \in {t \in DOMAIN box : Unsettled(box[t])} |-> box[t]]

\* turns.filter(retain): a turn the sidecar has refused stays in the file.
Retained(box) ==
  [t \in {t \in DOMAIN box : Unsettled(box[t]) \/ box[t].observe = "terminal"}
     |-> box[t]]

\* persistOutbox(): the file is replaced, or (ok is false) writing it throws.
Persist(box, ok) ==
  IF ok THEN file' = Retained(box) /\ UNCHANGED lost
        ELSE lost < MaxLost /\ lost' = lost + 1 /\ UNCHANGED file

\* chat.message ... session.idle: the turn is put on disk before it is sent; if
\* that fails it will be sent all the same.
Capture ==
  LET t == captured + 1
      item == [observe |-> "open", feedback |-> "open", fid |-> 0]
      box == [u \in DOMAIN outbox \cup {t} |-> IF u = t THEN item ELSE outbox[u]]
  IN
  /\ loaded /\ captured < MaxTurns
  /\ captured' = t
  /\ registry' = registry \cup ({t} \cap Retrieved)
  /\ outbox' = box
  /\ \E ok \in BOOLEAN : Persist(box, ok)
  /\ wanted' = (wanted \/ ~closing)
  /\ UNCHANGED <<minted, loaded, closing, authDead, pc, cur, tries, net, answer,
                 units, receipts, credit>>

\* The plugin is loaded and takes up what the file holds.
Load ==
  /\ ~loaded
  /\ loaded' = TRUE /\ closing' = FALSE /\ authDead' = FALSE
  /\ outbox' = file
  /\ wanted' = (DOMAIN file # {})
  /\ UNCHANGED <<captured, file, minted, lost, pc, cur, tries, net, answer, sidecar>>

\* dispose: one more flush after those already scheduled.
Dispose ==
  /\ loaded /\ ~closing
  /\ closing' = TRUE /\ wanted' = TRUE
  /\ UNCHANGED <<captured, outbox, file, minted, lost, loaded, authDead, pc, cur,
                 tries, net, answer, sidecar>>

Unload ==
  /\ loaded' = FALSE /\ closing' = FALSE /\ authDead' = FALSE /\ wanted' = FALSE
  /\ outbox' = Nothing
  /\ pc' = "idle" /\ cur' = 0 /\ tries' = 0 /\ answer' = "none"
  /\ UNCHANGED <<captured, file, minted, lost, net, sidecar>>

\* ... and then the plugin is gone.
Disposed == loaded /\ closing /\ pc = "idle" /\ ~wanted /\ Unload

\* The editor exits at any moment.
Kill == loaded /\ Unload

-----------------------------------------------------------------------------
(* flushOutbox() and deliver()                                             *)

Request(path, t, id) == [path |-> path, turn |-> t, id |-> id]

\* The request the plugin is waiting for.
Current ==
  IF pc = "observe" THEN Request("observe", cur, 0)
                    ELSE Request("feedback", cur, outbox[cur].fid)

FlushStart ==
  /\ loaded /\ wanted /\ pc = "idle"
  /\ wanted' = FALSE
  /\ pc' = IF authDead THEN "idle" ELSE "flush"
  /\ UNCHANGED <<captured, outbox, file, minted, lost, loaded, closing, authDead,
                 cur, tries, net, answer, sidecar>>

\* A turn that is stuck does not hold up the turns after it.
DeliverNext_Faulty ==
  /\ pc = "flush"
  /\ \E t \in {t \in DOMAIN outbox : Unsettled(outbox[t])} :
       /\ cur' = t
       /\ IF outbox[t].observe = "open"
          THEN /\ net' = net \cup {Request("observe", t, 0)}
               /\ pc' = "observe" /\ tries' = 1
          ELSE pc' = "credit" /\ tries' = 0 /\ UNCHANGED net
  /\ UNCHANGED <<captured, outbox, file, minted, lost, loaded, closing, authDead,
                 wanted, answer, sidecar>>

\* The first turn that is not settled; its observe comes before its feedback.
DeliverNext ==
  /\ pc = "flush"
  /\ \E t \in DOMAIN outbox :
       /\ Unsettled(outbox[t])
       /\ \A u \in DOMAIN outbox : Unsettled(outbox[u]) => t <= u
       /\ cur' = t
       /\ IF outbox[t].observe = "open"
          THEN /\ net' = net \cup {Request("observe", t, 0)}
               /\ pc' = "observe" /\ tries' = 1
          ELSE pc' = "credit" /\ tries' = 0 /\ UNCHANGED net
  /\ UNCHANGED <<captured, outbox, file, minted, lost, loaded, closing, authDead,
                 wanted, answer, sidecar>>

\* Marks of the current turn are changed and the outbox is written; when that
\* throws, the flush is over.  Only the feedback goes on with the same turn.
MarkAndGo(item, next) ==
  LET box == [outbox EXCEPT ![cur] = item] IN
  /\ outbox' = box
  /\ \E ok \in BOOLEAN : Persist(box, ok) /\ pc' = IF ok THEN next ELSE "idle"
  /\ cur' = IF pc' = "credit" THEN cur ELSE 0
  /\ tries' = 0

\* A refused turn is kept to be tried again, and stops the flush.
ObserveAnswered_Faulty ==
  /\ pc = "observe" /\ answer \in {"accepted", "refused"}
  /\ \/ /\ answer = "accepted"
        /\ MarkAndGo([outbox[cur] EXCEPT !.observe = "done"], "credit")
     \/ /\ answer = "refused"
        /\ MarkAndGo(outbox[cur], "end")
  /\ answer' = "none"
  /\ UNCHANGED <<captured, minted, loaded, closing, authDead, wanted, net, sidecar>>

\* The verdict of observeAck on an answer that ends the attempts.
ObserveAnswered ==
  /\ pc = "observe" /\ answer \in {"accepted", "refused"}
  /\ \/ /\ answer = "accepted"
        /\ MarkAndGo([outbox[cur] EXCEPT !.observe = "done"], "credit")
     \/ /\ answer = "refused"
        /\ MarkAndGo([outbox[cur] EXCEPT !.observe = "terminal"], "flush")
  /\ answer' = "none"
  /\ UNCHANGED <<captured, minted, loaded, closing, authDead, wanted, net, sidecar>>

\* The feedback part of deliver(): nothing to credit, or a feedback id is minted
\* and on disk before it is first sent.
CreditStart ==
  LET item == outbox[cur]
      fresh == item.fid = 0
  IN
  /\ pc = "credit"
  /\ \/ /\ cur \notin Retrieved
        /\ MarkAndGo([item EXCEPT !.feedback = "done"], "flush")
        /\ UNCHANGED <<minted, net>>
     \/ /\ cur \in Retrieved /\ fresh
        /\ minted' = minted + 1
        /\ MarkAndGo([item EXCEPT !.fid = minted + 1], "credit")
        /\ UNCHANGED net
     \/ /\ cur \in Retrieved /\ ~fresh
        /\ net' = net \cup {Request("feedback", cur, item.fid)}
        /\ pc' = "feedback" /\ tries' = 1
        /\ UNCHANGED <<outbox, file, lost, minted, cur>>
  /\ UNCHANGED <<captured, loaded, closing, authDead, wanted, answer, sidecar>>

FeedbackAnswered ==
  /\ pc = "feedback" /\ answer \in {"accepted", "refused"}
  /\ MarkAndGo([outbox[cur] EXCEPT !.feedback =
                  IF answer = "accepted" THEN "done" ELSE "terminal"], "flush")
  /\ answer' = "none"
  /\ UNCHANGED <<captured, minted, loaded, closing, authDead, wanted, net, sidecar>>

\* One attempt too many.
TryAgain_Faulty ==
  /\ pc \in {"observe", "feedback"} /\ answer \in {"retry", "none"}
  /\ tries <= Attempts
  /\ net' = net \cup {Current}
  /\ tries' = tries + 1
  /\ answer' = "none"
  /\ UNCHANGED <<captured, outbox, file, minted, lost, loaded, closing, authDead,
                 wanted, pc, cur, sidecar>>

\* The attempt failed, or has timed out: the same request again, or, after the
\* last attempt, the turn is stuck and the flush ends.
TryAgain ==
  /\ pc \in {"observe", "feedback"} /\ answer \in {"retry", "none"}
  /\ answer' = "none"
  /\ IF tries < Attempts
     THEN /\ net' = net \cup {Current}
          /\ tries' = tries + 1
          /\ UNCHANGED <<pc, cur, outbox, file, lost>>
     ELSE /\ MarkAndGo(outbox[cur], "end")
          /\ UNCHANGED net
  /\ UNCHANGED <<captured, minted, loaded, closing, authDead, wanted, sidecar>>

\* A 401 stops this instance of the plugin.
Unauthorized ==
  /\ pc \in {"observe", "feedback"} /\ answer = "unauthorized"
  /\ answer' = "none"
  /\ authDead' = TRUE
  /\ MarkAndGo(outbox[cur], "end")
  /\ UNCHANGED <<captured, minted, loaded, closing, wanted, net, sidecar>>

\* Nothing is left to deliver, or the first turn is stuck.
FlushEnd ==
  /\ \/ pc = "flush" /\ \A t \in DOMAIN outbox : ~Unsettled(outbox[t])
     \/ pc = "end"
  /\ pc' = "idle"
  /\ outbox' = Retained(outbox)
  /\ \E ok \in BOOLEAN : Persist(outbox, ok)
  /\ UNCHANGED <<captured, minted, loaded, closing, authDead, wanted, cur, tries,
                 net, answer, sidecar>>

-----------------------------------------------------------------------------
(* The sidecar                                                             *)

\* The answer reaches the plugin if it is still waiting for this request; a copy
\* of the request may be left on its way.
Reply(r, a) ==
  /\ \/ pc \in {"observe", "feedback"} /\ r = Current /\ answer = "none" /\ answer' = a
     \/ UNCHANGED answer
  /\ UNCHANGED <<plugin, net>>

\* What becomes of an observe after its turn is in the log.
Outcomes == {"processed", "pending", "queue full", "checkpoint conflict", "degraded"}

\* Only the first three are answered with accepted: true.
ObserveReply(outcome) ==
  IF outcome \in {"checkpoint conflict", "degraded"} THEN "retry" ELSE "accepted"

\* parse_body: the size is looked at before the body is read.
Fits(r) == <<r.path, r.turn>> \notin TooLarge

\* observe(): the turn is accepted once, by its request id, and then processed
\* together with the units pending before it.
ServeObserve(r) ==
  /\ r.path = "observe" /\ Fits(r) /\ r.turn \notin Rejected
  /\ units' = IF Logged(r.turn) THEN units ELSE Append(units, r.turn)
  /\ \E outcome \in Outcomes : Reply(r, ObserveReply(outcome))
  /\ UNCHANGED <<receipts, credit, registry>>

\* Only the request id is looked up.
ServeFeedback_Faulty(r) ==
  /\ r.path = "feedback" /\ Fits(r)
  /\ r.turn \in registry
  /\ credit' = [credit EXCEPT ![r.turn] = @ + IF r.id \in receipts THEN 0 ELSE 1]
  /\ receipts' = receipts \cup {r.id}
  /\ Reply(r, "accepted")
  /\ UNCHANGED <<units, registry>>

\* feedback(): a known request id is replayed, a retrieval that is gone is a 404,
\* one that was fed back before is "already credited", an empty one only gets
\* its receipt; otherwise effect and receipt are one transaction.
ServeFeedback(r) ==
  /\ r.path = "feedback" /\ Fits(r)
  /\ \/ r.id \in receipts /\ Reply(r, "accepted") /\ UNCHANGED <<receipts, credit>>
     \/ /\ r.id \notin receipts /\ r.turn \notin registry
        /\ Reply(r, "refused") /\ UNCHANGED <<receipts, credit>>
     \/ /\ r.id \notin receipts /\ r.turn \in registry \cap Empty
        /\ receipts' = receipts \cup {r.id}
        /\ Reply(r, "accepted") /\ UNCHANGED credit
     \/ /\ r.id \notin receipts /\ r.turn \in registry \ Empty /\ credit[r.turn] > 0
        /\ Reply(r, "accepted") /\ UNCHANGED <<receipts, credit>>
     \/ /\ r.id \notin receipts /\ r.turn \in registry \ Empty /\ credit[r.turn] = 0
        /\ receipts' = receipts \cup {r.id}
        /\ credit' = [credit EXCEPT ![r.turn] = 1]
        /\ \E a \in {"accepted", "retry"} : Reply(r, a)
  /\ UNCHANGED <<units, registry>>

\* A body the sidecar does not take.
ServeRejected(r) ==
  /\ r.path = "observe" /\ Fits(r) /\ r.turn \in Rejected
  /\ Reply(r, "refused")
  /\ UNCHANGED sidecar

\* A body that is too large is answered 413, every time, and neither observeAck
\* nor feedbackAck stops at a 413.
ServeTooLarge(r) ==
  /\ ~Fits(r)
  /\ Reply(r, "retry")
  /\ UNCHANGED sidecar

\* The sidecar is faulted, full or cannot be reached; or it has another token.
ServeRefused(r) ==
  /\ \E a \in {"retry", "unauthorized"} : Reply(r, a)
  /\ UNCHANGED sidecar

\* A later recall pushes a retrieval out of the registry.
Evict(t) ==
  /\ t \in registry
  /\ registry' = registry \ {t}
  /\ UNCHANGED <<plugin, net, answer, units, receipts, credit>>

Serve(r) ==
  ServeObserve(r) \/ ServeFeedback(r) \/ ServeRejected(r) \/ ServeTooLarge(r)

PluginStep ==
  \/ FlushStart \/ DeliverNext \/ ObserveAnswered \/ CreditStart
  \/ FeedbackAnswered \/ TryAgain \/ Unauthorized \/ FlushEnd

Next ==
  \/ Capture \/ Load \/ Dispose \/ Disposed \/ Kill
  \/ PluginStep
  \/ \E r \in net : Serve(r) \/ ServeRefused(r)
  \/ \E t \in Turns : Evict(t)

Spec == Init /\ [][Next]_vars

-----------------------------------------------------------------------------
(* Safety                                                                  *)

\* The evidence log holds every turn at most once, whatever is sent again, served
\* late, refused or killed; and in the order of the conversation, unless a turn
\* could not be put on disk before it was sent.
LogInTurnOrder ==
  \A m, n \in DOMAIN units :
    m < n => units[m] # units[n] /\ (lost = 0 => units[m] < units[n])

\* A retrieval is credited at most once, even when the file could not be written
\* and its feedback was sent again under a new id, and never before the turn that
\* used it is in the log.
CreditOnceAndAfter ==
  \A t \in Turns : credit[t] <= 1 /\ (credit[t] = 1 => Logged(t))

\* A turn leaves the file only when it is in the log and its retrieval has been
\* credited, unless there is nothing to credit or the retrieval is gone.
NothingForgotten ==
  [][\A t \in DOMAIN file \ DOMAIN file' :
       /\ Logged(t)
       /\ t \in registry \ Empty => credit[t] = 1]_vars

\* capture-delivery.md, goal 3: an observe that is accepted into the log, but not
\* processed to the end, is answered with accepted: true.
AcceptedIsSaid ==
  [][units' # units /\ answer' # answer => answer' = "accepted"]_vars

-----------------------------------------------------------------------------
(* Liveness                                                                *)

\* A scheduled flush runs and the sidecar serves the request that is waited for.
FairSpec ==
  /\ Spec
  /\ WF_vars(PluginStep /\ (answer # "none" \/ pc \notin {"observe", "feedback"}))
  /\ WF_vars(\E r \in net : pc \in {"observe", "feedback"} /\ r = Current
                            /\ Serve(r) /\ answer' # "none")
  /\ WF_vars(Disposed)

\* Time-outs, refused requests, writes that fail and kills.  The 413 of a body
\* that is too large is none of them: it never ends.
Trouble ==
  \/ lost' # lost
  \/ Kill /\ ~Disposed
  \/ /\ PluginStep /\ pc \in {"observe", "feedback"}
     /\ \/ answer \in {"none", "unauthorized"}
        \/ answer = "retry" /\ Fits(Current)

\* What the turn has left to send, before anything else, is too large.
Stuck(t, item) ==
  \/ item.observe = "open" /\ <<"observe", t>> \in TooLarge
  \/ /\ item.observe = "done" /\ item.feedback = "open" /\ t \in Retrieved
     /\ <<"feedback", t>> \in TooLarge

\* When the plugin is loaded again and again and trouble ends, every turn in the
\* file is delivered or refused for good, and a turn that was refused holds up
\* none behind it.  A turn that is too large does, for good: every flush stops at
\* it, so what is promised for it and for the turns after it is nothing more than
\* that everything before it has been delivered.
EveryTurnDelivered ==
  []<><<Load>>_vars /\ ~[]<><<Trouble>>_vars =>
    \A t \in Turns :
      t \in DOMAIN file ~>
        (t \in DOMAIN file =>
           \/ file[t].observe = "terminal"
           \/ \E u \in DOMAIN file : u <= t /\ Stuck(u, file[u]))
=============================================================================
