----------------------- MODULE LiveOfferLifecycle_proofs -----------------------
(***************************************************************************)
(* Proofs about LiveOfferLifecycle: the types and the reprice jobs in      *)
(* general; what an expiry promises of the verdict and of the alerts, for  *)
(* any offers, deals and verdicts, if one pass and one completed job at a  *)
(* time run. Each promise names what may straddle the pass and where an    *)
(* invocation may be killed; what it does not allow breaks it.             *)
(***************************************************************************)
EXTENDS LiveOfferLifecycle, TLAPS

Recomputing == {"read", "verdict", "supports", "candidate"}
Deciding == Recomputing \cup {"rotate", "look", "apply"}
Resumed == {"reprice", "plan", "insert", "join", "record", "report", "correct", "close"}
Finishing == Resumed \cup {"event"}

\* The steps of a pass between its verdict and its batch.
Between == {"supports", "candidate", "look", "apply"}

\* A verdict and its supports are written by one recompute at a time, and by
\* nobody killed between the two.
OneByOne ==
    /\ \A p, q \in Pass : p = q
    /\ \A i, j \in Job : i = j
    /\ "results" \notin Straddles /\ "supports" \notin KillAt

\* Besides, neither an evaluation nor a projection straddles the batch, and no
\* invocation is killed on the way to it.
Apart == OneByOne /\ Straddles \subseteq {"lease"} /\ KillAt \cap Between = {}

\* Nor does a lease.
Alone == Apart /\ Straddles = {}

\* A pass that found its expired offer works for it, and a plan it is about is
\* one still to be done. A job does nothing but recompute.
AimedAt(h) ==
    /\ h \in Pass /\ run[h].step \notin {"idle", "due", "choose"} => run[h].for \in Offer
    /\ run[h].step \in {"insert", "join"} => run[h].plan \in run[h].todo
    /\ h \in Job => run[h].step \in Recomputing \cup {"idle"}

Aimed == \A h \in Handler : AimedAt(h)

Has(o, q) == <<o, q>> \in jobs \cap consumers

\* What a pass takes its reprice for is what it has done of it.
RepriceOK(p) ==
    /\ At(p, "reprice") => run[p].reprice = "PENDING"
    /\ run[p].step \in {"plan", "insert", "join", "record"} =>
          /\ run[p].reprice \in {"PENDING", "ENQUEUED", "PARTIAL", "FAILED"}
          /\ run[p].reprice \in {"PENDING", "ENQUEUED"} =>
                \A q \in Plan \ run[p].todo : Has(run[p].for, q)
          /\ run[p].reprice \in {"ENQUEUED", "PARTIAL"} => \E q \in Plan : Has(run[p].for, q)
    /\ At(p, "join") => <<run[p].for, run[p].plan>> \in jobs
    /\ At(p, "record") =>
          /\ run[p].reprice # "PENDING"
          /\ run[p].reprice = "ENQUEUED" => run[p].todo = {}

\* What a reprice that fell short still owes its report is being reported.
Told(o) == o \in reported \cup lost \/ \E p \in Pass : At(p, "report") /\ run[p].for = o

EventJoined(o) ==
    /\ event[o].reprice = "ENQUEUED" => \A q \in Plan : Has(o, q)
    /\ event[o].reprice = "PARTIAL" => \E q \in Plan : Has(o, q)
    /\ event[o].reprice \in {"PARTIAL", "FAILED"} => Told(o)

RepriceInv == (\A p \in Pass : RepriceOK(p)) /\ \A o \in Offer : EventJoined(o)

OneAtATime == \A g, h \in Handler : ~At(g, "idle") /\ ~At(h, "idle") => g = h

Lives(s) == s \notin {"absent", "suppressed", "CANCELLED"}

\* A recompute on its way: what it read still holds when it is written.
RecomputeOK(h) ==
    /\ run[h].goal = "PROBABLE" => run[h].sup = {} /\ run[h].best = None
    /\ run[h].step \notin {"verdict", "supports", "candidate", "rotate"} =>
          run[h].goal = "PROBABLE"
    /\ run[h].goal = "CONFIRMED" =>
          /\ run[h].sup \in Confirming /\ run[h].for \notin run[h].sup
          /\ \A o \in run[h].sup : ~Exists(o) /\ offer[o] # "unseen"
    /\ run[h].step \in {"supports", "candidate", "rotate", "look", "apply"} =>
          verdict = run[h].goal
    /\ run[h].step \in {"candidate", "rotate", "look", "apply"} => supports = run[h].sup

\* A job never takes a confirmation back: it starts when no support has expired.
JobOK(j) ==
    /\ run[j].step \in Recomputing \cup {"idle"} /\ run[j].for = None
    /\ At(j, "read") /\ verdict = "CONFIRMED" => supports \subseteq Fresh
    /\ At(j, "verdict") /\ run[j].goal = "PROBABLE" => verdict # "CONFIRMED"

\* A pass decides about an expired offer that has no event yet, and finishes one
\* that has.
PassOK(p) ==
    /\ run[p].step \in Deciding =>
          offer[run[p].for] = "expired" /\ ~Exists(run[p].for) /\ Resumable = {}
    /\ run[p].step \in {"due", "choose"} => Resumable = {}
    /\ run[p].step \in {"choose", "read", "verdict"} => verdict = "CONFIRMED"
    /\ run[p].step \in Finishing => Exists(run[p].for)
    /\ run[p].step \in Resumed =>
          /\ run[p].visible = event[run[p].for].visible
          /\ run[p].correction = event[run[p].for].correction
    /\ run[p].step \in {"correct", "close"} => run[p].correction = "PENDING"

HandlerOK(h) == RecomputeOK(h) /\ (h \in Job => JobOK(h)) /\ (h \in Pass => PassOK(h))

EventsOK ==
    \A o \in Offer : Exists(o) => offer[o] = "expired" /\ event[o].correction # "none"

SupportsOK ==
    verdict = "CONFIRMED" /\ (\A h \in Handler : ~At(h, "supports")) =>
        /\ supports \in Confirming
        /\ \A o \in supports : ~Exists(o) /\ offer[o] # "unseen"

\* What keeps a confirmation watched.
WatchInv == OneAtATime /\ (\A h \in Handler : HandlerOK(h)) /\ EventsOK /\ SupportsOK

\* There is no confirmation, and no pass is between its verdict and its batch.
Unconfirmed ==
    verdict # "CONFIRMED" /\ \A p \in Pass : run[p].step \notin Between

\* No deal is on its way but those a notifier held when the batch came.
Silent ==
    /\ fare = None /\ evaluating = "no" /\ projecting \cap Deal = {}
    /\ \A d \in Deal : /\ alert[d] \notin {"queued", "SHADOW_HELD"}
                       /\ alert[d] \in {"PENDING", "SENDING"} => d \in held

Hushed == Unconfirmed => Silent

\* Somebody who saw a deal is told, or will be.
Answered ==
    \E o \in Offer : Lives(alert[o]) \/ (event[o].correction = "PENDING" /\ event[o].visible = "yes")

Out == {"PENDING", "SENDING", "DELIVERED"}
SeenAreAnswered == Unconfirmed => \A d \in Deal : alert[d] \in Out => Answered

\* A pass about to write its batch has counted right, and one about to close an
\* event has told whom it had to.
CountOK(p) ==
    /\ At(p, "apply") /\ run[p].visible = "no" => \A a \in Alert : alert[a] \notin VisibleStates
    /\ At(p, "close") /\ run[p].visible = "yes" => Lives(alert[run[p].for])

\* The update of an offer is raised for its event, and not withdrawn before
\* that is closed.
UpdatesOK ==
    \A o \in Offer :
        /\ ~Exists(o) => alert[o] = "absent"
        /\ event[o].correction = "PENDING" => alert[o] \notin {"suppressed", "CANCELLED"}

AnswerInv == (\A p \in Pass : CountOK(p)) /\ UpdatesOK /\ SeenAreAnswered

IInv == TypeOK /\ Aimed

RunType ==
    [step : Step, for : Offer \cup {None}, goal : {"PROBABLE", "CONFIRMED"},
     sup : SUBSET Offer, best : Offer \cup {None}, visible : {"yes", "no"},
     correction : EventState \cup {"none"}, reprice : EventState \cup {"none"},
     todo : SUBSET Plan, plan : Plan \cup {None}]
EventType == [visible : {"yes", "no"}, correction : EventState \cup {"none"},
              reprice : EventState \cup {"none"}]
AlertState == {"absent", "queued", "suppressed", "PENDING", "SHADOW_HELD",
               "SENDING", "DELIVERED", "DEAD", "CANCELLED"}

USE DEF repricing, sending
-----------------------------------------------------------------------------
(* Types.                                                                  *)

LEMMA IdleTyped == Idle \in RunType /\ NoEvent \in EventType
  BY DEF Idle, NoEvent, RunType, EventType, Step, EventState

\* The records that the steps of an invocation make.
LEMMA Confirms ==
    \A r \in RunType, s \in Step, S \in SUBSET Offer, o \in Offer :
        [r EXCEPT !.step = s, !.goal = "CONFIRMED", !.sup = S, !.best = o] \in RunType
  BY DEF RunType

LEMMA Doubts == \A r \in RunType, s \in Step :
                    [r EXCEPT !.step = s, !.goal = "PROBABLE"] \in RunType
  BY DEF RunType

LEMMA Aims == \A r \in RunType, s \in Step, o \in Offer :
                  [r EXCEPT !.step = s, !.for = o] \in RunType
  BY DEF RunType

LEMMA EventUpdates ==
    \A e \in EventType, s \in EventState \cup {"none"} :
        [e EXCEPT !.reprice = s] \in EventType /\ [e EXCEPT !.correction = s] \in EventType
  BY DEF EventType

\* The parts of the state that a step of the invocation h writes.
LEMMA Handled ==
    ASSUME TypeOK, NEW h \in Handler, NEW r \in RunType, run' = [run EXCEPT ![h] = r]
    PROVE  /\ run' \in [Handler -> RunType]
           /\ run'[h] = r
           /\ \A g \in Handler : g # h => run'[g] = run[g]
  BY DEF TypeOK, RunType

LEMMA Goes ==
    ASSUME TypeOK, NEW h \in Handler, NEW s \in Step, Go(h, s)
    PROVE  /\ run' \in [Handler -> RunType]
           /\ run'[h] = [run[h] EXCEPT !.step = s]
           /\ run'[h].step = s /\ run'[h].for = run[h].for
           /\ \A g \in Handler : g # h => run'[g] = run[g]
<1>1. run \in [Handler -> RunType]
  BY DEF TypeOK, RunType
<1>2. [run[h] EXCEPT !.step = s] \in RunType
  BY <1>1 DEF RunType
<1> QED
  BY <1>1, <1>2 DEF Go, RunType

\* What each step does to the invocation that takes it.
Moved(h) ==
    /\ run' \in [Handler -> RunType]
    /\ \A g \in Handler : g # h => run'[g] = run[g]

LEMMA Reads ==
    ASSUME TypeOK, NEW h \in Handler, Read(h), LifecycleAssumption
    PROVE  /\ Moved(h) /\ run[h].step = "read"
           /\ run'[h].step = "verdict" /\ run'[h].for = run[h].for
           /\ \/ /\ run'[h].goal = "CONFIRMED" /\ run'[h].sup \in Confirming
                 /\ run'[h].sup \subseteq Fresh /\ run'[h].best \in run'[h].sup
              \/ /\ \A S \in Confirming : ~(S \subseteq Fresh)
                 /\ run'[h].goal = "PROBABLE"
                 /\ run'[h].sup = run[h].sup /\ run'[h].best = run[h].best
<1>0. run \in [Handler -> RunType] /\ "verdict" \in Step
  BY DEF TypeOK, RunType, Step
<1>1. CASE \E S \in Confirming : S \subseteq Fresh
  <2>1. PICK S \in Confirming, best \in Offer :
           /\ S \subseteq Fresh /\ best \in S
           /\ run' = [run EXCEPT ![h].step = "verdict", ![h].goal = "CONFIRMED",
                                 ![h].sup = S, ![h].best = best]
    BY <1>1 DEF Read, LifecycleAssumption
  <2>2. S \subseteq Offer
    BY DEF LifecycleAssumption
  <2>3. /\ run'[h] = [run[h] EXCEPT !.step = "verdict", !.goal = "CONFIRMED",
                                    !.sup = S, !.best = best]
        /\ \A g \in Handler : g # h => run'[g] = run[g]
        /\ run' \in [Handler -> RunType]
    <3>1. run'[h] = [run[h] EXCEPT !.step = "verdict", !.goal = "CONFIRMED",
                                    !.sup = S, !.best = best]
      BY <1>0, <2>1, <2>2 DEF RunType
    <3>2. \A g \in Handler : g # h => run'[g] = run[g]
      BY <1>0, <2>1, <2>2 DEF RunType
    <3>3. run' \in [Handler -> RunType]
      <4>1. run'[h] \in RunType
        <5>1. run[h] \in RunType /\ S \in SUBSET Offer
          BY <1>0, <2>2
        <5> QED
          BY <1>0, <2>1, <3>1, <5>1, Confirms
      <4>2. run' = [g \in Handler |-> run'[g]]
        BY <1>0, <2>1, <2>2
      <4> QED
        BY <1>0, <3>2, <4>1, <4>2
    <3> QED
      BY <3>1, <3>2, <3>3
  <2>4. run[h].step = "read" /\ run[h] \in RunType
    BY <1>0 DEF Read, At
  <2>5. /\ run'[h].step = "verdict" /\ run'[h].for = run[h].for
        /\ run'[h].goal = "CONFIRMED" /\ run'[h].sup = S /\ run'[h].best = best
    BY <2>3, <2>4 DEF RunType
  <2> QED
    BY <2>1, <2>3, <2>4, <2>5 DEF Moved
<1>2. CASE ~\E S \in Confirming : S \subseteq Fresh
  <2>1. run' = [run EXCEPT ![h].step = "verdict", ![h].goal = "PROBABLE"]
    BY <1>2 DEF Read
  <2>2. /\ run'[h] = [run[h] EXCEPT !.step = "verdict", !.goal = "PROBABLE"]
        /\ \A g \in Handler : g # h => run'[g] = run[g]
        /\ run' \in [Handler -> RunType]
    <3>1. run'[h] = [run[h] EXCEPT !.step = "verdict", !.goal = "PROBABLE"]
      BY <1>0, <2>1 DEF RunType
    <3>2. \A g \in Handler : g # h => run'[g] = run[g]
      BY <1>0, <2>1 DEF RunType
    <3>3. run' \in [Handler -> RunType]
      <4>1. run'[h] \in RunType
        <5>1. run[h] \in RunType
          BY <1>0
        <5>2. [run[h] EXCEPT !.step = "verdict", !.goal = "PROBABLE"] \in RunType
          BY <1>0, <5>1, Doubts
        <5> QED
          BY <3>1, <5>2
      <4>2. run' = [g \in Handler |-> run'[g]]
        BY <1>0, <2>1
      <4> QED
        BY <1>0, <3>2, <4>1, <4>2
    <3> QED
      BY <3>1, <3>2, <3>3
  <2>3. run[h].step = "read" /\ run[h] \in RunType
    BY <1>0 DEF Read, At
  <2>4. /\ run'[h].step = "verdict" /\ run'[h].for = run[h].for
        /\ run'[h].goal = "PROBABLE" /\ run'[h].sup = run[h].sup /\ run'[h].best = run[h].best
    BY <2>2, <2>3 DEF RunType
  <2> QED
    BY <1>2, <2>2, <2>3, <2>4 DEF Moved
<1> QED
  BY <1>1, <1>2

LEMMA RunTyped == TypeOK => run \in [Handler -> RunType]
  BY DEF TypeOK, RunType

\* finishLifecycleEvent begins with the event as it is.
LEMMA Finishes ==
    ASSUME TypeOK, NEW p \in Pass, NEW o \in Offer, Finish(p, o)
    PROVE  /\ Moved(p) /\ run'[p].for = o
           /\ run'[p].visible = event[o].visible /\ run'[p].correction = event[o].correction
           /\ run'[p].reprice = event[o].reprice
           /\ run'[p].goal = "PROBABLE" /\ run'[p].sup = {} /\ run'[p].best = None
           /\ \/ run'[p].step = "reprice" /\ run'[p].reprice = "PENDING"
              \/ run'[p].step = "correct" /\ run'[p].correction = "PENDING"
              \/ run'[p].step = "idle"
<1> DEFINE e == event[o]
           t == CASE e.reprice = "PENDING" -> "reprice"
                  [] e.correction = "PENDING" -> "correct"
                  [] OTHER -> "idle"
           r == [Idle EXCEPT !.for = o, !.visible = e.visible, !.correction = e.correction,
                             !.reprice = e.reprice, !.step = t]
<1>1. e \in EventType /\ p \in Handler
  BY DEF TypeOK, EventType, Handler
<1>2. /\ \/ t = "reprice" /\ e.reprice = "PENDING"
         \/ t = "correct" /\ e.correction = "PENDING"
         \/ t = "idle"
      /\ t \in Step
  BY DEF Step
<1>3. run' = [run EXCEPT ![p] = r]
  BY DEF Finish
<1> HIDE DEF t
<1>4. /\ r \in RunType /\ r.step = t /\ r.for = o
      /\ r.visible = e.visible /\ r.correction = e.correction /\ r.reprice = e.reprice
      /\ r.goal = "PROBABLE" /\ r.sup = {} /\ r.best = None
  BY <1>1, <1>2 DEF Idle, RunType, EventType
<1> HIDE DEF r
<1>5. Moved(p) /\ run'[p] = r
  BY <1>1, <1>3, <1>4, Handled DEF Moved
<1> QED
  BY <1>2, <1>4, <1>5

LEMMA Chooses ==
    ASSUME TypeOK, NEW p \in Pass, ChooseExpired(p), run'[p].step # "idle"
    PROVE  /\ Moved(p) /\ run[p].step = "choose" /\ run'[p].step = "read"
           /\ run'[p].for \in supports /\ offer[run'[p].for] = "expired"
           /\ run'[p].goal = run[p].goal /\ run'[p].sup = run[p].sup
           /\ run'[p].best = run[p].best
<1>0. /\ run \in [Handler -> RunType] /\ {"idle", "read"} \subseteq Step /\ p \in Handler
      /\ run[p] \in RunType /\ supports \subseteq Offer
  BY DEF TypeOK, RunType, Step, Handler
<1>1. run[p].step = "choose"
  BY DEF ChooseExpired, At
<1>2. ~Go(p, "idle")
  BY <1>0, Goes
<1>3. PICK o \in {o \in supports : offer[o] = "expired"} :
         run' = [run EXCEPT ![p].step = "read", ![p].for = o]
  BY <1>2 DEF ChooseExpired
<1> DEFINE r == [run[p] EXCEPT !.step = "read", !.for = o]
<1>4. run' = [run EXCEPT ![p] = r]
  BY <1>0, <1>3
<1>5. r \in RunType
  BY <1>0, <1>3, Aims
<1>6. /\ r.step = "read" /\ r.for = o /\ r.goal = run[p].goal /\ r.sup = run[p].sup
      /\ r.best = run[p].best
  BY <1>0 DEF RunType
<1> HIDE DEF r
<1>7. Moved(p) /\ run'[p] = r
  BY <1>0, <1>4, <1>5, Handled DEF Moved
<1> QED
  BY <1>1, <1>3, <1>6, <1>7

LEMMA Counts ==
    ASSUME TypeOK, NEW p \in Pass, CountVisible(p)
    PROVE  /\ Moved(p) /\ run[p].step = "look" /\ run'[p].step = "apply"
           /\ run'[p] = [run[p] EXCEPT !.step = "apply", !.visible = run'[p].visible]
           /\ run'[p].visible = "no" => \A a \in Alert : alert[a] \notin VisibleStates
<1>0. run \in [Handler -> RunType] /\ {"apply"} \subseteq Step /\ p \in Handler
  BY DEF TypeOK, RunType, Step, Handler
<1>1. run[p].step = "look" /\ run[p] \in RunType
  BY <1>0 DEF CountVisible, At
<1>2. PICK v \in {"yes", "no"} :
         /\ run' = [run EXCEPT ![p].step = "apply", ![p].visible = v]
         /\ v = "no" => \A a \in Alert : alert[a] \notin VisibleStates
  BY DEF CountVisible
<1>3. /\ run'[p] = [run[p] EXCEPT !.step = "apply", !.visible = v]
      /\ \A g \in Handler : g # p => run'[g] = run[g]
      /\ run' \in [Handler -> RunType]
  <2>1. run'[p] = [run[p] EXCEPT !.step = "apply", !.visible = v]
    BY <1>0, <1>2 DEF RunType
  <2>2. \A g \in Handler : g # p => run'[g] = run[g]
    BY <1>0, <1>2 DEF RunType
  <2>3. run' \in [Handler -> RunType]
    <3>1. run'[p] \in RunType
      BY <1>1, <2>1 DEF RunType, Step
    <3>2. run' = [g \in Handler |-> run'[g]]
      BY <1>0, <1>2
    <3> QED
      BY <1>0, <2>2, <3>1, <3>2
  <2> QED
    BY <2>1, <2>2, <2>3
<1>4. run'[p].step = "apply" /\ run'[p].visible = v
  BY <1>1, <1>3 DEF RunType
<1> QED
  BY <1>1, <1>2, <1>3, <1>4 DEF Moved

LEMMA Stepped ==
    ASSUME TypeOK, NEW h \in Handler, NEW s \in Step, Go(h, s)
    PROVE  /\ Moved(h) /\ run'[h].step = s
           /\ run'[h] = [run[h] EXCEPT !.step = s]
           /\ run'[h].for = run[h].for
  BY Goes DEF Moved

LEMMA Stopped ==
    ASSUME TypeOK, NEW h \in Handler, run' = [run EXCEPT ![h] = Idle]
    PROVE  /\ Moved(h) /\ run'[h] = Idle /\ run'[h].step = "idle"
  BY Handled, IdleTyped DEF Moved, Idle

\* What a step of the reprice leaves of the invocation as it is.
Keeps(p) ==
    /\ run'[p].for = run[p].for /\ run'[p].visible = run[p].visible
    /\ run'[p].correction = run[p].correction /\ run'[p].goal = run[p].goal
    /\ run'[p].sup = run[p].sup /\ run'[p].best = run[p].best

LEMMA PlansRead ==
    ASSUME TypeOK, NEW p \in Pass, ReadPlans(p)
    PROVE  /\ Moved(p) /\ Keeps(p) /\ run[p].step = "reprice"
           /\ run'[p].plan = run[p].plan
           /\ \/ run'[p].step = "plan" /\ run'[p].todo = Plan /\ run'[p].reprice = run[p].reprice
              \/ run'[p].step = "record" /\ run'[p].todo = run[p].todo
                 /\ run'[p].reprice = "FAILED"
<1>0. /\ run \in [Handler -> RunType] /\ p \in Handler /\ run[p] \in RunType
      /\ run[p].step = "reprice" /\ {"plan", "record"} \subseteq Step /\ "FAILED" \in EventState
  BY DEF TypeOK, RunType, Step, Handler, EventState, ReadPlans, At
<1>1. CASE run' = [run EXCEPT ![p].step = "plan", ![p].todo = Plan]
  <2> DEFINE r == [run[p] EXCEPT !.step = "plan", !.todo = Plan]
  <2>1. run' = [run EXCEPT ![p] = r]
    BY <1>0, <1>1
  <2>2. /\ r \in RunType /\ r.step = "plan" /\ r.todo = Plan /\ r.plan = run[p].plan
        /\ r.reprice = run[p].reprice
        /\ r.for = run[p].for /\ r.visible = run[p].visible /\ r.correction = run[p].correction
        /\ r.goal = run[p].goal /\ r.sup = run[p].sup /\ r.best = run[p].best
    BY <1>0 DEF RunType
  <2> HIDE DEF r
  <2>3. Moved(p) /\ run'[p] = r
    BY <1>0, <2>1, <2>2, Handled DEF Moved
  <2> QED
    BY <1>0, <2>2, <2>3 DEF Keeps
<1>2. CASE run' = [run EXCEPT ![p].step = "record", ![p].reprice = "FAILED"]
  <2> DEFINE r == [run[p] EXCEPT !.step = "record", !.reprice = "FAILED"]
  <2>1. run' = [run EXCEPT ![p] = r]
    BY <1>0, <1>2
  <2>2. /\ r \in RunType /\ r.step = "record" /\ r.todo = run[p].todo /\ r.plan = run[p].plan
        /\ r.reprice = "FAILED"
        /\ r.for = run[p].for /\ r.visible = run[p].visible /\ r.correction = run[p].correction
        /\ r.goal = run[p].goal /\ r.sup = run[p].sup /\ r.best = run[p].best
    BY <1>0 DEF RunType
  <2> HIDE DEF r
  <2>3. Moved(p) /\ run'[p] = r
    BY <1>0, <2>1, <2>2, Handled DEF Moved
  <2> QED
    BY <1>0, <2>2, <2>3 DEF Keeps
<1> QED
  BY <1>1, <1>2 DEF ReadPlans

LEMMA Proceeds ==
    ASSUME TypeOK, NEW p \in Pass, NEW q, NEW x \in EventState, NextPlan(p, q, x)
    PROVE  /\ Moved(p) /\ Keeps(p)
           /\ run'[p].todo = run[p].todo \ {q} /\ run'[p].reprice = x
           /\ \/ run'[p].step = "plan"
              \/ run'[p].step = "record" /\ run'[p].todo = {}
<1> DEFINE t == IF run[p].todo \ {q} = {} THEN "record" ELSE "plan"
           r == [run[p] EXCEPT !.todo = run[p].todo \ {q}, !.plan = None, !.reprice = x,
                               !.step = t]
<1>0. /\ run \in [Handler -> RunType] /\ p \in Handler /\ run[p] \in RunType
      /\ t \in Step /\ (t = "plan" \/ (t = "record" /\ run[p].todo \ {q} = {}))
  BY DEF TypeOK, RunType, Step, Handler
<1>1. run' = [run EXCEPT ![p] = r]
  BY <1>0 DEF NextPlan
<1> HIDE DEF t
<1>2. run[p].todo \ {q} \in SUBSET Plan
  BY <1>0 DEF RunType
<1>3. /\ r \in RunType /\ r.step = t /\ r.todo = run[p].todo \ {q} /\ r.reprice = x
      /\ r.for = run[p].for /\ r.visible = run[p].visible /\ r.correction = run[p].correction
      /\ r.goal = run[p].goal /\ r.sup = run[p].sup /\ r.best = run[p].best
  BY <1>0, <1>2 DEF RunType
<1> HIDE DEF r
<1>4. Moved(p) /\ run'[p] = r
  BY <1>0, <1>1, <1>3, Handled DEF Moved
<1> QED
  BY <1>0, <1>3, <1>4 DEF Keeps

LEMMA Outcomes == \A x : /\ Joined(x) \in EventState /\ Joined(x) \in {"ENQUEUED", "PARTIAL"}
                         /\ Refused(x) \in EventState /\ Refused(x) \in {"FAILED", "PARTIAL"}
  BY DEF Joined, Refused, EventState

LEMMA Looks ==
    ASSUME TypeOK, NEW p \in Pass, LookForJob(p)
    PROVE  /\ Moved(p) /\ Keeps(p) /\ run[p].step = "plan"
           /\ \/ \E q \in run[p].todo :
                    /\ run'[p].step \in {"insert", "join"} /\ run'[p].plan = q
                    /\ run'[p].todo = run[p].todo /\ run'[p].reprice = run[p].reprice
                    /\ run'[p].step = "join" => <<run[p].for, q>> \in jobs
              \/ \E q \in run[p].todo :
                    /\ run'[p].todo = run[p].todo \ {q}
                    /\ run'[p].reprice = Refused(run[p].reprice)
                    /\ \/ run'[p].step = "plan"
                       \/ run'[p].step = "record" /\ run'[p].todo = {}
<1>0. /\ run \in [Handler -> RunType] /\ p \in Handler /\ run[p] \in RunType
      /\ run[p].step = "plan" /\ run[p].todo \subseteq Plan
  BY DEF TypeOK, RunType, Handler, LookForJob, At
<1>1. PICK q \in run[p].todo :
         \/ NextPlan(p, q, Refused(run[p].reprice))
         \/ run' = [run EXCEPT ![p].plan = q,
                               ![p].step = IF JobFor(p, q) \in jobs THEN "join" ELSE "insert"]
  BY DEF LookForJob
<1>2. CASE NextPlan(p, q, Refused(run[p].reprice))
  <2> DEFINE x == Refused(run[p].reprice)
  <2>1. x \in EventState
    BY Outcomes
  <2> HIDE DEF x
  <2>2. NextPlan(p, q, x)
    BY <1>2 DEF x
  <2>3. /\ Moved(p) /\ Keeps(p)
        /\ run'[p].todo = run[p].todo \ {q} /\ run'[p].reprice = x
        /\ \/ run'[p].step = "plan"
           \/ run'[p].step = "record" /\ run'[p].todo = {}
    BY <2>1, <2>2, Proceeds
  <2> QED
    BY <1>0, <2>3 DEF x
<1>3. CASE run' = [run EXCEPT ![p].plan = q,
                              ![p].step = IF JobFor(p, q) \in jobs THEN "join" ELSE "insert"]
  <2> DEFINE t == IF JobFor(p, q) \in jobs THEN "join" ELSE "insert"
             r == [run[p] EXCEPT !.plan = q, !.step = t]
  <2>1. /\ t \in Step /\ t \in {"insert", "join"}
        /\ t = "join" => <<run[p].for, q>> \in jobs
    BY DEF Step, JobFor
  <2>2. run' = [run EXCEPT ![p] = r]
    BY <1>0, <1>3
  <2> HIDE DEF t
  <2>3. /\ r \in RunType /\ r.step = t /\ r.plan = q /\ r.todo = run[p].todo
        /\ r.reprice = run[p].reprice
        /\ r.for = run[p].for /\ r.visible = run[p].visible /\ r.correction = run[p].correction
        /\ r.goal = run[p].goal /\ r.sup = run[p].sup /\ r.best = run[p].best
    BY <1>0, <1>1, <2>1 DEF RunType
  <2> HIDE DEF r
  <2>4. Moved(p) /\ run'[p] = r
    BY <1>0, <2>2, <2>3, Handled DEF Moved
  <2> QED
    BY <1>0, <2>1, <2>3, <2>4 DEF Keeps
<1> QED
  BY <1>1, <1>2, <1>3

LEMMA Inserts ==
    ASSUME TypeOK, NEW p \in Pass, InsertJob(p)
    PROVE  /\ Moved(p) /\ Keeps(p) /\ run[p].step = "insert"
           /\ \/ /\ run'[p].step = "join" /\ run'[p].plan = run[p].plan
                 /\ run'[p].todo = run[p].todo /\ run'[p].reprice = run[p].reprice
                 /\ jobs' = jobs \cup {<<run[p].for, run[p].plan>>}
              \/ /\ run'[p].todo = run[p].todo \ {run[p].plan}
                 /\ run'[p].reprice = Refused(run[p].reprice) /\ jobs' = jobs
                 /\ \/ run'[p].step = "plan"
                    \/ run'[p].step = "record" /\ run'[p].todo = {}
<1>0. /\ run \in [Handler -> RunType] /\ p \in Handler /\ run[p] \in RunType
      /\ run[p].step = "insert" /\ "join" \in Step
  BY DEF TypeOK, RunType, Handler, InsertJob, At, Step
<1>1. CASE jobs' = jobs \cup {JobFor(p, run[p].plan)} /\ Go(p, "join")
  <2>1. Moved(p) /\ run'[p] = [run[p] EXCEPT !.step = "join"]
    BY <1>0, <1>1, Stepped
  <2>2. /\ run'[p].step = "join" /\ run'[p].plan = run[p].plan /\ run'[p].todo = run[p].todo
        /\ run'[p].reprice = run[p].reprice
        /\ Keeps(p)
    BY <1>0, <2>1 DEF RunType, Keeps
  <2> QED
    BY <1>0, <1>1, <2>1, <2>2 DEF JobFor
<1>2. CASE jobs' = jobs /\ NextPlan(p, run[p].plan, Refused(run[p].reprice))
  <2> DEFINE x == Refused(run[p].reprice)
  <2>1. x \in EventState
    BY Outcomes
  <2> HIDE DEF x
  <2>2. NextPlan(p, run[p].plan, x)
    BY <1>2 DEF x
  <2>3. /\ Moved(p) /\ Keeps(p)
        /\ run'[p].todo = run[p].todo \ {run[p].plan} /\ run'[p].reprice = x
        /\ \/ run'[p].step = "plan"
           \/ run'[p].step = "record" /\ run'[p].todo = {}
    BY <2>1, <2>2, Proceeds
  <2> QED
    BY <1>0, <1>2, <2>3 DEF x
<1> QED
  BY <1>1, <1>2 DEF InsertJob

LEMMA Joins ==
    ASSUME TypeOK, NEW p \in Pass, JoinJob(p)
    PROVE  /\ Moved(p) /\ Keeps(p) /\ run[p].step = "join"
           /\ run'[p].todo = run[p].todo \ {run[p].plan}
           /\ \/ run'[p].step = "plan"
              \/ run'[p].step = "record" /\ run'[p].todo = {}
           /\ \/ /\ run'[p].reprice = Joined(run[p].reprice)
                 /\ consumers' = consumers \cup {<<run[p].for, run[p].plan>>}
              \/ run'[p].reprice = Refused(run[p].reprice) /\ consumers' = consumers
<1>1. run[p].step = "join"
  BY DEF JoinJob, At
<1>2. PICK x \in EventState :
         /\ NextPlan(p, run[p].plan, x)
         /\ \/ /\ x = Joined(run[p].reprice)
               /\ consumers' = consumers \cup {<<run[p].for, run[p].plan>>}
            \/ x = Refused(run[p].reprice) /\ consumers' = consumers
  BY Outcomes DEF JoinJob, JobFor
<1>3. /\ Moved(p) /\ Keeps(p)
      /\ run'[p].todo = run[p].todo \ {run[p].plan} /\ run'[p].reprice = x
      /\ \/ run'[p].step = "plan"
         \/ run'[p].step = "record" /\ run'[p].todo = {}
  BY <1>2, Proceeds
<1> QED
  BY <1>1, <1>2, <1>3

\* The steps on the way to the record of a reprice, and those that only read.
Asking(p) == ReadPlans(p) \/ LookForJob(p) \/ InsertJob(p) \/ JoinJob(p)
Reading(p) == PassStart(p) \/ FindDue(p) \/ ChooseExpired(p) \/ ReadEvent(p)

LEMMA Asks ==
    ASSUME TypeOK, NEW p \in Pass, Asking(p)
    PROVE  /\ Moved(p) /\ Keeps(p)
           /\ run[p].step \in {"reprice", "plan", "insert", "join"}
           /\ run'[p].step \in {"plan", "insert", "join", "record"}
           /\ UNCHANGED <<offer, verification, event, reported, lost, alerting>>
<1>1. UNCHANGED <<offer, verification, event, reported, lost, alerting>>
  BY DEF Asking, ReadPlans, LookForJob, InsertJob, JoinJob, lifecycle
<1> QED
  BY <1>1, PlansRead, Looks, Inserts, Joins DEF Asking

\* A pass looks for work, or at the event it recorded.
LEMMA Looking ==
    ASSUME TypeOK, Aimed, NEW p \in Pass, Reading(p)
    PROVE  /\ Moved(p) /\ run[p].step \in {"idle", "due", "choose", "event"}
           /\ run'[p].step \in {"due", "choose", "read", "reprice", "correct", "idle"}
           /\ run'[p].step \notin {"idle", "due", "choose"} => run'[p].for \in Offer
           /\ run'[p].step = "reprice" => run'[p].reprice = "PENDING"
           /\ UNCHANGED <<offer, verification, lifecycle, alerting>>
<1>0. /\ p \in Handler /\ {"due", "choose", "idle"} \subseteq Step /\ supports \subseteq Offer
      /\ UNCHANGED <<offer, verification, lifecycle, alerting>>
  BY DEF Handler, Step, TypeOK, Reading, PassStart, FindDue, ChooseExpired, ReadEvent
<1>1. CASE PassStart(p)
  <2>1. run[p].step = "idle"
    BY <1>1 DEF PassStart, At
  <2>2. CASE \E o \in Resumable : Finish(p, o)
    <3>1. \E o \in Offer : Finish(p, o)
      BY <2>2 DEF Resumable
    <3> QED
      BY <1>0, <2>1, <3>1, Finishes
  <2>3. CASE Go(p, "due")
    BY <1>0, <2>1, <2>3, Stepped
  <2> QED
    BY <1>1, <2>2, <2>3 DEF PassStart
<1>2. CASE FindDue(p)
  BY <1>0, <1>2, Stepped DEF FindDue, At
<1>3. CASE ChooseExpired(p)
  <2>1. run[p].step = "choose"
    BY <1>3 DEF ChooseExpired, At
  <2>2. CASE run'[p].step = "idle"
    <3>1. \A o \in supports : ~(run' = [run EXCEPT ![p].step = "read", ![p].for = o])
      BY <1>0, <2>2 DEF TypeOK
    <3>2. Go(p, "idle")
      BY <1>3, <3>1 DEF ChooseExpired
    <3> QED
      BY <1>0, <2>1, <2>2, <3>2, Stepped
  <2> QED
    BY <1>0, <1>3, <2>1, <2>2, Chooses
<1>4. CASE ReadEvent(p)
  <2>1. run[p].step = "event" /\ run[p].for \in Offer
    BY <1>0, <1>4 DEF ReadEvent, At, Aimed, AimedAt
  <2>2. Finish(p, run[p].for)
    BY <1>4 DEF ReadEvent
  <2> QED
    BY <1>0, <2>1, <2>2, Finishes
<1> QED
  BY <1>1, <1>2, <1>3, <1>4 DEF Reading

LEMMA InitTypes == ASSUME LifecycleAssumption PROVE Init => IInv
<1>1. Idle \in RunType /\ NoEvent \in EventType /\ Idle.step = "idle"
  BY IdleTyped DEF Idle
<1> QED
  BY <1>1 DEF Init, IInv, TypeOK, Aimed, AimedAt, RunType, EventType, Handler, LifecycleAssumption

\* The types of everything but the invocations.
DataTypes ==
    /\ offer \in [Offer -> {"unseen", "fresh", "expired"}]
    /\ verdict \in {"none", "PROBABLE", "CONFIRMED"}
    /\ supports \subseteq Offer /\ fare \in Offer \cup {None}
    /\ event \in [Offer -> EventType] /\ alert \in [Alert -> AlertState]
    /\ jobs \subseteq Offer \X Plan /\ consumers \subseteq Offer \X Plan
    /\ reported \subseteq Offer /\ lost \subseteq Offer /\ held \subseteq Alert
    /\ projecting \subseteq Alert /\ evaluating \in {"yes", "no"} /\ kills \in 0 .. MaxKills

LEMMA Typed == TypeOK <=> DataTypes /\ run \in [Handler -> RunType]
  BY DEF TypeOK, DataTypes, RunType, EventType, AlertState

\* A step of one invocation keeps the types if what it writes does.
LEMMA StepTyped ==
    ASSUME IInv, NEW h \in Handler, Moved(h), DataTypes', AimedAt(h)'
    PROVE  IInv'
<1>1. TypeOK'
  BY DEF Moved, TypeOK, DataTypes, RunType, EventType, AlertState
<1>2. Aimed'
  BY DEF Moved, IInv, Aimed, AimedAt
<1> QED
  BY <1>1, <1>2 DEF IInv

LEMMA RecomputeTypes ==
    ASSUME IInv, NEW h \in Handler, Recompute(h), LifecycleAssumption
    PROVE  IInv'
<1>0. /\ run \in [Handler -> RunType] /\ TypeOK /\ DataTypes /\ AimedAt(h)
      /\ run[h] \in RunType
  BY Typed DEF IInv, Aimed
\* A recompute goes on for the same offer.
<1>a. ASSUME run[h].step \in Recomputing,
             \/ run'[h].step \in Recomputing /\ run'[h].for = run[h].for
             \/ h \notin Job /\ run'[h].step \in {"rotate", "look"} /\ run'[h].for = run[h].for
             \/ h \in Job /\ run'[h] = Idle
      PROVE  AimedAt(h)'
  BY <1>0, <1>a DEF AimedAt, Recomputing, Idle, LifecycleAssumption
<1>1. CASE Read(h)
  <2>1. Moved(h) /\ run[h].step = "read" /\ run'[h].step = "verdict" /\ run'[h].for = run[h].for
    BY <1>0, <1>1, Reads
  <2>2. UNCHANGED <<offer, verification, lifecycle, alerting>>
    BY <1>1 DEF Read
  <2>3. DataTypes'
    BY <1>0, <2>2 DEF DataTypes, verification, lifecycle, alerting
  <2> QED
    BY <1>a, <2>1, <2>3, StepTyped DEF Recomputing
<1>2. CASE WriteVerdict(h)
  <2>1. /\ Moved(h) /\ run[h].step = "verdict" /\ run'[h].step = "supports"
        /\ run'[h].for = run[h].for
    BY <1>0, <1>2, Stepped DEF WriteVerdict, At, Step
  <2>2. run[h].goal \in {"PROBABLE", "CONFIRMED"}
    BY <1>0 DEF RunType
  <2>3. DataTypes'
    BY <1>0, <1>2, <2>2 DEF WriteVerdict, DataTypes, lifecycle, alerting
  <2> QED
    BY <1>a, <2>1, <2>3, StepTyped DEF Recomputing
<1>3. CASE WriteSupports(h)
  <2>1. /\ Moved(h) /\ run[h].step = "supports" /\ run'[h].step = "candidate"
        /\ run'[h].for = run[h].for
    BY <1>0, <1>3, Stepped DEF WriteSupports, At, Step
  <2>2. run[h].sup \subseteq Offer
    BY <1>0 DEF RunType
  <2>3. DataTypes'
    BY <1>0, <1>3, <2>2 DEF WriteSupports, DataTypes, lifecycle, alerting
  <2> QED
    BY <1>a, <2>1, <2>3, StepTyped DEF Recomputing
<1>4. CASE WriteCandidate(h)
  <2>1. Moved(h) /\ AimedAt(h)'
    <3>1. CASE h \in Job
      BY <1>0, <1>4, <1>a, <3>1, Stopped DEF WriteCandidate, At, Recomputing
    <3>2. CASE h \notin Job
      BY <1>0, <1>4, <1>a, <3>2, Stepped DEF WriteCandidate, At, Step, Recomputing
    <3> QED
      BY <3>1, <3>2
  <2>2. run[h].best \in Offer \cup {None}
    BY <1>0 DEF RunType
  <2>3. DataTypes'
    BY <1>0, <1>4, <2>2 DEF WriteCandidate, DataTypes, lifecycle, alerting
  <2> QED
    BY <2>1, <2>3, StepTyped
<1> QED
  BY <1>1, <1>2, <1>3, <1>4 DEF Recompute

LEMMA PassTypes ==
    ASSUME IInv, NEW p \in Pass, PassStep(p), LifecycleAssumption
    PROVE  IInv'
<1>0. /\ run \in [Handler -> RunType] /\ TypeOK /\ DataTypes /\ p \in Handler /\ p \notin Job
      /\ run[p] \in RunType /\ Aimed /\ AimedAt(p)
      /\ run[p].step \notin {"idle", "due", "choose"} => run[p].for \in Offer
  BY Typed DEF IInv, Handler, Aimed, AimedAt, LifecycleAssumption
\* A step that leaves no plan to be asked about.
<1>a. ASSUME run'[p].step \notin {"insert", "join"},
             run'[p].step \notin {"idle", "due", "choose"} => run'[p].for \in Offer
      PROVE  AimedAt(p)'
  BY <1>0, <1>a DEF AimedAt
<1>1. CASE Reading(p)
  <2>1. DataTypes'
    BY <1>0, <1>1, Looking DEF DataTypes, verification, lifecycle, alerting
  <2> QED
    BY <1>0, <1>1, <1>a, <2>1, Looking, StepTyped
<1>2. CASE RecordRotation(p)
  <2>1. Moved(p) /\ run'[p].step = "idle"
    BY <1>0, <1>2, Stopped DEF RecordRotation
  <2>2. DataTypes'
    <3>1. event' \in [Offer -> EventType]
      BY <1>0, <1>2 DEF RecordRotation, Recorded, DataTypes, EventType, EventState
    <3>2. UNCHANGED <<offer, verification, repricing, alerting>>
      BY <1>2 DEF RecordRotation
    <3> QED
      BY <1>0, <3>1, <3>2 DEF DataTypes, verification, alerting
  <2> QED
    BY <1>a, <1>0, <2>1, <2>2, StepTyped
<1>3. CASE CountVisible(p)
  <2>1. Moved(p) /\ run'[p].step = "apply" /\ run'[p].for \in Offer
    <3>1. /\ Moved(p) /\ run[p].step = "look" /\ run'[p].step = "apply"
          /\ run'[p] = [run[p] EXCEPT !.step = "apply", !.visible = run'[p].visible]
      BY <1>0, <1>3, Counts
    <3>2. run'[p].for = run[p].for
      BY <1>0, <3>1 DEF RunType
    <3> QED
      BY <1>0, <3>1, <3>2
  <2>2. DataTypes'
    <3>1. UNCHANGED <<offer, verification, lifecycle, alerting>>
      BY <1>3 DEF CountVisible
    <3> QED
      BY <1>0, <3>1 DEF DataTypes, verification, lifecycle, alerting
  <2> QED
    BY <1>a, <1>0, <2>1, <2>2, StepTyped
<1>4. CASE ApplyExpiry(p)
  <2>1. Moved(p) /\ run'[p].step = "event" /\ run'[p].for \in Offer
    BY <1>0, <1>4, Stepped DEF ApplyExpiry, At, Step
  <2>2. DataTypes'
    <3>1. event' \in [Offer -> EventType]
      <4>1. run[p].visible \in {"yes", "no"} /\ "PENDING" \in EventState
        BY <1>0 DEF RunType, EventState
      <4>2. [visible |-> run[p].visible, correction |-> "PENDING", reprice |-> "PENDING"]
                \in EventType
        BY <4>1 DEF EventType
      <4> QED
        BY <1>0, <1>4, <4>2 DEF ApplyExpiry, Recorded, DataTypes
    <3>2. alert' \in [Alert -> AlertState]
      BY <1>0, <1>4 DEF ApplyExpiry, Suppressed, DataTypes, AlertState
    <3>3. /\ verdict' = "PROBABLE" /\ supports' = {} /\ fare' = None /\ held' \subseteq Alert
          /\ UNCHANGED <<offer, repricing, projecting, evaluating, kills>>
      BY <1>4 DEF ApplyExpiry
    <3> QED
      BY <1>0, <3>1, <3>2, <3>3 DEF DataTypes
  <2> QED
    BY <1>a, <1>0, <2>1, <2>2, StepTyped
<1>5. CASE ReadPlans(p) \/ LookForJob(p) \/ InsertJob(p) \/ JoinJob(p)
  <2>1. /\ Moved(p) /\ run'[p].for = run[p].for /\ run[p].for \in Offer
        /\ UNCHANGED <<offer, verification, event, reported, lost, alerting>>
    BY <1>0, <1>5, Asks DEF Asking, Keeps
  <2>2. CASE ReadPlans(p)
    <3>1. UNCHANGED lifecycle
      BY <2>2 DEF ReadPlans
    <3>2. DataTypes'
      BY <1>0, <2>1, <3>1 DEF DataTypes, verification, lifecycle, alerting
    <3> QED
      BY <1>a, <1>0, <2>1, <2>2, <3>2, PlansRead, StepTyped
  <2>3. CASE LookForJob(p)
    <3>1. UNCHANGED lifecycle
      BY <2>3 DEF LookForJob
    <3>2. DataTypes'
      BY <1>0, <2>1, <3>1 DEF DataTypes, verification, lifecycle, alerting
    <3>3. run'[p].step \in {"insert", "join"} => run'[p].plan \in run'[p].todo
      BY <1>0, <2>3, Looks
    <3>4. AimedAt(p)'
      BY <1>0, <2>1, <3>3 DEF AimedAt
    <3> QED
      BY <1>0, <2>1, <3>2, <3>4, StepTyped
  <2>4. CASE InsertJob(p)
    <3>1. /\ run[p].step = "insert"
          /\ run'[p].step = "join" => run'[p].plan = run[p].plan /\ run'[p].todo = run[p].todo
          /\ run'[p].step \in {"join", "plan", "record"}
          /\ jobs' \in {jobs, jobs \cup {<<run[p].for, run[p].plan>>}}
      BY <1>0, <2>4, Inserts
    <3>2. run[p].plan \in run[p].todo /\ run[p].plan \in Plan
      BY <1>0, <3>1 DEF AimedAt, RunType
    <3>3. AimedAt(p)'
      BY <1>0, <2>1, <3>1, <3>2 DEF AimedAt
    <3>4. DataTypes'
      BY <1>0, <2>1, <2>4, <3>1, <3>2 DEF InsertJob, DataTypes, verification, alerting
    <3> QED
      BY <1>0, <2>1, <3>3, <3>4, StepTyped
  <2>5. CASE JoinJob(p)
    <3>1. /\ run[p].step = "join" /\ run'[p].step \in {"plan", "record"}
          /\ consumers' \in {consumers, consumers \cup {<<run[p].for, run[p].plan>>}}
      BY <1>0, <2>5, Joins
    <3>2. run[p].plan \in Plan
      BY <1>0, <3>1 DEF AimedAt, RunType
    <3>3. AimedAt(p)'
      BY <1>a, <2>1, <3>1
    <3>4. DataTypes'
      BY <1>0, <2>1, <2>5, <3>1, <3>2 DEF JoinJob, DataTypes, verification, alerting
    <3> QED
      BY <1>0, <2>1, <3>3, <3>4, StepTyped
  <2> QED
    BY <1>5, <2>2, <2>3, <2>4, <2>5
<1>7. CASE RecordReprice(p)
  <2>1. /\ Moved(p) /\ run'[p].step \in {"report", "correct", "idle"}
        /\ run'[p].for = run[p].for /\ run[p].for \in Offer
    BY <1>0, <1>7, Stepped DEF RecordReprice, AfterReprice, At, Step
  <2>2. DataTypes'
    <3>1. event' \in [Offer -> EventType]
      <4>1. run[p].reprice \in EventState \cup {"none"}
        BY <1>0 DEF RunType
      <4>2. event \in [Offer -> EventType]
        BY <1>0 DEF DataTypes
      <4>3. event' = [event EXCEPT ![run[p].for].reprice = run[p].reprice]
        BY <1>7 DEF RecordReprice
      <4>4. [event[run[p].for] EXCEPT !.reprice = run[p].reprice] \in EventType
        BY <2>1, <4>1, <4>2, <4>3, EventUpdates
      <4> QED
        BY <2>1, <4>2, <4>3, <4>4
    <3>2. UNCHANGED <<offer, verification, repricing, alerting>>
      BY <1>7 DEF RecordReprice
    <3> QED
      BY <1>0, <3>1, <3>2 DEF DataTypes, verification, alerting
  <2> QED
    BY <1>a, <1>0, <2>1, <2>2, StepTyped
<1>8. CASE ReportReprice(p)
  <2>1. /\ Moved(p) /\ run'[p].step \in {"correct", "idle"}
        /\ run'[p].for = run[p].for /\ run[p].for \in Offer
    BY <1>0, <1>8, Stepped DEF ReportReprice, AfterReprice, At, Step
  <2>2. DataTypes'
    BY <1>0, <1>8, <2>1 DEF ReportReprice, DataTypes, verification, alerting
  <2> QED
    BY <1>a, <1>0, <2>1, <2>2, StepTyped
<1>9. CASE EnqueueCorrection(p)
  <2>1. Moved(p) /\ run'[p].step = "close" /\ run'[p].for \in Offer
    BY <1>0, <1>9, Stepped DEF EnqueueCorrection, At, Step
  <2>2. DataTypes'
    <3>1. alert' \in [Alert -> AlertState]
      BY <1>0, <1>9 DEF EnqueueCorrection, DataTypes, AlertState
    <3>2. UNCHANGED <<offer, verification, lifecycle, sending, kills>>
      BY <1>9 DEF EnqueueCorrection
    <3> QED
      BY <1>0, <3>1, <3>2 DEF DataTypes, verification, lifecycle
  <2> QED
    BY <1>a, <1>0, <2>1, <2>2, StepTyped
<1>10. CASE CloseCorrection(p)
  <2>1. Moved(p) /\ run'[p].step = "idle"
    BY <1>0, <1>10, Stopped DEF CloseCorrection
  <2>2. DataTypes'
    <3>1. event' \in [Offer -> EventType]
      <4>1. "ENQUEUED" \in EventState /\ "NOT_REQUIRED" \in EventState
        BY DEF EventState
      <4>2. event \in [Offer -> EventType]
        BY <1>0 DEF DataTypes
      <4>3. event' = [event EXCEPT ![run[p].for].correction =
                          IF run[p].visible = "yes" THEN "ENQUEUED" ELSE "NOT_REQUIRED"]
            /\ run[p].for \in Offer
        BY <1>0, <1>10 DEF CloseCorrection, At
      <4>4. [event[run[p].for] EXCEPT !.correction =
                IF run[p].visible = "yes" THEN "ENQUEUED" ELSE "NOT_REQUIRED"] \in EventType
        BY <4>1, <4>2, <4>3, EventUpdates
      <4> QED
        BY <4>2, <4>3, <4>4
    <3>2. UNCHANGED <<offer, verification, repricing, alerting>>
      BY <1>10 DEF CloseCorrection
    <3> QED
      BY <1>0, <3>1, <3>2 DEF DataTypes, verification, alerting
  <2> QED
    BY <1>a, <1>0, <2>1, <2>2, StepTyped
<1> QED
  BY <1>1, <1>2, <1>3, <1>4, <1>5, <1>7, <1>8, <1>9, <1>10 DEF PassStep, Reading, Reprice

LEMMA OfferTypes ==
    ASSUME IInv, LifecycleAssumption,
           \/ \E o \in Offer : Expire(o)
           \/ \E j \in Job, S \in SUBSET Offer : Complete(j, S)
           \/ \E h \in Handler : Kill(h)
    PROVE  IInv'
<1>0. /\ run \in [Handler -> RunType] /\ TypeOK /\ IInv /\ Aimed
      /\ Pass \subseteq Handler /\ Job \subseteq Handler
  BY RunTyped DEF IInv, Handler
<1>1. ASSUME NEW o \in Offer, Expire(o) PROVE IInv'
  BY <1>0, <1>1 DEF Expire, IInv, TypeOK, Aimed, AimedAt, verification, lifecycle, alerting
<1>2. ASSUME NEW j \in Job, NEW S \in SUBSET Offer, Complete(j, S) PROVE IInv'
  <2>1. offer' \in [Offer -> {"unseen", "fresh", "expired"}]
    BY <1>0, <1>2 DEF Complete, TypeOK
  <2>2. Moved(j) /\ AimedAt(j)'
    BY <1>0, <1>2, Stepped DEF Complete, Step, LifecycleAssumption, AimedAt, Recomputing
  <2>3. UNCHANGED <<verification, lifecycle, alerting>>
    BY <1>2 DEF Complete
  <2>4. DataTypes'
    BY <1>0, <2>1, <2>3, Typed DEF DataTypes, verification, lifecycle, alerting
  <2> QED
    BY <1>0, <2>2, <2>4, StepTyped
<1>3. ASSUME NEW h \in Handler, Kill(h) PROVE IInv'
  <2>1. kills' \in 0 .. MaxKills
    BY <1>0, <1>3 DEF Kill, TypeOK, LifecycleAssumption
  <2>2. At(h, "report") => run[h].for \in Offer
    BY <1>0 DEF Aimed, AimedAt, At, Handler, Recomputing
  <2>3. lost' \subseteq Offer
    BY <1>0, <1>3, <2>2 DEF Kill, TypeOK
  <2>4. DataTypes'
    BY <1>0, <1>3, <2>1, <2>3, Typed DEF Kill, DataTypes, verification
  <2>5. Moved(h) /\ AimedAt(h)'
    BY <1>0, <1>3, Stopped DEF Kill, AimedAt
  <2> QED
    BY <1>0, <2>4, <2>5, StepTyped
<1> QED
  BY <1>1, <1>2, <1>3

\* The evaluation, the projection and the delivery.
Alerting ==
    \/ EvaluateRead \/ \E d \in Deal : EvaluateEnqueue(d)
    \/ ProjectSelect \/ ProjectInsert
    \/ \E a \in Alert : Lease(a) \/ Settle(a)

LEMMA AlertTypes == ASSUME IInv, Alerting PROVE IInv'
<1>0. /\ run \in [Handler -> RunType] /\ TypeOK /\ Aimed
      /\ alert \in [Alert -> AlertState]
  BY RunTyped DEF IInv, TypeOK, AlertState
<1>1. /\ alert' \in [Alert -> AlertState] /\ projecting' \subseteq Alert
      /\ evaluating' \in {"yes", "no"}
  BY <1>0 DEF Alerting, EvaluateRead, EvaluateEnqueue, ProjectSelect, ProjectInsert, Lease, Settle,
              TypeOK, AlertState
<1>2. UNCHANGED <<offer, verification, lifecycle, run, held, kills>>
  BY DEF Alerting, EvaluateRead, EvaluateEnqueue, ProjectSelect, ProjectInsert, Lease, Settle
<1> QED
  BY <1>0, <1>1, <1>2 DEF IInv, TypeOK, Aimed, AimedAt, AlertState, verification, lifecycle

LEMMA NextTypes == ASSUME LifecycleAssumption PROVE IInv /\ [Next]_vars => IInv'
<1> SUFFICES ASSUME IInv, [Next]_vars PROVE IInv'
  OBVIOUS
<1>1. CASE UNCHANGED vars
  BY <1>1 DEF vars, IInv, TypeOK, Aimed, AimedAt
<1>2. CASE Next
  BY <1>2, OfferTypes, RecomputeTypes, PassTypes, AlertTypes DEF Next, Alerting
<1> QED
  BY <1>1, <1>2

\* Every variable keeps its type, and a pass at work works for an offer of the
\* candidate, whatever overlaps and wherever invocations are killed.
THEOREM TypeCorrect == Spec => []TypeOK
<1>1. IInv => TypeOK
  BY DEF IInv
<1> QED
  BY <1>1, InitTypes, NextTypes, LifecycleAssumption, PTL DEF Spec
-----------------------------------------------------------------------------
(* Reprice jobs, their consumers and their reports.                        *)

\* Jobs, consumers and reports are only added.
LEMMA NothingUndone ==
    [Next]_vars => /\ jobs \subseteq jobs' /\ consumers \subseteq consumers'
                   /\ reported \subseteq reported' /\ lost \subseteq lost'
<1> SUFFICES ASSUME [Next]_vars
             PROVE  /\ jobs \subseteq jobs' /\ consumers \subseteq consumers'
                    /\ reported \subseteq reported' /\ lost \subseteq lost'
  OBVIOUS
<1>1. CASE UNCHANGED repricing
  BY <1>1
<1>2. ASSUME NEW h \in Handler, Kill(h) PROVE UNCHANGED <<jobs, consumers, reported>>
                                                /\ lost \subseteq lost'
  BY <1>2 DEF Kill
<1>3. ASSUME NEW p \in Pass, Reprice(p)
      PROVE  /\ jobs \subseteq jobs' /\ consumers \subseteq consumers'
             /\ reported \subseteq reported' /\ lost \subseteq lost'
  BY <1>3 DEF Reprice, ReadPlans, LookForJob, InsertJob, JoinJob, RecordReprice, ReportReprice,
              lifecycle
<1>4. CASE UNCHANGED vars
  BY <1>1, <1>4 DEF vars
<1>5. ASSUME NEW h \in Handler, Recompute(h) PROVE UNCHANGED repricing
  BY <1>5 DEF Recompute, Read, WriteVerdict, WriteSupports, WriteCandidate, lifecycle
<1>6. ASSUME NEW p \in Pass, PassStep(p), ~Reprice(p) PROVE UNCHANGED repricing
  BY <1>6 DEF PassStep, PassStart, FindDue, ChooseExpired, RecordRotation, CountVisible,
              ApplyExpiry, ReadEvent, EnqueueCorrection, CloseCorrection, lifecycle
<1>7. CASE \/ \E o \in Offer : Expire(o)
           \/ \E j \in Job, S \in SUBSET Offer : Complete(j, S)
           \/ Alerting
  <2>1. UNCHANGED repricing
    BY <1>7 DEF Expire, Complete, Alerting, EvaluateRead, EvaluateEnqueue, ProjectSelect,
                ProjectInsert, Lease, Settle, lifecycle
  <2> QED
    BY <1>1, <2>1
<1> QED
  BY <1>1, <1>2, <1>3, <1>4, <1>5, <1>6, <1>7 DEF Next, Alerting

\* A pass whose invocation no step touches still knows what it has done.
LEMMA OthersKnow ==
    ASSUME [Next]_vars, NEW p \in Pass, RepriceOK(p), run'[p] = run[p]
    PROVE  RepriceOK(p)'
<1>1. jobs \subseteq jobs' /\ consumers \subseteq consumers'
  BY NothingUndone
<1>2. \A o, q : Has(o, q) => Has(o, q)'
  BY <1>1 DEF Has
<1> QED
  BY <1>1, <1>2 DEF RepriceOK, At

\* A plan the pass has done with is joined, or counted as refused.
LEMMA AsksRight ==
    ASSUME IInv, NEW p \in Pass, RepriceOK(p), Asking(p), [Next]_vars
    PROVE  RepriceOK(p)'
<1>0. PICK o, x : o = run[p].for /\ x = run[p].reprice
  OBVIOUS
<1>1. /\ TypeOK /\ p \in Handler /\ run[p].todo \subseteq Plan
      /\ run[p].step \in {"insert", "join"} => run[p].plan \in run[p].todo
  BY DEF IInv, Aimed, AimedAt, Handler, TypeOK
<1>2. /\ run'[p].for = o /\ run'[p].step \in {"plan", "insert", "join", "record"}
      /\ run[p].step \in {"reprice", "plan", "insert", "join"}
  BY <1>0, <1>1, Asks DEF Keeps
<1>3. jobs \subseteq jobs' /\ consumers \subseteq consumers'
  BY NothingUndone
<1>4. \A q : Has(o, q) => Has(o, q)'
  BY <1>0, <1>3 DEF Has
\* Nothing is done yet, or not all of it.
<1>5. ASSUME run'[p].todo = run[p].todo, run'[p].reprice = x, run[p].step # "reprice",
             run'[p].step \in {"insert", "join"},
             run'[p].step = "join" => <<o, run'[p].plan>> \in jobs'
      PROVE  RepriceOK(p)'
  BY <1>0, <1>2, <1>4, <1>5 DEF RepriceOK, At
\* The plan q is done with, and joined if it counts.
<1>6. ASSUME NEW q \in run[p].todo, run'[p].todo = run[p].todo \ {q}, run[p].step # "reprice",
             \/ run'[p].step = "plan"
             \/ run'[p].step = "record" /\ run'[p].todo = {},
             \/ run'[p].reprice = Refused(x)
             \/ run'[p].reprice = Joined(x) /\ Has(o, q)'
      PROVE  RepriceOK(p)'
  <2>1. /\ x \in {"PENDING", "ENQUEUED", "PARTIAL", "FAILED"}
        /\ x \in {"PENDING", "ENQUEUED"} => \A r \in Plan \ run[p].todo : Has(o, r)'
        /\ x \in {"ENQUEUED", "PARTIAL"} => \E r \in Plan : Has(o, r)'
    BY <1>0, <1>2, <1>4, <1>6 DEF RepriceOK
  <2>2. /\ run'[p].reprice \in {"ENQUEUED", "PARTIAL", "FAILED"}
        /\ run'[p].reprice = "ENQUEUED" => x \in {"PENDING", "ENQUEUED"} /\ Has(o, q)'
        /\ run'[p].reprice = "PARTIAL" => (\E r \in Plan : Has(o, r)')
    BY <1>0, <1>1, <1>6, <2>1 DEF Refused, Joined
  <2> QED
    BY <1>0, <1>1, <1>2, <1>6, <2>1, <2>2 DEF RepriceOK, At
<1>7. CASE ReadPlans(p)
  <2>1. x = "PENDING" /\ run[p].step = "reprice"
    BY <1>0, <1>1, <1>7, PlansRead DEF RepriceOK, At
  <2>2. CASE run'[p].step = "plan" /\ run'[p].todo = Plan /\ run'[p].reprice = x
    BY <1>0, <2>1, <2>2 DEF RepriceOK, At
  <2>3. CASE run'[p].step = "record" /\ run'[p].todo = run[p].todo /\ run'[p].reprice = "FAILED"
    BY <1>0, <2>1, <2>3 DEF RepriceOK, At
  <2> QED
    BY <1>0, <1>1, <1>7, <2>2, <2>3, PlansRead
<1>8. CASE LookForJob(p)
  <2>1. UNCHANGED jobs
    BY <1>0, <1>8 DEF LookForJob, lifecycle
  <2> QED
    BY <1>0, <1>1, <1>5, <1>6, <1>8, <2>1, Looks
<1>9. CASE InsertJob(p)
  BY <1>0, <1>1, <1>5, <1>6, <1>9, Inserts
<1>10. CASE JoinJob(p)
  <2>1. <<o, run[p].plan>> \in jobs' /\ run[p].step = "join"
    BY <1>0, <1>1, <1>3, <1>10, Joins DEF RepriceOK, At
  <2>2. PICK q : q = run[p].plan
    OBVIOUS
  <2>3. run'[p].reprice = Refused(x) \/ (run'[p].reprice = Joined(x) /\ Has(o, q)')
    BY <1>0, <1>1, <1>10, <2>1, <2>2, Joins DEF Has
  <2> QED
    BY <1>0, <1>1, <1>6, <1>10, <2>1, <2>2, <2>3, Joins
<1> QED
  BY <1>0, <1>7, <1>8, <1>9, <1>10 DEF Asking

LEMMA NextKnows ==
    ASSUME IInv, RepriceInv, [Next]_vars, LifecycleAssumption, NEW p \in Pass
    PROVE  RepriceOK(p)'
<1>0. /\ TypeOK /\ Aimed /\ RepriceOK(p) /\ Pass \cup Job = Handler /\ p \notin Job
  BY DEF IInv, RepriceInv, Handler, LifecycleAssumption
\* A step of somebody else, or one that leads to no step of the reprice.
<1>1. ASSUME NEW h \in Handler, Moved(h),
             run'[h].step \notin {"reprice", "plan", "insert", "join", "record"}
      PROVE  RepriceOK(p)'
  <2>1. CASE h = p
    BY <1>1, <2>1 DEF RepriceOK, At
  <2>2. CASE h # p
    BY <1>0, <1>1, <2>2, OthersKnow DEF Moved
  <2> QED
    BY <2>1, <2>2
<1>2. CASE UNCHANGED run
  BY <1>0, <1>2, OthersKnow
<1>3. CASE UNCHANGED vars
  BY <1>2, <1>3 DEF vars
<1>4. CASE (\E o \in Offer : Expire(o)) \/ Alerting
  <2>1. UNCHANGED run
    BY <1>4 DEF Expire, Alerting, EvaluateRead, EvaluateEnqueue, ProjectSelect, ProjectInsert,
                Lease, Settle
  <2> QED
    BY <1>2, <2>1
<1>5. ASSUME NEW j \in Job, NEW S \in SUBSET Offer, Complete(j, S) PROVE RepriceOK(p)'
  <2>1. Moved(j) /\ run'[j].step = "read"
    BY <1>0, <1>5, Stepped DEF Complete, Step
  <2> QED
    BY <1>0, <1>1, <2>1
<1>6. ASSUME NEW h \in Handler, Kill(h) PROVE RepriceOK(p)'
  BY <1>0, <1>1, <1>6, Stopped DEF Kill
<1>7. ASSUME NEW h \in Handler, Recompute(h) PROVE RepriceOK(p)'
  <2>1. Moved(h) /\ run'[h].step \notin {"reprice", "plan", "insert", "join", "record"}
    BY <1>0, <1>7, Reads, Stepped, Stopped
       DEF Recompute, WriteVerdict, WriteSupports, WriteCandidate, At, Step
  <2> QED
    BY <1>1, <2>1
<1>8. ASSUME NEW q \in Pass, PassStep(q) PROVE RepriceOK(p)'
  <2>1. CASE Reading(q)
    <3>1. /\ Moved(q) /\ run'[q].step \in {"due", "choose", "read", "reprice", "correct", "idle"}
          /\ run'[q].step = "reprice" => run'[q].reprice = "PENDING"
      BY <1>0, <2>1, Looking
    <3>2. CASE q = p /\ run'[q].step = "reprice"
      BY <3>1, <3>2 DEF RepriceOK, At
    <3>3. CASE q # p
      BY <1>0, <3>1, <3>3, OthersKnow DEF Moved
    <3> QED
      BY <1>0, <1>1, <3>1, <3>2, <3>3
  <2>2. CASE Asking(q)
    <3>1. CASE q = p
      BY <1>0, <2>2, <3>1, AsksRight
    <3>2. CASE q # p
      BY <1>0, <2>2, <3>2, Asks, OthersKnow DEF Moved
    <3> QED
      BY <3>1, <3>2
  <2>3. CASE CountVisible(q)
    BY <1>0, <1>1, <2>3, Counts
  <2>4. CASE RecordRotation(q) \/ CloseCorrection(q)
    BY <1>0, <1>1, <2>4, Stopped DEF RecordRotation, CloseCorrection
  <2>5. CASE \/ ApplyExpiry(q) \/ RecordReprice(q) \/ ReportReprice(q) \/ EnqueueCorrection(q)
    <3>1. Moved(q) /\ run'[q].step \in {"event", "report", "correct", "idle", "close"}
      BY <1>0, <2>5, Stepped
         DEF ApplyExpiry, RecordReprice, ReportReprice, EnqueueCorrection, AfterReprice, Step
    <3> QED
      BY <1>0, <1>1, <3>1
  <2> QED
    BY <1>8, <2>1, <2>2, <2>3, <2>4, <2>5 DEF PassStep, Reading, Asking, Reprice
<1> QED
  BY <1>3, <1>4, <1>5, <1>6, <1>7, <1>8 DEF Next, Alerting

\* A report that is due stays due until it is made, or its pass killed at it.
LEMMA NextTold ==
    ASSUME IInv, NEW o \in Offer, Told(o), [Next]_vars, LifecycleAssumption
    PROVE  Told(o)'
<1>0. /\ TypeOK /\ Aimed /\ Pass \cup Job = Handler
      /\ reported \subseteq reported' /\ lost \subseteq lost'
  BY NothingUndone DEF IInv, Handler
<1>1. SUFFICES ASSUME NEW p \in Pass, run[p].step = "report", run[p].for = o
               PROVE  Told(o)'
  BY <1>0 DEF Told, At
<1>2. CASE run'[p] = run[p]
  BY <1>1, <1>2 DEF Told, At
\* A step of somebody who is not reporting.
<1>3. ASSUME NEW h \in Handler, Moved(h), run[h].step # "report" PROVE Told(o)'
  BY <1>0, <1>1, <1>2, <1>3 DEF Moved
<1>4. CASE UNCHANGED run
  BY <1>2, <1>4
<1>5. CASE (\E e \in Offer : Expire(e)) \/ Alerting \/ UNCHANGED vars
  <2>1. UNCHANGED run
    BY <1>5 DEF Expire, Alerting, EvaluateRead, EvaluateEnqueue, ProjectSelect, ProjectInsert,
                Lease, Settle, vars
  <2> QED
    BY <1>4, <2>1
<1>6. ASSUME NEW j \in Job, NEW S \in SUBSET Offer, Complete(j, S) PROVE Told(o)'
  <2>1. Moved(j) /\ run[j].step = "idle"
    BY <1>0, <1>6, Stepped DEF Complete, Step, At
  <2> QED
    BY <1>0, <1>3, <2>1
<1>7. ASSUME NEW h \in Handler, Kill(h) PROVE Told(o)'
  <2>1. CASE h = p
    BY <1>1, <1>7, <2>1 DEF Kill, At, Told
  <2>2. CASE h # p
    BY <1>0, <1>2, <1>7, <2>2, Stopped DEF Kill, Moved
  <2> QED
    BY <2>1, <2>2
<1>8. ASSUME NEW h \in Handler, Recompute(h) PROVE Told(o)'
  <2>1. Moved(h) /\ run[h].step # "report"
    BY <1>0, <1>8, Reads, Stepped, Stopped
       DEF Recompute, WriteVerdict, WriteSupports, WriteCandidate, At, Step
  <2> QED
    BY <1>3, <2>1
<1>9. ASSUME NEW q \in Pass, PassStep(q) PROVE Told(o)'
  <2>1. CASE ReportReprice(q)
    <3>1. CASE q = p
      BY <1>1, <2>1, <3>1 DEF ReportReprice, Told
    <3>2. CASE q # p
      BY <1>0, <1>2, <2>1, <3>2, Stepped DEF ReportReprice, AfterReprice, Step, Moved
    <3> QED
      BY <3>1, <3>2
  <2>2. CASE Reading(q) \/ Asking(q)
    BY <1>0, <1>3, <2>2, Looking, Asks
  <2>3. CASE CountVisible(q)
    BY <1>0, <1>3, <2>3, Counts
  <2>4. CASE RecordRotation(q) \/ CloseCorrection(q)
    BY <1>0, <1>3, <2>4, Stopped DEF RecordRotation, CloseCorrection, At
  <2>5. CASE ApplyExpiry(q) \/ RecordReprice(q) \/ EnqueueCorrection(q)
    <3>1. Moved(q) /\ run[q].step # "report"
      BY <1>0, <2>5, Stepped DEF ApplyExpiry, RecordReprice, EnqueueCorrection, AfterReprice, Step, At
    <3> QED
      BY <1>0, <1>3, <3>1
  <2> QED
    BY <1>9, <2>1, <2>2, <2>3, <2>4, <2>5 DEF PassStep, Reading, Asking, Reprice
<1> QED
  BY <1>5, <1>6, <1>7, <1>8, <1>9 DEF Next, Alerting

\* Only the record of a reprice changes what an event says of it, or its batch.
LEMMA NextEvents ==
    ASSUME IInv, RepriceInv, [Next]_vars, LifecycleAssumption, NEW o \in Offer
    PROVE  EventJoined(o)'
<1>0. /\ TypeOK /\ EventJoined(o) /\ Pass \subseteq Handler
      /\ event \in [Offer -> EventType]
  BY DEF IInv, TypeOK, EventType, RepriceInv, Handler
<1>1. jobs \subseteq jobs' /\ consumers \subseteq consumers'
  BY NothingUndone
<1>2. \A q : Has(o, q) => Has(o, q)'
  BY <1>1 DEF Has
\* An event that says nothing of its own.
<1>3. ASSUME event'[o].reprice = event[o].reprice
             \/ event'[o].reprice \in {"PENDING", "NOT_REQUIRED"}
      PROVE  EventJoined(o)'
  BY <1>0, <1>2, <1>3, NextTold DEF EventJoined
<1>4. ASSUME NEW p \in Pass, RecordReprice(p) PROVE EventJoined(o)'
  <2>1. run[p].step = "record" /\ run[p].for \in Offer /\ RepriceOK(p)
    BY <1>0, <1>4 DEF RecordReprice, IInv, Aimed, AimedAt, At, RepriceInv
  <2>2. CASE o # run[p].for
    <3>1. event'[o] = event[o]
      BY <1>0, <1>4, <2>1, <2>2 DEF RecordReprice
    <3> QED
      BY <1>3, <3>1
  <2>3. CASE o = run[p].for
    <3>1. event'[o].reprice = run[p].reprice
      BY <1>0, <1>4, <2>3 DEF RecordReprice, EventType
    <3>2. run[p].reprice # "ENQUEUED" => run'[p].step = "report" /\ run'[p].for = o
      BY <1>0, <1>4, <2>3, Stepped DEF RecordReprice, Step
    <3>3. /\ run[p].reprice = "ENQUEUED" => \A q \in Plan : Has(o, q)
          /\ run[p].reprice = "PARTIAL" => \E q \in Plan : Has(o, q)
      BY <2>1, <2>3 DEF RepriceOK, At
    <3>4. run[p].reprice # "ENQUEUED" => Told(o)'
      BY <3>2 DEF Told, At
    <3> QED
      BY <1>2, <3>1, <3>3, <3>4 DEF EventJoined
  <2> QED
    BY <2>2, <2>3
<1>5. ASSUME NEW p \in Pass, RecordRotation(p) \/ ApplyExpiry(p) PROVE EventJoined(o)'
  <2>1. PICK e : /\ event' = Recorded(run[p].for, e)
                 /\ e.reprice \in {"PENDING", "NOT_REQUIRED"}
    BY <1>5 DEF RecordRotation, ApplyExpiry
  <2>2. event'[o] = event[o] \/ event'[o] = e
    BY <1>0, <2>1 DEF Recorded
  <2> QED
    BY <1>3, <2>1, <2>2
<1>6. ASSUME NEW p \in Pass, CloseCorrection(p) PROVE EventJoined(o)'
  <2>1. event'[o].reprice = event[o].reprice
    BY <1>0, <1>6 DEF CloseCorrection, EventType
  <2> QED
    BY <1>3, <2>1
<1>7. CASE UNCHANGED event
  BY <1>3, <1>7
<1>8. CASE UNCHANGED vars
  BY <1>7, <1>8 DEF vars
<1>9. CASE \/ \E e \in Offer : Expire(e)
           \/ \E j \in Job, S \in SUBSET Offer : Complete(j, S)
           \/ \E h \in Handler : Kill(h) \/ Recompute(h)
           \/ Alerting
  <2>1. UNCHANGED event
    BY <1>9 DEF Expire, Complete, Kill, Recompute, Read, WriteVerdict, WriteSupports,
                WriteCandidate, Alerting, EvaluateRead, EvaluateEnqueue, ProjectSelect,
                ProjectInsert, Lease, Settle, lifecycle
  <2> QED
    BY <1>7, <2>1
<1>10. ASSUME NEW p \in Pass, PassStep(p) PROVE EventJoined(o)'
  <2>1. CASE Reading(p) \/ Asking(p) \/ CountVisible(p) \/ ReportReprice(p) \/ EnqueueCorrection(p)
    <3>1. UNCHANGED event
      BY <2>1 DEF Reading, PassStart, FindDue, ChooseExpired, ReadEvent, Asking, ReadPlans,
                  LookForJob, InsertJob, JoinJob, CountVisible, ReportReprice, EnqueueCorrection,
                  lifecycle
    <3> QED
      BY <1>7, <3>1
  <2> QED
    BY <1>4, <1>5, <1>6, <1>10, <2>1 DEF PassStep, Reading, Asking, Reprice
<1> QED
  BY <1>8, <1>9, <1>10 DEF Next, Alerting

\* For any number of passes that work on one event, whatever overlaps them and
\* wherever they are killed: a reprice is recorded as ENQUEUED only when every
\* plan has its job and the consumer that job tells, as PARTIAL only when some
\* plan has; and one that fell short has raised its ADMIN alert, unless a pass
\* was killed at that statement.
THEOREM RepricesAreJoined == Spec => []RepriceIsJoined
<1>1. ASSUME Init PROVE RepriceInv
  <2>1. /\ \A p \in Pass : run[p].step = "idle"
        /\ \A o \in Offer : event[o].reprice = "none"
    BY <1>1 DEF Init, Handler, Idle, NoEvent
  <2> QED
    BY <2>1 DEF RepriceInv, RepriceOK, EventJoined, At
<1>2. RepriceInv => RepriceIsJoined
  BY DEF RepriceInv, EventJoined, Told, Has, RepriceIsJoined, Settled, At, Handler
<1>3. IInv /\ RepriceInv /\ [Next]_vars => RepriceInv'
  BY NextKnows, NextEvents, LifecycleAssumption DEF RepriceInv
<1> QED
  BY <1>1, <1>2, <1>3, InitTypes, NextTypes, LifecycleAssumption, PTL DEF Spec
-----------------------------------------------------------------------------
(* What watches a confirmation.                                            *)

LEMMA InitWatch == Init => WatchInv
<1> SUFFICES ASSUME Init PROVE WatchInv
  OBVIOUS
<1>1. /\ \A h \in Handler : run[h] = Idle
      /\ \A o \in Offer : ~Exists(o) /\ event[o].correction # "PENDING"
  BY DEF Init, Exists, NoEvent
<1>2. OneAtATime
  BY <1>1 DEF OneAtATime, At, Idle
<1>3. \A h \in Handler : HandlerOK(h)
  BY <1>1 DEF HandlerOK, RecomputeOK, JobOK, PassOK, At, Idle, Deciding, Recomputing, Finishing,
              Resumed
<1>4. EventsOK /\ SupportsOK
  BY <1>1 DEF Init, EventsOK, SupportsOK
<1> QED
  BY <1>2, <1>3, <1>4 DEF WatchInv

\* What a step of h leaves to be shown when nobody else is at work.
LEMMA OnlyOne ==
    ASSUME WatchInv, NEW h \in Handler, Moved(h),
           \A g \in Handler : g # h => run[g].step = "idle",
           HandlerOK(h)', Pass \cup Job = Handler
    PROVE  OneAtATime' /\ \A g \in Handler : HandlerOK(g)'
<1>1. OneAtATime'
  BY DEF Moved, OneAtATime, At
<1>2. ASSUME NEW g \in Handler, g # h PROVE HandlerOK(g)'
  <2>1. run'[g] = run[g] /\ run[g].step = "idle" /\ HandlerOK(g)
    BY <1>2 DEF Moved, WatchInv
  <2>2. RecomputeOK(g)'
    BY <2>1 DEF HandlerOK, RecomputeOK
  <2>3. g \in Job => JobOK(g)'
    BY <2>1 DEF HandlerOK, JobOK, At
  <2>4. PassOK(g)'
    BY <2>1 DEF PassOK, At, Deciding, Recomputing, Finishing, Resumed
  <2> QED
    BY <2>2, <2>3, <2>4 DEF HandlerOK
<1> QED
  BY <1>1, <1>2

LEMMA BusyAlone ==
    ASSUME WatchInv, NEW h \in Handler, run[h].step # "idle"
    PROVE  \A g \in Handler : g # h => run[g].step = "idle"
  BY DEF WatchInv, OneAtATime, At

\* Whose verdict it is decides where the recompute stands.
LEMMA RecomputeWatch ==
    ASSUME IInv, WatchInv, OneByOne, NEW h \in Handler, Recompute(h), LifecycleAssumption
    PROVE  WatchInv'
<1>0. /\ run \in [Handler -> RunType] /\ TypeOK /\ Aimed /\ Pass \cup Job = Handler
      /\ OneAtATime /\ HandlerOK(h) /\ EventsOK /\ SupportsOK
      /\ run[h] \in RunType /\ supports \subseteq Offer
  BY RunTyped DEF IInv, Handler, WatchInv, TypeOK
<1>1. /\ Moved(h) /\ run[h].step \in Recomputing
      /\ UNCHANGED <<offer, lifecycle>>
  BY <1>0, Reads, Stepped, Stopped
     DEF Recompute, Read, WriteVerdict, WriteSupports, WriteCandidate, At, Recomputing, Step,
         verification
<1>2. \A g \in Handler : g # h => run[g].step = "idle" /\ run'[g] = run[g]
  BY <1>1, BusyAlone DEF Recomputing, Moved
<1>3. h \in Pass => offer[run[h].for] = "expired" /\ ~Exists(run[h].for) /\ Resumable = {}
  BY <1>0, <1>1 DEF HandlerOK, PassOK, Deciding
<1>4. h \in Job => \A p \in Pass : run[p].step = "idle" /\ run'[p] = run[p]
  BY <1>2 DEF Handler, LifecycleAssumption
<1>5. h \in Job => run[h].for = None
  BY <1>0 DEF HandlerOK, JobOK
<1>6. EventsOK'
  BY <1>0, <1>1 DEF EventsOK, Exists, lifecycle
<1>7. CASE Read(h)
  <2>1. /\ run[h].step = "read" /\ run'[h].step = "verdict" /\ run'[h].for = run[h].for
        /\ UNCHANGED verification
    BY <1>0, <1>7, Reads DEF Read
  <2>2. run[h].goal = "PROBABLE" /\ run[h].sup = {} /\ run[h].best = None
    BY <1>0, <2>1 DEF HandlerOK, RecomputeOK
  <2>3. verdict = "CONFIRMED" => supports \in Confirming
    BY <1>0, <1>2, <2>1 DEF SupportsOK, At
  <2>4. RecomputeOK(h)'
    <3>1. CASE /\ run'[h].goal = "CONFIRMED" /\ run'[h].sup \in Confirming
               /\ run'[h].sup \subseteq Fresh /\ run'[h].best \in run'[h].sup
      <4>1. run[h].for \notin run'[h].sup
        BY <1>0, <1>3, <1>5, <3>1 DEF Fresh, LifecycleAssumption
      <4>2. \A o \in run'[h].sup : ~Exists(o) /\ offer[o] = "fresh"
        BY <1>0, <3>1 DEF Fresh, EventsOK
      <4> QED
        BY <1>1, <2>1, <3>1, <4>1, <4>2 DEF RecomputeOK, Exists, lifecycle
    <3>2. CASE run'[h].goal = "PROBABLE" /\ run'[h].sup = run[h].sup /\ run'[h].best = run[h].best
      BY <2>1, <2>2, <3>2 DEF RecomputeOK
    <3> QED
      BY <1>0, <1>7, <3>1, <3>2, Reads
  <2>5. h \in Job => JobOK(h)'
    <3>1. ASSUME h \in Job, run'[h].goal = "PROBABLE", verdict = "CONFIRMED" PROVE FALSE
      <4>1. supports \subseteq Fresh
        BY <1>0, <2>1, <3>1 DEF HandlerOK, JobOK, At
      <4> QED
        BY <1>0, <1>7, <2>3, <3>1, <4>1, Reads
    <3> QED
      BY <1>5, <2>1, <3>1 DEF JobOK, At, Recomputing, verification
  <2>6. h \in Pass => PassOK(h)'
    BY <1>0, <1>1, <1>3, <2>1
       DEF HandlerOK, PassOK, At, Exists, Resumable, Unfinished, lifecycle, Finishing, Resumed,
           verification
  <2>7. SupportsOK'
    BY <1>0, <1>1, <1>2, <2>1 DEF SupportsOK, At, Exists, lifecycle, verification, Handler
  <2> QED
    BY <1>0, <1>1, <1>2, <1>6, <2>4, <2>5, <2>6, <2>7, OnlyOne DEF WatchInv, HandlerOK
<1>8. CASE WriteVerdict(h)
  <2>1. /\ run[h].step = "verdict" /\ run'[h].step = "supports" /\ verdict' = run[h].goal
        /\ run'[h] = [run[h] EXCEPT !.step = "supports"] /\ UNCHANGED <<supports, fare>>
    BY <1>0, <1>8, Stepped DEF WriteVerdict, At, Step
  <2>2. /\ run'[h].for = run[h].for /\ run'[h].goal = run[h].goal /\ run'[h].sup = run[h].sup
        /\ run'[h].best = run[h].best
    BY <1>0, <2>1 DEF RunType
  <2>3. RecomputeOK(h)'
    BY <1>0, <1>1, <2>1, <2>2 DEF HandlerOK, RecomputeOK, Exists, lifecycle
  <2>4. h \in Job => JobOK(h)'
    BY <1>5, <2>1, <2>2 DEF JobOK, At, Recomputing
  <2>5. h \in Pass => PassOK(h)'
    BY <1>1, <1>3, <2>1, <2>2
       DEF PassOK, At, Exists, Resumable, Unfinished, lifecycle, Finishing, Resumed
  <2>6. SupportsOK'
    BY <2>1 DEF SupportsOK, At
  <2> QED
    BY <1>0, <1>1, <1>2, <1>6, <2>3, <2>4, <2>5, <2>6, OnlyOne DEF WatchInv, HandlerOK
<1>9. CASE WriteSupports(h)
  <2>1. /\ run[h].step = "supports" /\ run'[h].step = "candidate" /\ supports' = run[h].sup
        /\ run'[h] = [run[h] EXCEPT !.step = "candidate"] /\ UNCHANGED <<verdict, fare>>
    BY <1>0, <1>9, Stepped DEF WriteSupports, At, Step
  <2>2. /\ run'[h].for = run[h].for /\ run'[h].goal = run[h].goal /\ run'[h].sup = run[h].sup
        /\ run'[h].best = run[h].best
    BY <1>0, <2>1 DEF RunType
  <2>3. RecomputeOK(h)'
    BY <1>0, <1>1, <2>1, <2>2 DEF HandlerOK, RecomputeOK, Exists, lifecycle
  <2>4. h \in Job => JobOK(h)'
    BY <1>5, <2>1, <2>2 DEF JobOK, At, Recomputing
  <2>5. h \in Pass => PassOK(h)'
    BY <1>1, <1>3, <2>1, <2>2
       DEF PassOK, At, Exists, Resumable, Unfinished, lifecycle, Finishing, Resumed
  <2>6. SupportsOK'
    BY <1>0, <1>1, <2>1, <2>2 DEF SupportsOK, HandlerOK, RecomputeOK, Exists, lifecycle
  <2> QED
    BY <1>0, <1>1, <1>2, <1>6, <2>3, <2>4, <2>5, <2>6, OnlyOne DEF WatchInv, HandlerOK
<1>10. CASE WriteCandidate(h)
  <2>1. /\ run[h].step = "candidate" /\ fare' = run[h].best /\ UNCHANGED <<verdict, supports>>
        /\ verdict = run[h].goal
    BY <1>0, <1>10 DEF WriteCandidate, At, HandlerOK, RecomputeOK
  <2>2. SupportsOK'
    BY <1>0, <1>1, <1>2, <2>1 DEF SupportsOK, At, Exists, lifecycle, Handler
  <2>3. CASE h \in Job
    <3>1. run'[h] = Idle
      BY <1>0, <1>10, <2>3, Stopped DEF WriteCandidate
    <3>2. HandlerOK(h)'
      BY <1>0, <2>3, <3>1
         DEF HandlerOK, RecomputeOK, JobOK, Idle, At, Recomputing, LifecycleAssumption
    <3> QED
      BY <1>0, <1>1, <1>2, <1>6, <2>2, <3>2, OnlyOne DEF WatchInv
  <2>4. CASE h \in Pass
    <3>1. /\ run'[h].step = (IF run[h].goal = "CONFIRMED" THEN "rotate" ELSE "look")
          /\ run'[h] = [run[h] EXCEPT !.step = run'[h].step]
      BY <1>0, <1>10, <2>4, Stepped DEF WriteCandidate, Step, LifecycleAssumption
    <3>2. /\ run'[h].for = run[h].for /\ run'[h].goal = run[h].goal
          /\ run'[h].sup = run[h].sup /\ run'[h].best = run[h].best
      BY <1>0, <3>1 DEF RunType
    <3>3. RecomputeOK(h)'
      BY <1>0, <1>1, <2>1, <3>1, <3>2 DEF HandlerOK, RecomputeOK, Exists, lifecycle, RunType
    <3>4. PassOK(h)'
      BY <1>1, <1>3, <2>4, <3>1, <3>2
         DEF PassOK, At, Exists, Resumable, Unfinished, lifecycle, Finishing, Resumed
    <3> QED
      BY <1>0, <1>1, <1>2, <1>6, <2>2, <2>4, <3>3, <3>4, OnlyOne
         DEF WatchInv, HandlerOK, LifecycleAssumption
  <2> QED
    BY <1>0, <2>3, <2>4
<1> QED
  BY <1>7, <1>8, <1>9, <1>10 DEF Recompute

\* A pass looks for an event left behind, or for an expired support, and finds
\* one that has no event yet.
LEMMA ReadingWatch ==
    ASSUME IInv, WatchInv, OneByOne, NEW p \in Pass, LifecycleAssumption, Reading(p)
    PROVE  WatchInv'
<1>0. /\ run \in [Handler -> RunType] /\ TypeOK /\ Aimed /\ Pass \cup Job = Handler
      /\ OneAtATime /\ HandlerOK(p) /\ EventsOK /\ SupportsOK
      /\ run[p] \in RunType /\ supports \subseteq Offer /\ p \in Handler /\ p \notin Job
      /\ "results" \notin Straddles /\ \A q \in Pass : q = p
  BY RunTyped DEF IInv, Handler, WatchInv, TypeOK, OneByOne, LifecycleAssumption
<1>1. /\ Moved(p) /\ UNCHANGED <<offer, verification, lifecycle>>
      /\ run[p].step \in {"idle", "due", "choose", "event"}
      /\ run'[p].step \in {"due", "choose", "read", "reprice", "correct", "idle"}
  BY <1>0, Looking
<1>2. \A g \in Handler : g # p => run[g].step = "idle"
  <2>1. CASE PassStart(p)
    BY <1>0, <2>1 DEF PassStart, ResultsApart, At
  <2>2. CASE ~PassStart(p)
    <3>1. run[p].step # "idle"
      BY <2>2 DEF Reading, FindDue, ChooseExpired, ReadEvent, At
    <3> QED
      BY <1>0, <3>1, BusyAlone
  <2> QED
    BY <2>1, <2>2
<1>3. EventsOK'
  BY <1>0, <1>1 DEF EventsOK, Exists, lifecycle
<1>4. SupportsOK'
  BY <1>0, <1>1, <1>2 DEF SupportsOK, Exists, At, lifecycle, verification
\* What is left to be shown of the pass itself.
<1>5. ASSUME run'[p].goal = "PROBABLE", run'[p].sup = {}, run'[p].best = None, PassOK(p)'
      PROVE  WatchInv'
  <2>1. RecomputeOK(p)'
    BY <1>1, <1>5 DEF RecomputeOK
  <2> QED
    BY <1>0, <1>1, <1>2, <1>3, <1>4, <1>5, <2>1, OnlyOne DEF WatchInv, HandlerOK
<1>6. run[p].goal = "PROBABLE" /\ run[p].sup = {} /\ run[p].best = None
  BY <1>0, <1>1 DEF HandlerOK, RecomputeOK
\* A step that leaves all but the pass's own step as it is.
<1>7. ASSUME NEW s \in Step, Go(p, s), PassOK(p)' PROVE WatchInv'
  <2>1. run'[p] = [run[p] EXCEPT !.step = s]
    BY <1>0, <1>7, Stepped
  <2>2. run'[p].goal = run[p].goal /\ run'[p].sup = run[p].sup /\ run'[p].best = run[p].best
    BY <1>0, <2>1 DEF RunType
  <2> QED
    BY <1>5, <1>6, <1>7, <2>2
\* A step that goes on with the event of an offer.
<1>8. ASSUME NEW o \in Offer, Finish(p, o), Exists(o) PROVE WatchInv'
  <2>1. /\ run'[p].for = o /\ run'[p].visible = event[o].visible
        /\ run'[p].correction = event[o].correction
        /\ run'[p].goal = "PROBABLE" /\ run'[p].sup = {} /\ run'[p].best = None
        /\ \/ run'[p].step = "reprice"
           \/ run'[p].step = "correct" /\ run'[p].correction = "PENDING"
           \/ run'[p].step = "idle"
    BY <1>0, <1>8, Finishes
  <2>2. PassOK(p)'
    BY <1>1, <1>8, <2>1
       DEF PassOK, At, Exists, Deciding, Recomputing, Finishing, Resumed, lifecycle
  <2> QED
    BY <1>5, <2>1, <2>2
<1>9. CASE PassStart(p)
  <2>1. CASE \E o \in Resumable : Finish(p, o)
    <3>1. PICK o \in Offer : Finish(p, o) /\ Exists(o)
      BY <2>1 DEF Resumable, Unfinished, Exists, NoEvent
    <3> QED
      BY <1>8, <3>1
  <2>2. CASE Resumable = {} /\ Go(p, "due")
    <3>1. run'[p].step = "due" /\ "due" \in Step
      BY <1>0, <2>2, Stepped DEF Step
    <3>2. PassOK(p)'
      BY <1>1, <2>2, <3>1
         DEF PassOK, At, Resumable, Unfinished, lifecycle, Deciding, Recomputing, Finishing, Resumed
    <3> QED
      BY <1>7, <2>2, <3>1, <3>2
  <2> QED
    BY <1>9, <2>1, <2>2 DEF PassStart
<1>10. CASE FindDue(p)
  <2>1. run[p].step = "due" /\ Resumable = {}
    BY <1>0, <1>10 DEF FindDue, At, HandlerOK, PassOK
  <2>2. PICK s \in {"idle", "choose"} :
           Go(p, s) /\ s \in Step /\ (s = "choose" => verdict = "CONFIRMED")
    BY <1>10 DEF FindDue, Due, Step
  <2>3. run'[p].step = s
    BY <1>0, <2>2, Stepped
  <2>4. PassOK(p)'
    BY <1>1, <2>1, <2>2, <2>3
       DEF PassOK, At, Resumable, Unfinished, lifecycle, verification, Deciding, Recomputing,
           Finishing, Resumed
  <2> QED
    BY <1>7, <2>2, <2>4
<1>11. CASE ChooseExpired(p)
  <2>1. run[p].step = "choose" /\ Resumable = {} /\ verdict = "CONFIRMED"
    BY <1>0, <1>11 DEF ChooseExpired, At, HandlerOK, PassOK
  <2>2. CASE run'[p].step = "idle"
    <3>1. Go(p, "idle") /\ "idle" \in Step
      <4>1. \A o \in supports : ~(run' = [run EXCEPT ![p].step = "read", ![p].for = o])
        BY <1>0, <2>2 DEF TypeOK
      <4> QED
        BY <1>11, <4>1 DEF ChooseExpired, Step
    <3>2. PassOK(p)'
      BY <2>2 DEF PassOK, At, Deciding, Recomputing, Finishing, Resumed
    <3> QED
      BY <1>7, <3>1, <3>2
  <2>3. CASE run'[p].step # "idle"
    <3>1. /\ run'[p].step = "read" /\ run'[p].for \in supports
          /\ offer[run'[p].for] = "expired"
          /\ run'[p].goal = run[p].goal /\ run'[p].sup = run[p].sup
          /\ run'[p].best = run[p].best
      BY <1>0, <1>11, <2>3, Chooses
    <3>2. \A o \in supports : ~Exists(o)
      <4>1. \A h \in Handler : run[h].step # "supports"
        BY <1>2, <2>1
      <4> QED
        BY <1>0, <2>1, <4>1 DEF SupportsOK, At
    <3>3. PassOK(p)'
      BY <1>1, <2>1, <3>1, <3>2
         DEF PassOK, At, Exists, Resumable, Unfinished, lifecycle, verification, Finishing, Resumed
    <3> QED
      BY <1>5, <1>6, <3>1, <3>3
  <2> QED
    BY <2>2, <2>3
<1>12. CASE ReadEvent(p)
  <2>1. run[p].step = "event" /\ Finish(p, run[p].for)
    BY <1>12 DEF ReadEvent, At
  <2>2. run[p].for \in Offer /\ Exists(run[p].for)
    BY <1>0, <2>1 DEF Aimed, AimedAt, HandlerOK, PassOK, Finishing
  <2> QED
    BY <1>8, <2>1, <2>2
<1> QED
  BY <1>9, <1>10, <1>11, <1>12 DEF Reading

\* A pass decides, counts and writes its batch.
LEMMA DecidingWatch ==
    ASSUME IInv, WatchInv, OneByOne, NEW p \in Pass, LifecycleAssumption,
           RecordRotation(p) \/ CountVisible(p) \/ ApplyExpiry(p)
    PROVE  WatchInv'
<1>0. /\ run \in [Handler -> RunType] /\ TypeOK /\ Aimed /\ Pass \cup Job = Handler
      /\ OneAtATime /\ HandlerOK(p) /\ EventsOK /\ SupportsOK
      /\ run[p] \in RunType /\ supports \subseteq Offer /\ p \in Handler /\ p \notin Job
      /\ event \in [Offer -> EventType]
      /\ "results" \notin Straddles /\ \A q \in Pass : q = p
  BY RunTyped DEF IInv, Handler, WatchInv, TypeOK, EventType, OneByOne, LifecycleAssumption
<1>2. CASE RecordRotation(p)
  <2> DEFINE f == run[p].for
  <2>1. /\ run[p].step = "rotate" /\ Moved(p) /\ run'[p] = Idle
        /\ UNCHANGED <<offer, verification, repricing>>
    BY <1>0, <1>2, Stopped DEF RecordRotation, At
  <2>2. /\ f \in Offer /\ offer[f] = "expired" /\ ~Exists(f) /\ Resumable = {}
        /\ verdict = run[p].goal /\ supports = run[p].sup
    BY <1>0, <2>1 DEF Aimed, AimedAt, At, Handler, HandlerOK, PassOK, RecomputeOK, Deciding
  <2>3. \A g \in Handler : g # p => run[g].step = "idle"
    BY <1>0, <2>1, BusyAlone
  <2>4. /\ event'[f] = [visible |-> "no", correction |-> "NOT_REQUIRED",
                        reprice |-> "NOT_REQUIRED"]
        /\ \A o \in Offer : o # f => event'[o] = event[o]
    BY <1>0, <1>2, <2>2 DEF RecordRotation, Recorded
  <2>5. HandlerOK(p)'
    BY <1>0, <2>1 DEF HandlerOK, RecomputeOK, PassOK, Idle, At, Deciding, Recomputing, Finishing,
                      Resumed
  <2>6. EventsOK'
    BY <1>0, <2>1, <2>2, <2>4 DEF EventsOK, Exists, NoEvent
  <2>7. SupportsOK'
    <3>1. verdict = "CONFIRMED" => f \notin supports
      BY <1>0, <2>2 DEF HandlerOK, RecomputeOK
    <3>2. \A h \in Handler : run[h].step # "supports"
      BY <2>1, <2>3
    <3> QED
      BY <1>0, <2>1, <2>4, <3>1, <3>2 DEF SupportsOK, Exists, At, verification
  <2> QED
    BY <1>0, <2>1, <2>3, <2>5, <2>6, <2>7, OnlyOne DEF WatchInv
<1>3. CASE CountVisible(p)
  <2>1. /\ Moved(p) /\ run[p].step = "look" /\ run'[p].step = "apply"
        /\ run'[p] = [run[p] EXCEPT !.step = "apply", !.visible = run'[p].visible]
        /\ UNCHANGED <<offer, verification, lifecycle>>
    BY <1>0, <1>3, Counts DEF CountVisible
  <2>2. /\ run'[p].goal = run[p].goal /\ run'[p].sup = run[p].sup /\ run'[p].best = run[p].best
        /\ run'[p].for = run[p].for
    <3>1. run[p] \in RunType
      BY <1>0
    <3>2. run'[p] = [run[p] EXCEPT !.step = "apply", !.visible = run'[p].visible]
      BY <2>1
    <3> QED
      BY <3>1, <3>2 DEF RunType
  <2>3. \A g \in Handler : g # p => run[g].step = "idle"
    BY <1>0, <2>1, BusyAlone
  <2>4. RecomputeOK(p)'
    BY <1>0, <2>1, <2>2 DEF HandlerOK, RecomputeOK, Exists, lifecycle, verification
  <2>5. PassOK(p)'
    BY <1>0, <2>1, <2>2
       DEF HandlerOK, PassOK, At, Exists, Resumable, Unfinished, lifecycle, Deciding,
           Finishing, Resumed
  <2>6. EventsOK' /\ SupportsOK'
    BY <1>0, <2>1, <2>3 DEF EventsOK, SupportsOK, Exists, At, lifecycle, verification
  <2> QED
    BY <1>0, <2>1, <2>3, <2>4, <2>5, <2>6, OnlyOne DEF WatchInv, HandlerOK
<1>4. CASE ApplyExpiry(p)
  <2> DEFINE f == run[p].for
  <2>1. /\ run[p].step = "apply" /\ Moved(p) /\ run'[p].step = "event"
        /\ run'[p] = [run[p] EXCEPT !.step = "event"]
        /\ verdict' = "PROBABLE" /\ supports' = {} /\ UNCHANGED offer
    BY <1>0, <1>4, Stepped DEF ApplyExpiry, At, Step
  <2>2. /\ run'[p].goal = run[p].goal /\ run'[p].sup = run[p].sup /\ run'[p].best = run[p].best
        /\ run'[p].for = f
    BY <1>0, <2>1 DEF RunType
  <2>3. /\ f \in Offer /\ offer[f] = "expired" /\ ~Exists(f) /\ Resumable = {}
        /\ run[p].goal = "PROBABLE" /\ run[p].visible \in {"yes", "no"}
    BY <1>0, <2>1 DEF Aimed, AimedAt, At, Handler, HandlerOK, PassOK, RecomputeOK, Deciding, RunType
  <2>4. \A g \in Handler : g # p => run[g].step = "idle"
    BY <1>0, <2>1, BusyAlone
  <2>5. /\ event'[f] = [visible |-> run[p].visible, correction |-> "PENDING",
                        reprice |-> "PENDING"]
        /\ \A o \in Offer : o # f => event'[o] = event[o]
    BY <1>0, <1>4, <2>3 DEF ApplyExpiry, Recorded
  <2>6. event'[f].correction = "PENDING" /\ Exists(f)'
    <3>1. event'[f].correction = "PENDING" /\ NoEvent.correction = "none"
      BY <2>5 DEF NoEvent
    <3> QED
      BY <2>2, <3>1 DEF Exists
  <2>7. HandlerOK(p)'
    <3>1. RecomputeOK(p)'
      BY <1>0, <2>1, <2>2, <2>3 DEF HandlerOK, RecomputeOK
    <3>2. PassOK(p)'
      BY <2>1, <2>2, <2>6 DEF PassOK, At, Deciding, Recomputing, Resumed
    <3> QED
      BY <1>0, <3>1, <3>2 DEF HandlerOK
  <2>8. EventsOK'
    <3>1. ASSUME NEW o \in Offer, o # f
          PROVE  Exists(o)' => offer'[o] = "expired" /\ event'[o].correction # "none"
      BY <1>0, <2>1, <2>5, <3>1 DEF EventsOK, Exists
    <3> QED
      BY <2>1, <2>3, <2>6, <3>1 DEF EventsOK
  <2>9. SupportsOK'
    BY <2>1 DEF SupportsOK
  <2> QED
    BY <1>0, <2>1, <2>4, <2>7, <2>8, <2>9, OnlyOne DEF WatchInv
<1> QED
  BY <1>2, <1>3, <1>4

\* A pass works an event off.
LEMMA FinishingWatch ==
    ASSUME IInv, WatchInv, OneByOne, NEW p \in Pass, LifecycleAssumption,
           \/ Asking(p) \/ RecordReprice(p) \/ ReportReprice(p)
           \/ EnqueueCorrection(p) \/ CloseCorrection(p)
    PROVE  WatchInv'
<1> DEFINE f == run[p].for
<1>0. /\ run \in [Handler -> RunType] /\ TypeOK /\ Aimed /\ Pass \cup Job = Handler
      /\ OneAtATime /\ HandlerOK(p) /\ EventsOK /\ SupportsOK
      /\ run[p] \in RunType /\ supports \subseteq Offer /\ p \in Handler /\ p \notin Job
      /\ event \in [Offer -> EventType]
      /\ \A q \in Pass : q = p
  BY RunTyped DEF IInv, Handler, WatchInv, TypeOK, EventType, OneByOne, LifecycleAssumption
<1>1. /\ run[p].step \in Finishing /\ UNCHANGED <<offer, verification>>
  BY <1>0, Asks DEF RecordReprice, ReportReprice, EnqueueCorrection, CloseCorrection, At,
                    Finishing, Resumed
<1>2. f \in Offer /\ Exists(f) /\ event[f].correction # "none"
  BY <1>0, <1>1 DEF Aimed, AimedAt, At, Handler, HandlerOK, PassOK, Finishing, Resumed, EventsOK
<1>3. \A g \in Handler : g # p => run[g].step = "idle"
  BY <1>0, <1>1, BusyAlone DEF Finishing, Resumed
<1>4. run[p].goal = "PROBABLE" /\ run[p].sup = {} /\ run[p].best = None
  BY <1>0, <1>1 DEF HandlerOK, RecomputeOK, Finishing, Resumed
\* What each of these steps has to show.
<1>5. ASSUME Moved(p), run'[p].step \in Finishing \cup {"idle"},
             run'[p].goal = "PROBABLE", run'[p].sup = {}, run'[p].best = None,
             PassOK(p)', EventsOK', \A o \in Offer : Exists(o)' => Exists(o)
      PROVE  WatchInv'
  <2>1. HandlerOK(p)'
    BY <1>0, <1>5 DEF HandlerOK, RecomputeOK, Finishing, Resumed
  <2>2. SupportsOK'
    <3>1. \A h \in Handler : run[h].step # "supports"
      BY <1>1, <1>3 DEF Finishing, Resumed
    <3> QED
      BY <1>0, <1>1, <1>5, <3>1 DEF SupportsOK, At, verification
  <2> QED
    BY <1>0, <1>3, <1>5, <2>1, <2>2, OnlyOne DEF WatchInv
<1>7. CASE Asking(p)
  <2>1. /\ Moved(p) /\ Keeps(p) /\ UNCHANGED event
        /\ run[p].step \in {"reprice", "plan", "insert", "join"}
        /\ run'[p].step \in {"plan", "insert", "join", "record"}
    BY <1>0, <1>7, Asks
  <2>2. PassOK(p)'
    BY <1>0, <1>2, <2>1
       DEF HandlerOK, PassOK, At, Exists, Deciding, Recomputing, Finishing, Resumed, Keeps
  <2> QED
    BY <1>0, <1>1, <1>4, <1>5, <2>1, <2>2
       DEF EventsOK, Exists, Finishing, Resumed, Keeps
<1>8. CASE RecordReprice(p) \/ ReportReprice(p)
  <2>1. /\ Moved(p) /\ run[p].step \in {"record", "report"}
        /\ run'[p] = [run[p] EXCEPT !.step = run'[p].step]
        /\ \/ run'[p].step \in {"report", "idle"}
           \/ run'[p].step = "correct" /\ run[p].correction = "PENDING"
    BY <1>0, <1>8, Stepped DEF RecordReprice, ReportReprice, AfterReprice, At, Step
  <2>2. /\ run'[p].for = f /\ run'[p].visible = run[p].visible
        /\ run'[p].correction = run[p].correction
        /\ run'[p].goal = run[p].goal /\ run'[p].sup = run[p].sup /\ run'[p].best = run[p].best
    <3>1. run[p] \in RunType /\ run[p].for = f
      BY <1>0
    <3> QED
      BY <2>1, <3>1 DEF RunType
  <2>3. /\ \A o \in Offer : event'[o].visible = event[o].visible
                            /\ event'[o].correction = event[o].correction
        /\ \A o \in Offer : o # f => event'[o] = event[o]
    BY <1>0, <1>2, <1>8 DEF RecordReprice, ReportReprice, EventType
  <2>4. \A o \in Offer : Exists(o)' <=> Exists(o)
    BY <1>2, <2>3 DEF Exists, NoEvent
  <2>5. PassOK(p)'
    BY <1>0, <1>2, <2>1, <2>2, <2>3, <2>4
       DEF HandlerOK, PassOK, At, Deciding, Recomputing, Finishing, Resumed
  <2>6. EventsOK'
    BY <1>0, <1>1, <2>1, <2>3, <2>4 DEF EventsOK
  <2> QED
    BY <1>4, <1>5, <2>1, <2>2, <2>4, <2>5, <2>6 DEF Finishing, Resumed
<1>9. CASE EnqueueCorrection(p)
  <2>1. /\ Moved(p) /\ run[p].step = "correct" /\ run'[p].step = "close" /\ event' = event
        /\ run'[p] = [run[p] EXCEPT !.step = "close"]
    BY <1>0, <1>9, Stepped DEF EnqueueCorrection, At, Step, lifecycle
  <2>2. /\ run'[p].for = f /\ run'[p].visible = run[p].visible
        /\ run'[p].correction = run[p].correction
        /\ run'[p].goal = run[p].goal /\ run'[p].sup = run[p].sup /\ run'[p].best = run[p].best
    <3>1. run[p] \in RunType /\ run[p].for = f
      BY <1>0
    <3> QED
      BY <2>1, <3>1 DEF RunType
  <2>3. run[p].visible = event[f].visible /\ run[p].correction = event[f].correction
        /\ run[p].correction = "PENDING"
    BY <1>0, <2>1 DEF HandlerOK, PassOK, Resumed
  <2>4. PassOK(p)'
    BY <1>2, <2>1, <2>2, <2>3
       DEF PassOK, At, Exists, Deciding, Recomputing, Finishing, Resumed
  <2>5. EventsOK'
    BY <1>0, <1>1, <2>1 DEF EventsOK, Exists
  <2> QED
    BY <1>4, <1>5, <2>1, <2>2, <2>4, <2>5 DEF Exists, Finishing, Resumed
<1>10. CASE CloseCorrection(p)
  <2>1. /\ Moved(p) /\ run[p].step = "close" /\ run'[p] = Idle
    BY <1>0, <1>10, Stopped DEF CloseCorrection, At
  <2>2. /\ event'[f].correction = (IF run[p].visible = "yes" THEN "ENQUEUED" ELSE "NOT_REQUIRED")
        /\ \A o \in Offer : o # f => event'[o] = event[o]
    BY <1>0, <1>2, <1>10 DEF CloseCorrection, EventType
  <2>3. \A o \in Offer : Exists(o)' <=> Exists(o)
    BY <1>2, <2>2 DEF Exists, NoEvent
  <2>4. PassOK(p)'
    BY <2>1 DEF PassOK, Idle, At, Deciding, Recomputing, Finishing, Resumed
  <2>5. EventsOK'
    BY <1>0, <1>1, <2>1, <2>2, <2>3 DEF EventsOK
  <2> QED
    BY <1>5, <2>1, <2>3, <2>4, <2>5 DEF Idle
<1> QED
  BY <1>7, <1>8, <1>9, <1>10

\* A job completes, an offer expires or an invocation is killed.
LEMMA OfferWatch ==
    ASSUME IInv, WatchInv, OneByOne, LifecycleAssumption,
           \/ \E o \in Offer : Expire(o)
           \/ \E j \in Job, S \in SUBSET Offer : Complete(j, S)
           \/ \E h \in Handler : Kill(h)
    PROVE  WatchInv'
<1>0. /\ run \in [Handler -> RunType] /\ TypeOK /\ Pass \cup Job = Handler
      /\ OneAtATime /\ (\A h \in Handler : HandlerOK(h)) /\ EventsOK /\ SupportsOK
      /\ supports \subseteq Offer /\ offer \in [Offer -> {"unseen", "fresh", "expired"}]
      /\ "results" \notin Straddles /\ \A i, j \in Job : i = j
      /\ Pass \cap Job = {}
  BY RunTyped DEF IInv, Handler, WatchInv, TypeOK, OneByOne, LifecycleAssumption
<1>1. ASSUME NEW o \in Offer, Expire(o) PROVE WatchInv'
  <2>1. /\ offer[o] = "fresh" /\ (\A j \in Job : run[j].step = "idle")
        /\ UNCHANGED <<verification, lifecycle, run>>
        /\ offer' = [offer EXCEPT ![o] = "expired"]
    BY <1>0, <1>1 DEF Expire, ResultsApart, At
  <2>2. \A q \in Offer : /\ offer'[q] = "unseen" <=> offer[q] = "unseen"
                         /\ offer[q] = "expired" => offer'[q] = "expired"
    BY <1>0, <2>1
  <2>3. ASSUME NEW h \in Handler PROVE HandlerOK(h)'
    <3>1. RecomputeOK(h)'
      <4>1. run[h].sup \subseteq Offer
        BY <1>0 DEF RunType
      <4> QED
        BY <1>0, <2>1, <2>2, <4>1
           DEF HandlerOK, RecomputeOK, Exists, verification, lifecycle
    <3>2. h \in Job => JobOK(h)'
      BY <1>0, <2>1 DEF HandlerOK, JobOK, At
    <3>3. h \in Pass => PassOK(h)'
      <4>1. h \in Pass /\ run[h].step \in Deciding => run[h].for \in Offer
        BY <1>0 DEF IInv, Aimed, AimedAt, At, Handler, Deciding, Recomputing
      <4> QED
        BY <1>0, <2>1, <2>2, <4>1
           DEF HandlerOK, PassOK, At, Exists, Resumable, Unfinished, verification,
               lifecycle
    <3> QED
      BY <3>1, <3>2, <3>3 DEF HandlerOK
  <2>4. OneAtATime' /\ EventsOK' /\ SupportsOK'
    BY <1>0, <2>1, <2>2
       DEF OneAtATime, EventsOK, SupportsOK, At, Exists, verification, lifecycle
  <2> QED
    BY <2>3, <2>4 DEF WatchInv
<1>2. ASSUME NEW j \in Job, NEW S \in SUBSET Offer, Complete(j, S) PROVE WatchInv'
  <2>1. /\ run[j].step = "idle" /\ Due = {} /\ \A p \in Pass : run[p].step = "idle"
        /\ S \subseteq {o \in Offer : offer[o] = "unseen"}
        /\ offer' = [o \in Offer |-> IF o \in S THEN "fresh" ELSE offer[o]]
        /\ UNCHANGED <<verification, lifecycle>>
    BY <1>0, <1>2 DEF Complete, At, Passing
  <2>2. /\ Moved(j) /\ run'[j].step = "read" /\ run'[j] = [run[j] EXCEPT !.step = "read"]
    BY <1>0, <1>2, Stepped DEF Complete, Step, Handler
  <2>3. /\ run'[j].for = run[j].for /\ run'[j].goal = run[j].goal /\ run'[j].sup = run[j].sup
        /\ run'[j].best = run[j].best
    <3>1. run[j] \in RunType
      BY <1>0
    <3> QED
      BY <2>2, <3>1 DEF RunType
  <2>4. \A g \in Handler : run[g].step = "idle"
    BY <1>0, <2>1
  <2>5. \A q \in Offer : /\ offer[q] # "unseen" => offer'[q] = offer[q]
                         /\ offer[q] = "expired" => offer'[q] = "expired"
    BY <1>0, <2>1
  <2>6. RecomputeOK(j)'
    BY <1>0, <2>1, <2>2, <2>3 DEF HandlerOK, RecomputeOK, RunType
  <2>7. JobOK(j)'
    <3>1. ASSUME verdict = "CONFIRMED" PROVE supports \subseteq Fresh'
      <4>1. \A o \in supports : ~Exists(o) /\ offer[o] # "unseen" /\ offer[o] # "expired"
        BY <1>0, <2>1, <2>4, <3>1 DEF SupportsOK, At, Due, Expiring
      <4> QED
        BY <1>0, <2>5, <4>1 DEF Fresh
    <3> QED
      BY <1>0, <2>1, <2>2, <2>3, <3>1 DEF HandlerOK, JobOK, At, Recomputing, verification
  <2>8. EventsOK' /\ SupportsOK'
    BY <1>0, <2>1, <2>4, <2>5
       DEF EventsOK, SupportsOK, At, Exists, verification, lifecycle
  <2> QED
    BY <1>0, <2>2, <2>4, <2>6, <2>7, <2>8, OnlyOne DEF WatchInv, HandlerOK
<1>3. ASSUME NEW h \in Handler, Kill(h) PROVE WatchInv'
  <2>1. /\ run[h].step \notin {"idle", "supports"} /\ Moved(h) /\ run'[h] = Idle
        /\ UNCHANGED <<offer, verification, event>>
    BY <1>0, <1>3, Stopped DEF Kill, OneByOne, LifecycleAssumption
  <2>2. \A g \in Handler : g # h => run[g].step = "idle"
    BY <2>1, BusyAlone
  <2>3. HandlerOK(h)'
    BY <2>1
       DEF HandlerOK, RecomputeOK, JobOK, PassOK, Idle, At, Deciding, Recomputing, Finishing,
           Resumed, LifecycleAssumption
  <2>4. EventsOK'
    BY <1>0, <2>1 DEF EventsOK, Exists
  <2>5. SupportsOK'
    <3>1. \A g \in Handler : run[g].step # "supports"
      BY <2>1, <2>2
    <3> QED
      BY <1>0, <2>1, <3>1 DEF SupportsOK, At, Exists, verification
  <2> QED
    BY <1>0, <2>1, <2>2, <2>3, <2>4, <2>5, OnlyOne DEF WatchInv
<1> QED
  BY <1>1, <1>2, <1>3

\* Whatever becomes of the alerts, the verdict is none of it.
LEMMA AlertsWatch ==
    ASSUME WatchInv, UNCHANGED <<offer, verification, lifecycle, run>>
    PROVE  WatchInv'
<1>1. \A h \in Handler : HandlerOK(h)'
  BY DEF WatchInv, HandlerOK, RecomputeOK, JobOK, PassOK, At, Exists, Fresh, Resumable, Unfinished,
         verification, lifecycle
<1> QED
  BY <1>1 DEF WatchInv, OneAtATime, EventsOK, SupportsOK, At, Exists, verification, lifecycle

LEMMA NextWatch ==
    ASSUME OneByOne, LifecycleAssumption PROVE IInv /\ WatchInv /\ [Next]_vars => WatchInv'
<1> SUFFICES ASSUME IInv, WatchInv, [Next]_vars PROVE WatchInv'
  OBVIOUS
<1>1. CASE UNCHANGED vars
  BY <1>1, AlertsWatch DEF vars, verification, lifecycle
<1>2. CASE Alerting
  BY <1>2, AlertsWatch
     DEF Alerting, EvaluateRead, EvaluateEnqueue, ProjectSelect, ProjectInsert, Lease, Settle
<1>3. CASE Next
  BY <1>2, <1>3, OfferWatch, RecomputeWatch, ReadingWatch, DecidingWatch, FinishingWatch
     DEF Next, PassStep, Reading, Asking, Reprice, Alerting
<1> QED
  BY <1>1, <1>3

LEMMA AlwaysWatch == OneByOne => (Spec => [](IInv /\ WatchInv))
<1> SUFFICES ASSUME OneByOne PROVE Spec => [](IInv /\ WatchInv)
  OBVIOUS
<1> QED
  BY InitTypes, NextTypes, InitWatch, NextWatch, LifecycleAssumption, PTL DEF Spec

\* A confirmation never outlives its offers unseen: once things settle, its
\* supports confirm it and each is open to the next expiry, whatever evaluations,
\* projections and leases straddle the pass and wherever an invocation is killed
\* but between its verdict and its supports.
THEOREM ConfirmationsAreWatched == OneByOne => (Spec => []ConfirmedIsWatched)
<1>1. WatchInv /\ LifecycleAssumption => ConfirmedIsWatched
  <2> SUFFICES ASSUME WatchInv, LifecycleAssumption, Settled, verdict = "CONFIRMED"
               PROVE  supports # {} /\ \A o \in supports : offer[o] = "expired" => ~Exists(o)
    BY DEF ConfirmedIsWatched
  <2>1. \A h \in Handler : ~At(h, "supports")
    BY DEF Settled, At
  <2> QED
    BY <2>1 DEF WatchInv, SupportsOK, LifecycleAssumption
<1> QED
  BY <1>1, AlwaysWatch, LifecycleAssumption, PTL
-----------------------------------------------------------------------------
(* What becomes of the deals that are not out yet.                         *)

\* Only a batch takes a confirmation back: a job does not start on an expired
\* support, and a pass that found no fresh evidence is not killed on its way.
LEMMA TakenBackByBatch ==
    ASSUME IInv, WatchInv, Apart, LifecycleAssumption, Next,
           \A p \in Pass : ~ApplyExpiry(p), Unconfirmed'
    PROVE  Unconfirmed
<1>0. /\ run \in [Handler -> RunType] /\ TypeOK /\ Aimed /\ Pass \cup Job = Handler
      /\ \A h \in Handler : HandlerOK(h)
      /\ verdict' # "CONFIRMED" /\ \A p \in Pass : run'[p].step \notin Between
  BY RunTyped DEF IInv, Handler, WatchInv, Unconfirmed
\* What is to be shown of the step of one invocation.
<1>1. ASSUME NEW h \in Handler, Moved(h), verdict # "CONFIRMED",
             h \in Pass => run[h].step \notin Between
      PROVE  Unconfirmed
  BY <1>0, <1>1 DEF Moved, Unconfirmed
<1>2. CASE \/ \E o \in Offer : Expire(o)
           \/ Alerting
  <2>1. UNCHANGED <<run, verdict>>
    BY <1>2 DEF Expire, Alerting, EvaluateRead, EvaluateEnqueue, ProjectSelect, ProjectInsert,
                Lease, Settle, verification
  <2> QED
    BY <1>0, <2>1 DEF Unconfirmed
<1>3. ASSUME NEW j \in Job, NEW S \in SUBSET Offer, Complete(j, S) PROVE Unconfirmed
  <2>1. Moved(j) /\ run[j].step = "idle" /\ UNCHANGED verdict
    BY <1>0, <1>3, Stepped DEF Complete, At, Step, Handler, verification
  <2> QED
    BY <1>0, <1>1, <2>1 DEF Between
<1>4. ASSUME NEW h \in Handler, Kill(h) PROVE Unconfirmed
  <2>1. Moved(h) /\ run[h].step \in KillAt /\ UNCHANGED verdict
    BY <1>0, <1>4, Stopped DEF Kill, verification
  <2> QED
    BY <1>0, <1>1, <2>1 DEF Apart
<1>5. ASSUME NEW h \in Handler, Recompute(h) PROVE Unconfirmed
  <2>1. Moved(h) /\ run[h].step \in Recomputing
    BY <1>0, <1>5, Reads, Stepped, Stopped
       DEF Recompute, WriteVerdict, WriteSupports, WriteCandidate, At, Recomputing, Step
  <2>2. CASE Read(h)
    BY <1>0, <1>1, <2>1, <2>2 DEF Read, At, Between, verification
  <2>3. CASE WriteVerdict(h)
    <3>1. /\ run[h].step = "verdict" /\ run'[h].step = "supports" /\ verdict' = run[h].goal
      BY <1>0, <2>3, Stepped DEF WriteVerdict, At, Step
    <3>2. h \in Job
      BY <1>0, <3>1 DEF Between
    <3>3. verdict # "CONFIRMED"
      BY <1>0, <3>1, <3>2 DEF HandlerOK, JobOK, At, RunType
    <3> QED
      BY <1>1, <2>1, <3>1, <3>3 DEF Between
  <2>4. CASE WriteSupports(h)
    <3>1. run'[h].step = "candidate" /\ UNCHANGED verdict
      BY <1>0, <2>4, Stepped DEF WriteSupports, At, Step
    <3> QED
      BY <1>0, <1>1, <2>1, <3>1 DEF Between
  <2>5. CASE WriteCandidate(h)
    <3>1. verdict = run[h].goal /\ UNCHANGED verdict
      BY <1>0, <2>5 DEF WriteCandidate, At, HandlerOK, RecomputeOK
    <3>2. h \in Pass => run'[h].step = "look"
      BY <1>0, <2>5, <3>1, Stepped DEF WriteCandidate, Step, LifecycleAssumption
    <3> QED
      BY <1>0, <1>1, <2>1, <3>1, <3>2 DEF Between
  <2> QED
    BY <1>5, <2>2, <2>3, <2>4, <2>5 DEF Recompute
<1>6. ASSUME NEW p \in Pass, PassStep(p) PROVE Unconfirmed
  <2>1. CASE Reading(p) \/ Asking(p)
    <3>1. /\ Moved(p) /\ UNCHANGED verdict
          /\ run[p].step \in {"idle", "due", "choose", "event", "reprice", "plan", "insert", "join"}
      BY <1>0, <2>1, Looking, Asks DEF verification
    <3> QED
      BY <1>0, <1>1, <3>1 DEF Between
  <2>2. CASE RecordRotation(p)
    BY <1>0, <1>1, <2>2, Stopped DEF RecordRotation, At, Between, verification
  <2>3. CASE CountVisible(p)
    BY <1>0, <2>3, Counts DEF Between
  <2>6. CASE RecordReprice(p) \/ ReportReprice(p) \/ EnqueueCorrection(p)
    <3>1. /\ Moved(p) /\ run[p].step \in {"record", "report", "correct"} /\ UNCHANGED verdict
      BY <1>0, <2>6, Stepped
         DEF RecordReprice, ReportReprice, EnqueueCorrection, AfterReprice, At, Step, verification
    <3> QED
      BY <1>0, <1>1, <3>1 DEF Between
  <2>7. CASE CloseCorrection(p)
    BY <1>0, <1>1, <2>7, Stopped DEF CloseCorrection, At, Between, verification
  <2> QED
    BY <1>6, <2>1, <2>2, <2>3, <2>6, <2>7 DEF PassStep, Reading, Asking, Reprice
<1> QED
  BY <1>2, <1>3, <1>4, <1>5, <1>6 DEF Next, Alerting

\* Without a confirmation no deal is raised, and no step brings one on its way.
LEMMA StaysSilent ==
    ASSUME IInv, WatchInv, LifecycleAssumption, Next, \A p \in Pass : ~ApplyExpiry(p),
           Unconfirmed, Silent
    PROVE  Silent'
<1>0. /\ run \in [Handler -> RunType] /\ TypeOK /\ Pass \cup Job = Handler
      /\ (\A h \in Handler : HandlerOK(h)) /\ projecting \subseteq Alert
      /\ alert \in [Alert -> AlertState] /\ Alert = Deal \cup Offer /\ Deal \cap Offer = {}
      /\ verdict # "CONFIRMED"
  BY RunTyped DEF IInv, Handler, WatchInv, TypeOK, AlertState, LifecycleAssumption, Alert, Unconfirmed
<1>1. CASE UNCHANGED <<fare, alert, projecting, evaluating, held>>
  BY <1>1 DEF Silent
<1>2. CASE Alerting
  <2>1. ~EvaluateRead /\ \A d \in Deal : ~EvaluateEnqueue(d)
    BY DEF Silent, EvaluateRead, EvaluateEnqueue
  <2>2. CASE ProjectSelect
    BY <1>0, <2>2 DEF ProjectSelect, Silent, verification
  <2>3. CASE ProjectInsert
    BY <1>0, <2>3 DEF ProjectInsert, Silent, verification
  <2>4. CASE \E a \in Alert : Lease(a) \/ Settle(a)
    BY <1>0, <2>4 DEF Lease, Settle, Silent, verification
  <2> QED
    BY <1>2, <2>1, <2>2, <2>3, <2>4 DEF Alerting
<1>3. CASE \E o \in Offer : Expire(o)
  BY <1>1, <1>3 DEF Expire, verification, alerting
<1>4. CASE \E j \in Job, S \in SUBSET Offer : Complete(j, S)
  BY <1>1, <1>4 DEF Complete, verification, alerting
<1>5. CASE \E h \in Handler : Kill(h)
  BY <1>1, <1>5 DEF Kill, verification
<1>6. ASSUME NEW h \in Handler, Recompute(h) PROVE Silent'
  <2>1. CASE Read(h) \/ WriteVerdict(h) \/ WriteSupports(h)
    BY <1>1, <2>1 DEF Read, WriteVerdict, WriteSupports, verification, alerting
  <2>2. CASE WriteCandidate(h)
    <3>1. verdict = run[h].goal /\ fare' = run[h].best /\ UNCHANGED alerting
      BY <1>0, <2>2 DEF WriteCandidate, At, HandlerOK, RecomputeOK
    <3>2. run[h].best = None
      BY <1>0, <3>1 DEF HandlerOK, RecomputeOK, RunType
    <3> QED
      BY <3>1, <3>2 DEF Silent, alerting
  <2> QED
    BY <1>6, <2>1, <2>2 DEF Recompute
<1>7. ASSUME NEW p \in Pass, PassStep(p) PROVE Silent'
  <2>1. CASE EnqueueCorrection(p)
    <3>1. run[p].for \in Offer
      BY <2>1 DEF EnqueueCorrection, IInv, Aimed, AimedAt, At, Handler
    <3>2. \A d \in Deal : alert'[d] = alert[d]
      BY <1>0, <2>1, <3>1 DEF EnqueueCorrection
    <3> QED
      BY <2>1, <3>2 DEF EnqueueCorrection, Silent, verification
  <2>2. CASE ~EnqueueCorrection(p)
    BY <1>1, <1>7, <2>2
       DEF PassStep, PassStart, FindDue, ChooseExpired, RecordRotation, CountVisible, ReadEvent,
           Reprice, ReadPlans, LookForJob, InsertJob, JoinJob, RecordReprice, ReportReprice,
           CloseCorrection, verification, alerting
  <2> QED
    BY <2>1, <2>2
<1> QED
  BY <1>2, <1>3, <1>4, <1>5, <1>6, <1>7 DEF Next, Alerting

\* The batch withdraws what is not out, and nothing is being read or raised.
LEMMA BatchSilences ==
    ASSUME IInv, Apart, NEW p \in Pass, ApplyExpiry(p)
    PROVE  Silent'
<1>1. /\ projecting = {} /\ evaluating = "no" /\ fare' = None
      /\ UNCHANGED <<projecting, evaluating>>
      /\ alert' = [a \in Alert |-> Suppressed(alert[a])]
      /\ held' = {a \in Alert : alert[a] = "SENDING"}
      /\ Deal \subseteq Alert
  BY DEF ApplyExpiry, Apart, Alert
<1>2. ASSUME NEW d \in Deal
      PROVE  /\ alert'[d] \notin {"queued", "SHADOW_HELD"}
             /\ alert'[d] \in {"PENDING", "SENDING"} => d \in held'
  BY <1>1 DEF Suppressed
<1> QED
  BY <1>1, <1>2 DEF Silent

LEMMA NextHushed ==
    ASSUME Apart, LifecycleAssumption
    PROVE  IInv /\ WatchInv /\ Hushed /\ [Next]_vars => Hushed'
<1> SUFFICES ASSUME IInv, WatchInv, Hushed, [Next]_vars PROVE Hushed'
  OBVIOUS
<1>1. CASE UNCHANGED vars
  BY <1>1 DEF vars, Hushed, Unconfirmed, Silent
<1>2. CASE \E p \in Pass : ApplyExpiry(p)
  BY <1>2, BatchSilences DEF Hushed
<1>3. CASE Next /\ \A p \in Pass : ~ApplyExpiry(p)
  BY <1>3, TakenBackByBatch, StaysSilent DEF Hushed
<1> QED
  BY <1>1, <1>2, <1>3

LEMMA AlwaysHushed == Apart => (Spec => []Hushed)
<1> SUFFICES ASSUME Apart PROVE Spec => []Hushed
  OBVIOUS
<1>1. OneByOne
  BY DEF Apart
<1>2. Init => Hushed
  BY DEF Init, Hushed, Silent, Alert
<1> QED
  BY <1>1, <1>2, AlwaysWatch, NextHushed, LifecycleAssumption, PTL DEF Spec

\* Once an expiry is over, no deal of a fare that is not confirmed waits for its
\* projection, and the only ones that may still be sent are those a notifier held
\* when the batch came: it may return them to PENDING, where no batch looks
\* again. So for any leases that straddle the pass and wherever an invocation is
\* killed but between the verdict and the batch.
THEOREM UnsentDealsAreSuppressed == Apart => (Spec => []UnsentDealIsSuppressed)
<1>1. Hushed => UnsentDealIsSuppressed
  BY DEF Hushed, Unconfirmed, Silent, UnsentDealIsSuppressed, Settled, At, Handler, Between
<1> QED
  BY <1>1, AlwaysHushed, PTL
-----------------------------------------------------------------------------
(* What becomes of the deals that are out.                                 *)

\* A step that touches no alert and no event owes nobody anything new.
LEMMA AnswersKept ==
    ASSUME AnswerInv, Unconfirmed' => Unconfirmed, UNCHANGED <<alert, event>>,
           \A p \in Pass : run'[p].step \in {"apply", "close"} => run'[p] = run[p]
    PROVE  AnswerInv'
<1>1. \A p \in Pass : CountOK(p)'
  BY DEF AnswerInv, CountOK, At, Lives
<1>2. UpdatesOK'
  BY DEF AnswerInv, UpdatesOK, Exists
<1>3. SeenAreAnswered'
  BY DEF AnswerInv, SeenAreAnswered, Answered, Lives
<1> QED
  BY <1>1, <1>2, <1>3 DEF AnswerInv

\* Whoever saw a deal is counted by the batch, and its event is to answer them.
LEMMA BatchAnswers ==
    ASSUME IInv, WatchInv, AnswerInv, Alone, LifecycleAssumption, NEW p \in Pass, ApplyExpiry(p)
    PROVE  AnswerInv'
<1> DEFINE f == run[p].for
<1>1. /\ run \in [Handler -> RunType] /\ TypeOK /\ p \in Handler /\ \A q \in Pass : q = p
      /\ alert \in [Alert -> AlertState] /\ Alert = Deal \cup Offer
      /\ event \in [Offer -> EventType]
  BY RunTyped DEF IInv, TypeOK, Handler, AlertState, EventType, Alert, Alone, Apart, OneByOne
<1>2. /\ run[p].step = "apply" /\ Moved(p) /\ run'[p].step = "event"
      /\ alert' = [a \in Alert |-> Suppressed(alert[a])]
  BY <1>1, Stepped DEF ApplyExpiry, At, Step
<1>3. /\ f \in Offer /\ ~Exists(f) /\ Resumable = {} /\ run[p].visible \in {"yes", "no"}
      /\ run[p].visible = "no" => \A a \in Alert : alert[a] \notin VisibleStates
  BY <1>1, <1>2
     DEF IInv, Aimed, AimedAt, At, Handler, WatchInv, HandlerOK, PassOK, Deciding, AnswerInv, CountOK, RunType
<1>4. /\ event'[f] = [visible |-> run[p].visible, correction |-> "PENDING",
                      reprice |-> "PENDING"]
      /\ \A o \in Offer : o # f => event'[o] = event[o]
  BY <1>1, <1>3 DEF ApplyExpiry, Recorded
<1>5. event'[f].correction = "PENDING" /\ event'[f].visible = run[p].visible
      /\ event'[f] # NoEvent
  BY <1>4 DEF NoEvent
<1>6. \A q \in Pass : CountOK(q)'
  BY <1>1, <1>2 DEF CountOK, At
<1>7. UpdatesOK'
  <2>1. \A o \in Offer : ~Exists(o) => alert'[o] = "absent"
    BY <1>1, <1>2 DEF AnswerInv, UpdatesOK, Suppressed
  <2>2. ASSUME NEW o \in Offer, o # f
        PROVE  (~Exists(o)' => ~Exists(o)) /\ event'[o].correction # "PENDING"
    BY <1>3, <1>4, <2>2 DEF Exists, Resumable, Unfinished
  <2>3. alert'[f] = "absent"
    BY <1>3, <2>1
  <2> QED
    BY <1>5, <2>1, <2>2, <2>3 DEF UpdatesOK
<1>8. SeenAreAnswered'
  <2>1. ASSUME NEW d \in Deal, alert'[d] \in Out PROVE Answered'
    <3>1. alert'[d] = Suppressed(alert[d]) /\ alert[d] \in AlertState
      BY <1>1, <1>2
    <3>2. alert[d] \in VisibleStates
      BY <2>1, <3>1 DEF Out, Suppressed, VisibleStates, AlertState
    <3>3. run[p].visible = "yes"
      BY <1>1, <1>3, <3>2
    <3> QED
      BY <1>3, <1>5, <3>3 DEF Answered
  <2> QED
    BY <2>1 DEF SeenAreAnswered
<1> QED
  BY <1>6, <1>7, <1>8 DEF AnswerInv

\* A rotation, a count, a recorded reprice, a raised update and a closed event.
LEMMA PassAnswers ==
    ASSUME IInv, WatchInv, AnswerInv, Alone, LifecycleAssumption, Unconfirmed' => Unconfirmed,
           NEW p \in Pass, PassStep(p), ~ApplyExpiry(p)
    PROVE  AnswerInv'
<1> DEFINE f == run[p].for
<1>1. /\ run \in [Handler -> RunType] /\ TypeOK /\ p \in Handler /\ \A q \in Pass : q = p
      /\ alert \in [Alert -> AlertState] /\ Alert = Deal \cup Offer /\ Deal \cap Offer = {}
      /\ event \in [Offer -> EventType]
  BY RunTyped
     DEF IInv, TypeOK, Handler, AlertState, EventType, Alert, Alone, Apart, OneByOne,
         LifecycleAssumption
\* A step that touches no alert, and no correction of an event.
<1>2. ASSUME UNCHANGED alert, \A q \in Pass : CountOK(q)', Unconfirmed' => Unconfirmed,
             \A o \in Offer : /\ Exists(o) => Exists(o)'
                              /\ event'[o].correction = "PENDING" <=> event[o].correction = "PENDING"
                              /\ event[o].correction = "PENDING" =>
                                     event'[o].visible = event[o].visible
      PROVE  AnswerInv'
  <2>1. UpdatesOK'
    BY <1>2 DEF AnswerInv, UpdatesOK
  <2>2. Answered => Answered'
    BY <1>2 DEF Answered, Lives
  <2> QED
    BY <1>2, <2>1, <2>2 DEF AnswerInv, SeenAreAnswered
<1>3. CASE Reading(p) \/ Asking(p)
  <2>1. /\ UNCHANGED <<alert, event>> /\ run'[p].step \notin {"apply", "close"}
    BY <1>1, <1>3, Looking, Asks DEF alerting, lifecycle, IInv
  <2> QED
    BY <1>1, <2>1, AnswersKept
<1>4. CASE RecordRotation(p)
  <2>1. run[p].step = "rotate" /\ run'[p].step = "idle" /\ UNCHANGED alert
    BY <1>1, <1>4, Stopped DEF RecordRotation, At, alerting
  <2>2. f \in Offer /\ ~Exists(f)
    BY <1>1, <2>1 DEF IInv, Aimed, AimedAt, At, Handler, WatchInv, HandlerOK, PassOK, Deciding
  <2>3. /\ event'[f] = [visible |-> "no", correction |-> "NOT_REQUIRED",
                        reprice |-> "NOT_REQUIRED"]
        /\ \A o \in Offer : o # f => event'[o] = event[o]
    BY <1>1, <1>4, <2>2 DEF RecordRotation, Recorded
  <2>4. event[f].correction # "PENDING" /\ event'[f].correction # "PENDING"
    BY <2>2, <2>3 DEF Exists, NoEvent
  <2>5. \A q \in Pass : CountOK(q)'
    BY <1>1, <2>1 DEF CountOK, At
  <2> QED
    BY <1>2, <2>1, <2>2, <2>3, <2>4, <2>5 DEF Exists
<1>5. CASE CountVisible(p)
  <2>1. /\ run'[p].step = "apply" /\ UNCHANGED <<alert, event>>
        /\ run'[p].visible = "no" => \A a \in Alert : alert[a] \notin VisibleStates
    BY <1>1, <1>5, Counts DEF CountVisible, alerting, lifecycle
  <2>2. \A q \in Pass : CountOK(q)'
    BY <1>1, <2>1 DEF CountOK, At
  <2> QED
    BY <1>2, <2>1, <2>2 DEF Exists
<1>8. CASE RecordReprice(p) \/ ReportReprice(p)
  <2>1. /\ run[p].step \in {"record", "report"} /\ UNCHANGED alert
        /\ run'[p].step \in {"report", "correct", "idle"}
    BY <1>1, <1>8, Stepped DEF RecordReprice, ReportReprice, AfterReprice, At, Step, alerting
  <2>2. f \in Offer /\ Exists(f) /\ event[f].correction # "none"
    BY <1>1, <2>1
       DEF IInv, Aimed, AimedAt, At, Handler, WatchInv, HandlerOK, PassOK, EventsOK, Finishing, Resumed
  <2>3. /\ \A o \in Offer : event'[o].visible = event[o].visible
                            /\ event'[o].correction = event[o].correction
        /\ \A o \in Offer : o # f => event'[o] = event[o]
    BY <1>1, <1>8, <2>2 DEF RecordReprice, ReportReprice, EventType
  <2>4. \A o \in Offer : Exists(o) => Exists(o)'
    BY <2>2, <2>3 DEF Exists, NoEvent
  <2>5. \A q \in Pass : CountOK(q)'
    BY <1>1, <2>1 DEF CountOK, At
  <2> QED
    BY <1>2, <2>1, <2>3, <2>4, <2>5
<1>9. CASE EnqueueCorrection(p)
  <2>1. /\ run[p].step = "correct" /\ run'[p].step = "close" /\ event' = event
        /\ run'[p] = [run[p] EXCEPT !.step = "close"]
    BY <1>1, <1>9, Stepped DEF EnqueueCorrection, At, Step, lifecycle
  <2>2. /\ f \in Offer /\ Exists(f) /\ event[f].correction = "PENDING"
    BY <1>1, <2>1 DEF IInv, Aimed, AimedAt, At, Handler, WatchInv, HandlerOK, PassOK, Finishing, Resumed
  <2>3. run'[p].for = f /\ run'[p].visible = run[p].visible
    <3>1. run[p] \in RunType
      BY <1>1
    <3> QED
      BY <2>1, <3>1 DEF RunType
  <2>4. /\ alert'[f] = (IF run[p].visible = "yes" /\ alert[f] = "absent"
                        THEN "queued" ELSE alert[f])
        /\ \A a \in Alert : a # f => alert'[a] = alert[a]
        /\ alert[f] \notin {"suppressed", "CANCELLED"}
    BY <1>1, <1>9, <2>2 DEF EnqueueCorrection, AnswerInv, UpdatesOK
  <2>5. \A q \in Pass : CountOK(q)'
    BY <1>1, <2>1, <2>3, <2>4 DEF CountOK, At, Lives
  <2>6. UpdatesOK'
    BY <1>1, <2>1, <2>2, <2>4 DEF AnswerInv, UpdatesOK, Exists
  <2>7. Answered => Answered'
    BY <1>1, <2>1, <2>4 DEF Answered, Lives
  <2>8. \A d \in Deal : alert'[d] = alert[d]
    BY <1>1, <2>2, <2>4
  <2> QED
    BY <2>5, <2>6, <2>7, <2>8 DEF AnswerInv, SeenAreAnswered
<1>10. CASE CloseCorrection(p)
  <2>1. run[p].step = "close" /\ run'[p].step = "idle" /\ UNCHANGED alert
    BY <1>1, <1>10, Stopped DEF CloseCorrection, At, alerting
  <2>2. /\ f \in Offer /\ Exists(f) /\ run[p].visible = event[f].visible
        /\ run[p].visible = "yes" => Lives(alert[f])
    BY <1>1, <2>1
       DEF IInv, Aimed, AimedAt, At, Handler, WatchInv, HandlerOK, PassOK, AnswerInv, CountOK, Finishing, Resumed
  <2>3. /\ event'[f].correction = (IF run[p].visible = "yes" THEN "ENQUEUED" ELSE "NOT_REQUIRED")
        /\ \A o \in Offer : o # f => event'[o] = event[o]
    BY <1>1, <1>10, <2>2 DEF CloseCorrection, EventType
  <2>4. event'[f].correction # "PENDING" /\ \A o \in Offer : Exists(o) => Exists(o)'
    BY <2>2, <2>3 DEF Exists, NoEvent
  <2>5. \A q \in Pass : CountOK(q)'
    BY <1>1, <2>1 DEF CountOK, At
  <2>6. UpdatesOK'
    BY <2>1, <2>2, <2>3, <2>4 DEF AnswerInv, UpdatesOK
  <2>7. Answered => Answered'
    BY <2>1, <2>2, <2>3 DEF Answered, Lives
  <2> QED
    BY <2>1, <2>5, <2>6, <2>7 DEF AnswerInv, SeenAreAnswered
<1> QED
  BY <1>3, <1>4, <1>5, <1>8, <1>9, <1>10 DEF PassStep, Reading, Asking, Reprice

\* The delivery withdraws nothing, leases nothing behind a count, and brings out
\* no deal without a confirmation.
LEMMA AlertsAnswer ==
    ASSUME IInv, WatchInv, Hushed, AnswerInv, Alone, Alerting, LifecycleAssumption
    PROVE  AnswerInv'
<1>0. /\ run \in [Handler -> RunType] /\ TypeOK /\ Pass \subseteq Handler
      /\ alert \in [Alert -> AlertState] /\ Alert = Deal \cup Offer /\ Deal \cap Offer = {}
      /\ Straddles = {} /\ projecting \subseteq Alert
  BY RunTyped DEF IInv, Handler, TypeOK, AlertState, Alone, LifecycleAssumption, Alert
<1>1. UNCHANGED <<verdict, event, run>>
  BY DEF Alerting, EvaluateRead, EvaluateEnqueue, ProjectSelect, ProjectInsert, Lease, Settle,
         verification, lifecycle
<1>2. ASSUME NEW a \in Alert
      PROVE  /\ Lives(alert[a]) => Lives(alert'[a])
             /\ alert'[a] \in {"absent", "suppressed", "CANCELLED"} => alert'[a] = alert[a]
             /\ a \in Offer /\ alert[a] = "absent" => alert'[a] = "absent"
  <2>1. CASE EvaluateRead \/ ProjectSelect
    BY <2>1 DEF EvaluateRead, ProjectSelect
  <2>2. CASE \E d \in Deal : EvaluateEnqueue(d)
    BY <1>0, <2>2 DEF EvaluateEnqueue, Lives
  <2>3. CASE ProjectInsert
    BY <1>0, <2>3 DEF ProjectInsert, Lives
  <2>4. CASE \E b \in Alert : Lease(b) \/ Settle(b)
    BY <1>0, <2>4 DEF Lease, Settle, Lives
  <2> QED
    BY <2>1, <2>2, <2>3, <2>4 DEF Alerting
<1>3. ASSUME NEW p \in Pass, At(p, "apply"), run[p].visible = "no", NEW a \in Alert
      PROVE  alert'[a] \notin VisibleStates
  <2>1. \A b \in Alert : alert[b] \notin VisibleStates
    BY <1>3 DEF AnswerInv, CountOK
  <2>2. CASE EvaluateRead \/ ProjectSelect
    BY <2>1, <2>2 DEF EvaluateRead, ProjectSelect
  <2>3. CASE \E d \in Deal : EvaluateEnqueue(d)
    BY <1>0, <2>1, <2>3 DEF EvaluateEnqueue, VisibleStates
  <2>4. CASE ProjectInsert
    BY <1>0, <2>1, <2>4 DEF ProjectInsert, VisibleStates
  <2>5. CASE \E b \in Alert : Lease(b) \/ Settle(b)
    BY <1>0, <1>3, <2>1, <2>5 DEF Lease, Settle, VisibleStates
  <2> QED
    BY <2>2, <2>3, <2>4, <2>5 DEF Alerting
<1>4. \A p \in Pass : CountOK(p)'
  <2>1. \A p \in Pass : At(p, "close") => run[p].for \in Alert
    BY <1>0 DEF IInv, Aimed, AimedAt, At, Handler
  <2> QED
    BY <1>1, <1>2, <1>3, <2>1 DEF AnswerInv, CountOK, At
<1>5. UpdatesOK'
  BY <1>0, <1>1, <1>2 DEF AnswerInv, UpdatesOK, Exists
<1>6. SeenAreAnswered'
  <2>1. Answered => Answered'
    BY <1>0, <1>1, <1>2 DEF Answered
  <2>2. SUFFICES ASSUME Unconfirmed, NEW d \in Deal, alert'[d] \in Out PROVE Answered'
    BY <1>1 DEF SeenAreAnswered, Unconfirmed
  <2>3. Silent /\ (alert[d] \in Out => Answered)
    BY <2>2 DEF Hushed, AnswerInv, SeenAreAnswered
  <2>4. ~EvaluateRead /\ \A e \in Deal : ~EvaluateEnqueue(e)
    BY <2>3 DEF Silent, EvaluateRead, EvaluateEnqueue
  <2>5. CASE ProjectSelect
    BY <2>1, <2>2, <2>3, <2>5 DEF ProjectSelect
  <2>6. CASE ProjectInsert
    BY <1>0, <2>1, <2>2, <2>3, <2>6 DEF ProjectInsert, Silent
  <2>7. CASE \E a \in Alert : Lease(a) \/ Settle(a)
    BY <1>0, <2>1, <2>2, <2>3, <2>7 DEF Lease, Settle, Out
  <2> QED
    BY <2>4, <2>5, <2>6, <2>7 DEF Alerting
<1> QED
  BY <1>4, <1>5, <1>6 DEF AnswerInv

LEMMA NextAnswers ==
    ASSUME Alone, LifecycleAssumption
    PROVE  IInv /\ WatchInv /\ Hushed /\ AnswerInv /\ [Next]_vars => AnswerInv'
<1> SUFFICES ASSUME IInv, WatchInv, Hushed, AnswerInv, [Next]_vars PROVE AnswerInv'
  OBVIOUS
<1>0. run \in [Handler -> RunType] /\ TypeOK /\ Pass \cup Job = Handler /\ Pass \cap Job = {}
  BY RunTyped DEF IInv, Handler, LifecycleAssumption
<1>1. CASE UNCHANGED vars
  BY <1>1, AnswersKept DEF vars, Unconfirmed
<1>2. CASE \E p \in Pass : ApplyExpiry(p)
  BY <1>2, BatchAnswers
<1>3. CASE Next /\ \A p \in Pass : ~ApplyExpiry(p)
  <2>1. Unconfirmed' => Unconfirmed
    BY <1>3, TakenBackByBatch DEF Alone
  <2>2. CASE Alerting
    BY <2>2, AlertsAnswer
  <2>3. ASSUME NEW p \in Pass, PassStep(p) PROVE AnswerInv'
    BY <1>3, <2>1, <2>3, PassAnswers
  <2>4. CASE \E o \in Offer : Expire(o)
    BY <2>1, <2>4, AnswersKept DEF Expire, alerting, lifecycle
  <2>5. ASSUME NEW j \in Job, NEW S \in SUBSET Offer, Complete(j, S) PROVE AnswerInv'
    BY <1>0, <2>1, <2>5, Stepped, AnswersKept DEF Complete, Step, Moved, alerting, lifecycle
  <2>6. ASSUME NEW h \in Handler, Kill(h) PROVE AnswerInv'
    BY <1>0, <2>1, <2>6, Stopped, AnswersKept DEF Kill, Moved, lifecycle
  <2>7. ASSUME NEW h \in Handler, Recompute(h) PROVE AnswerInv'
    <3>1. Moved(h) /\ run'[h].step \notin {"apply", "close"}
      BY <1>0, <2>7, Reads, Stepped, Stopped
         DEF Recompute, WriteVerdict, WriteSupports, WriteCandidate, At, Step
    <3>2. UNCHANGED <<alert, event>>
      BY <2>7
         DEF Recompute, Read, WriteVerdict, WriteSupports, WriteCandidate, alerting, lifecycle
    <3> QED
      BY <1>0, <2>1, <3>1, <3>2, AnswersKept DEF Moved
  <2> QED
    BY <1>3, <2>2, <2>3, <2>4, <2>5, <2>6, <2>7 DEF Next, Alerting
<1> QED
  BY <1>1, <1>2, <1>3

LEMMA InitAnswers == Init => AnswerInv
<1> SUFFICES ASSUME Init PROVE AnswerInv
  OBVIOUS
<1>1. /\ \A p \in Pass : run[p].step = "idle"
      /\ \A o \in Offer : event[o].correction = "none"
      /\ \A a \in Alert : alert[a] = "absent"
  BY DEF Init, Handler, Idle, NoEvent
<1> QED
  BY <1>1 DEF AnswerInv, CountOK, At, UpdatesOK, SeenAreAnswered, Out, Alert

\* Whoever was sent a deal of a fare that is not confirmed is sent its
\* DEAL-UPDATE, if nothing straddles the pass and no invocation is killed between
\* the verdict and the batch.
THEOREM VisibleDealsAreCorrected == Alone => (Spec => []VisibleDealIsCorrected)
<1> SUFFICES ASSUME Alone PROVE Spec => []VisibleDealIsCorrected
  OBVIOUS
<1>1. OneByOne /\ Apart
  BY DEF Alone, Apart
<1>2. AnswerInv => VisibleDealIsCorrected
  <2> SUFFICES ASSUME AnswerInv, Settled, verdict = "PROBABLE", NEW d \in Deal,
                      alert[d] \in Out
               PROVE  \E o \in Offer : Lives(alert[o])
    BY DEF VisibleDealIsCorrected, Lives, Out
  <2>1. Answered
    BY DEF AnswerInv, SeenAreAnswered, Unconfirmed, Settled, At, Handler, Between
  <2>2. \A o \in Offer : event[o].correction # "PENDING"
    BY DEF Settled, Resumable, Unfinished
  <2> QED
    BY <2>1, <2>2 DEF Answered
<1> QED
  BY <1>1, <1>2, InitAnswers, AlwaysWatch, AlwaysHushed, NextAnswers, LifecycleAssumption, PTL
     DEF Spec
===============================================================================
