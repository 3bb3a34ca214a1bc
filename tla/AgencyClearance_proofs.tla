------------------------ MODULE AgencyClearance_proofs ------------------------
(***************************************************************************)
(* Proofs about AgencyClearance: its type invariant; that no confirmation  *)
(* and no deal is without its evidence; that settled work stays settled as *)
(* long as the work of a completion is nobody else's; that an end by the   *)
(* pass leaves nothing open, is not undone and is followed by its update;  *)
(* and that what a completion owes, a report or a job, is handed on.       *)
(***************************************************************************)
EXTENDS AgencyClearance, TLAPS

\* A pair that most actions leave alone together.
USE DEF alerts

\* The row a readback is about is never in doubt.
LEMMA Constants ==
    /\ None \notin Readback
    /\ \A r \in Readback : TaskOf(r) \in Task /\ Goal(r) \in Confirmed
    /\ TaskOf(None) = "recheck" /\ Goal(None) = "SELLER_CONFIRMED"
    /\ \A r \in Recheck : Goal(r) = "SELLER_CONFIRMED"
    /\ \A r \in Checkout : Goal(r) = "CHECKOUT_REPRODUCED"
    /\ MaxAttempts \in Nat \ {0} /\ MaxIngests \in Nat /\ MaxKills \in Nat
    /\ \A r \in Readback, x \in Reason : r # x
BY AgencyAssumption, DistinctIds DEF Readback, TaskOf, Goal, Task, Confirmed

OfferType == [state : {"none", "AGENCY_CLAIMED"} \cup Confirmed \cup Ended,
              seats : {"some", "none", "unknown"}, deadline : {"ahead", "passed"}]
RowType == [state : {"none", "PENDING", "LEASED", "DONE", "DEAD"},
            by : Worker \cup {None}, lease : {"none", "live", "lapsed"},
            attempts : 0 .. MaxAttempts]
CallType == [step : Step, id : Readback \cup {None}, by : Worker \cup {None},
             result : Result, retry : {"yes", "no"}, brings : {"all", "nothing"},
             attempts : 0 .. MaxAttempts]
PassType == [step : {"idle", "apply", "correct"}, reason : Reason]
AlertState == {"absent", "unsent", "held", "withdrawn", "sent"}
Ender == {"nobody", "agency", "seller", "pass"}
EventState == {"none", "PENDING", "READ", "DONE"}

\* TypeOK with a name for each variable's type.
Types ==
    /\ offer \in OfferType /\ event \in EventState
    /\ row \in [Task -> RowType] /\ evidence \in [Readback -> Result]
    /\ call \in [Call -> CallType] /\ pass \in PassType
    /\ alert \in [Alert -> AlertState] /\ spared \subseteq Readback
    /\ reported \subseteq Task /\ ender \in Ender /\ disturbed \subseteq Disturbance
    /\ ingests \in 0 .. MaxIngests /\ kills \in 0 .. MaxKills

LEMMA SameTypes == (TypeOK <=> Types) /\ (TypeOK' <=> Types')
BY DEF TypeOK, Types, OfferType, RowType, CallType, PassType, AlertState, Ender, EventState

-----------------------------------------------------------------------------
(* The inductive invariants.                                               *)

\* A completion that has recorded its readback acts on what it recorded, and a
\* checkout that has begun has a confirmed recheck behind it.
ActsOnEvidence(c) ==
    /\ call[c].step \in {"record", "offer", "job", "alert"} => call[c].id # None
    /\ call[c].id = None => call[c].result \in {"none", "ACKED", "RECHECK_REQUIRED"}
    /\ call[c].step # "idle" /\ call[c].id # None => call[c].result # "none"
    /\ call[c].step \notin {"idle", "record"} /\ call[c].id # None =>
          evidence[call[c].id] = call[c].result
    /\ call[c].step \in {"record", "offer"} =>
          call[c].result \in {"RECHECK_REQUIRED", "SOLD_OUT", Goal(call[c].id)}
    /\ call[c].step = "offer" => call[c].result # "RECHECK_REQUIRED"
    /\ call[c].step \in {"job", "alert"} => call[c].result = Goal(call[c].id)
    /\ call[c].step = "record" /\ call[c].id \in Checkout =>
          \E r \in Recheck : evidence[r] = "SELLER_CONFIRMED"

EvidenceInv == TypeOK /\ ConfirmedHasEvidence /\ \A c \in Call : ActsOnEvidence(c)

Works(c) == call[c].step \in {"record", "offer", "check", "settle"}
Overlaps == {"completion", "lapse", "direct", "twins"}

\* Without an overlap a completion that is still to settle its row is the only
\* one of that row and has the lease.
Exclusive ==
    Undisturbed(Overlaps) =>
        /\ \A c \in Call : Works(c) => HoldsLease(Doing(c), call[c].by)
        /\ \A c, d \in Call : Works(c) /\ Works(d) /\ Doing(c) = Doing(d) => c = d

ExclusiveInv == TypeOK /\ Exclusive

-----------------------------------------------------------------------------
(* How the rows, the completions and the alerts change.                    *)

\* A completion that goes on changes its step and nothing else; one that ends
\* forgets everything.
LEMMA GoTypes ==
    ASSUME call \in [Call -> CallType], NEW c \in Call, NEW s \in Step, Go(c, s)
    PROVE  /\ call' \in [Call -> CallType]
           /\ \A d \in Call : d # c => call'[d] = call[d]
           /\ s = "idle" => call'[c] = IdleCall
           /\ s # "idle" => call'[c] = [call[c] EXCEPT !.step = s]
           /\ call'[c].step = s
<1>1. IdleCall \in CallType /\ IdleCall.step = "idle"
  BY Constants DEF IdleCall, CallType, Step, Result
<1>2. call[c] \in CallType
  OBVIOUS
<1>3. [call[c] EXCEPT !.step = s] \in CallType /\ [call[c] EXCEPT !.step = s].step = s
  BY <1>2 DEF CallType
<1> DEFINE next == IF s = "idle" THEN IdleCall ELSE [call[c] EXCEPT !.step = s]
<1>4. call' = [call EXCEPT ![c] = next]
  BY DEF Go
<1>5. next \in CallType /\ next.step = s
  BY <1>1, <1>3
<1> HIDE DEF next
<1>6. call' \in [Call -> CallType] /\ call'[c] = next /\ \A d \in Call : d # c => call'[d] = call[d]
  BY <1>4, <1>5
<1> QED
  BY <1>5, <1>6 DEF next

LEMMA InitTypes == Init => TypeOK
<1> SUFFICES ASSUME Init PROVE Types
  BY SameTypes
<1>1. NoRow \in RowType /\ IdleCall \in CallType /\ NoPass \in PassType
  BY Constants DEF NoRow, RowType, IdleCall, CallType, NoPass, PassType, Step, Result, Reason
<1> QED
  BY <1>1, Constants DEF Init, Types, OfferType, EventState, AlertState, Ender, Result

\* What an expiry concludes, and how a claimed offer is stored.
LEMMA Reasons ==
    /\ \A o : ExpiryReason(o) \in Reason
    /\ \A x \in Reason : EndState(x) \in Ended
    /\ \A o : Claimed(o) \in Ended \cup {"AGENCY_CLAIMED"}
BY DEF ExpiryReason, Reason, EndState, Ended, Claimed

\* Each change of the two rows yields rows.
LEMMA RowChanges ==
    ASSUME row \in [Task -> RowType], NEW t \in Task
    PROVE  /\ row[t] \in RowType
           /\ \A q \in RowType : [row EXCEPT ![t] = q] \in [Task -> RowType]
           /\ Enqueued(row[t]) \in RowType
           /\ \A w \in Worker : Leased(row[t], w) \in RowType
BY Constants DEF RowType, Enqueued, Leased

LEMMA NextTypes == TypeOK /\ [Next]_vars => TypeOK'
<1> SUFFICES ASSUME Types, [Next]_vars PROVE Types'
  BY SameTypes
<1> USE Constants
<1>1. ASSUME NEW s \in {"some", "none", "unknown"}, NEW d \in {"ahead", "passed"}, Ingest(s, d)
      PROVE  Types'
  <2>1. offer' \in OfferType
    BY <1>1, Reasons DEF Ingest, Types, OfferType, Upserted, Ended
  <2> QED
    BY <1>1, <2>1 DEF Ingest, Types, EventState, Ender
<1>2. CASE Passes
  BY <1>2 DEF Passes, Types, OfferType, history, counters
<1>3. CASE ProjectRead
  BY <1>3 DEF ProjectRead, Types, EventState, history, counters
<1>4. CASE ProjectEnqueue
  BY <1>4, RowChanges DEF ProjectEnqueue, Types, EventState, Task, history, counters
<1>5. CASE KillProjection
  BY <1>5, RowChanges DEF KillProjection, Types, EventState, Task
<1>6. ASSUME NEW t \in Task, Lapse(t) PROVE Types'
  BY <1>6 DEF Lapse, Types, RowType, Disturbance, counters
<1>7. ASSUME NEW t \in Task, Reclaim(t) PROVE Types'
  BY <1>7 DEF Reclaim, Types, RowType, history, counters
<1>8. ASSUME NEW t \in Task, NEW w \in Worker, Claim(t, w) PROVE Types'
  BY <1>8, RowChanges DEF Claim, Types, history, counters
<1>9. ASSUME NEW w \in Worker, ClaimSignal(w) PROVE Types'
  BY <1>9, RowChanges DEF ClaimSignal, Types, Task, history, counters
<1>10. ASSUME NEW c \in Call, NEW r \in Readback, NEW w \in Worker, Begin(c, r, w) PROVE Types'
  <2> DEFINE begun(x, brings) ==
           [step |-> "record", id |-> r, by |-> w, result |-> x[1], retry |-> x[2],
            brings |-> brings, attempts |-> row[TaskOf(r)].attempts]
  <2>0. PICK brings \in {"all", "nothing"} : \E x \in Conclusion(r, brings) :
           call' = [call EXCEPT ![c] = begun(x, brings)]
    BY <1>10 DEF Begin
  <2>1. PICK x \in Conclusion(r, brings) : call' = [call EXCEPT ![c] = begun(x, brings)]
    BY <2>0
  <2>2. x[1] \in Result /\ x[2] \in {"yes", "no"}
    BY <2>1 DEF Conclusion, Result
  <2>3. row[TaskOf(r)].attempts \in 0 .. MaxAttempts
    BY DEF Types, RowType
  <2>4. call' \in [Call -> CallType]
    BY <2>1, <2>2, <2>3 DEF Types, CallType, Step
  <2> QED
    BY <1>10, <2>4 DEF Begin, Types, Disturbance, counters
<1>11. ASSUME NEW c \in Call, NEW w \in Worker, BeginAck(c, w) PROVE Types'
  <2>1. call' \in [Call -> CallType]
    <3>1. PICK result \in {"ACKED", "RECHECK_REQUIRED"}, retry \in {"yes", "no"} :
             call' = [call EXCEPT ![c] = [IdleCall EXCEPT !.step = "check", !.by = w,
                                                          !.result = result, !.retry = retry]]
      BY <1>11 DEF BeginAck
    <3>2. [IdleCall EXCEPT !.step = "check", !.by = w, !.result = result, !.retry = retry]
             \in CallType
      <4>1. IdleCall \in CallType
        BY DEF IdleCall, CallType, Step, Result
      <4>2. "check" \in Step /\ result \in Result
        BY DEF Step, Result
      <4> QED
        BY <4>1, <4>2 DEF CallType
    <3> QED
      BY <3>1, <3>2 DEF Types
  <2> QED
    BY <1>11, <2>1 DEF BeginAck, Types, Disturbance, counters
<1>12. ASSUME NEW c \in Call, Completion(c) PROVE Types'
  <2>1. /\ Settling(c) \in Step /\ AfterRecord(c) \in Step /\ AfterSettling(c) \in Step
        /\ \A s \in {"idle", "settle", "alert", "report"} : s \in Step
    BY DEF Settling, AfterRecord, AfterSettling, Step
  <2>2. call[c] \in CallType /\ Doing(c) \in Task
    BY DEF Types, CallType, Doing, TaskOf, Task
  <2>3. CASE Record(c)
    <3>1. call' \in [Call -> CallType]
      BY <2>1, <2>3, GoTypes DEF Record, Types
    <3>2. evidence' \in [Readback -> Result]
      BY <2>2, <2>3 DEF Record, Types, CallType
    <3> QED
      BY <2>3, <3>1, <3>2 DEF Record, Types, history, counters
  <2>4. CASE WriteOffer(c)
    <3>1. call' \in [Call -> CallType]
      BY <2>1, <2>4, GoTypes DEF WriteOffer, Types
    <3>2. offer' \in OfferType
      BY <2>2, <2>4 DEF WriteOffer, Types, OfferType, CallType, Goal, Confirmed, Ended
    <3> QED
      BY <2>4, <3>1, <3>2 DEF WriteOffer, Types, Ender, counters
  <2>5. CASE Check(c)
    <3>1. CASE Go(c, AfterSettling(c)) \/ Go(c, "idle")
      <4>1. call' \in [Call -> CallType]
        BY <2>1, <3>1, GoTypes DEF Types
      <4> QED
        BY <2>5, <4>1 DEF Check, Types, history, counters
    <3>2. CASE call' = [call EXCEPT ![c].step = "settle", ![c].attempts = row["recheck"].attempts]
      <4>1. row["recheck"].attempts \in 0 .. MaxAttempts
        BY DEF Types, RowType, Task
      <4>2. call' \in [Call -> CallType]
        BY <2>1, <2>2, <3>2, <4>1 DEF Types, CallType
      <4> QED
        BY <2>5, <4>2 DEF Check, Types, history, counters
    <3> QED
      BY <2>5, <3>1, <3>2 DEF Check
  <2>6. CASE Settle(c)
    <3>1. call' \in [Call -> CallType]
      BY <2>1, <2>6, GoTypes DEF Settle, Types
    <3>2. row' \in [Task -> RowType]
      <4>1. row[Doing(c)] \in RowType
        BY <2>2 DEF Types
      <4>2. Doing(c) \in DOMAIN row
        BY <2>2 DEF Types
      <4>3. CASE row' = [row EXCEPT ![Doing(c)].state = "DONE", ![Doing(c)].lease = "none"]
        BY <2>2, <4>1, <4>2, <4>3 DEF Types, RowType
      <4>4. CASE row' = [row EXCEPT ![Doing(c)].state = "PENDING", ![Doing(c)].by = None,
                                    ![Doing(c)].lease = "none"]
        BY <2>2, <4>1, <4>2, <4>4 DEF Types, RowType
      <4>5. CASE row' = [row EXCEPT ![Doing(c)].state = "DEAD", ![Doing(c)].lease = "none"]
        BY <2>2, <4>1, <4>2, <4>5 DEF Types, RowType
      <4> QED
        BY <2>6, <4>3, <4>4, <4>5 DEF Settle
    <3> QED
      BY <2>6, <3>1, <3>2 DEF Settle, Types, history, counters
  <2>7. CASE Report(c)
    <3>1. call' \in [Call -> CallType]
      BY <2>1, <2>7, GoTypes DEF Report, Types
    <3> QED
      BY <2>2, <2>7, <3>1 DEF Report, Types, history, counters
  <2>8. CASE EnqueueJob(c)
    <3>1. call' \in [Call -> CallType]
      BY <2>1, <2>8, GoTypes DEF EnqueueJob, Types
    <3> QED
      BY <2>8, <3>1, RowChanges DEF EnqueueJob, Types, Task, history, counters
  <2>9. CASE RaiseDeal(c)
    <3>1. call' \in [Call -> CallType]
      BY <2>1, <2>9, GoTypes DEF RaiseDeal, Types
    <3>2. alert' \in [Alert -> AlertState]
      BY <2>9 DEF RaiseDeal, Raised, Types, AlertState
    <3> QED
      BY <2>9, <3>1, <3>2 DEF RaiseDeal, Types, history, counters
  <2> QED
    BY <1>12, <2>3, <2>4, <2>5, <2>6, <2>7, <2>8, <2>9 DEF Completion
<1>13. ASSUME NEW c \in Call, KillCall(c) PROVE Types'
  <2>1. call' \in [Call -> CallType]
    BY <1>13, GoTypes DEF KillCall, Types, Step
  <2> QED
    BY <1>13, <2>1 DEF KillCall, Types, Disturbance
<1>14. CASE PassStart
  BY <1>14, Reasons DEF PassStart, Types, PassType, history, counters
<1>15. CASE ApplyExpiry
  <2>1. pass.reason \in Reason
    BY DEF Types, PassType
  <2>2. offer' \in OfferType
    BY <1>15, <2>1, Reasons DEF ApplyExpiry, Types, OfferType
  <2>3. row' \in [Task -> RowType]
    <3>1. \A q \in RowType :
             [q EXCEPT !.state = "DEAD", !.by = None, !.lease = "none"] \in RowType
      BY DEF RowType
    <3> HIDE DEF RowType
    <3>2. row' = [t \in Task |->
                     IF Open(row[t])
                     THEN [row[t] EXCEPT !.state = "DEAD", !.by = None, !.lease = "none"]
                     ELSE row[t]]
      BY <1>15 DEF ApplyExpiry
    <3> QED
      BY <3>1, <3>2 DEF Types
  <2>4. alert' \in [Alert -> AlertState] /\ pass' \in PassType
    BY <1>15 DEF ApplyExpiry, Types, PassType, AlertState, Silenced
  <2>5. disturbed' \subseteq Disturbance
    BY <1>15 DEF ApplyExpiry, Types, Disturbance
  <2> QED
    BY <1>15, <2>2, <2>3, <2>4, <2>5 DEF ApplyExpiry, Types, Ender, counters
<1>16. CASE Correct
  BY <1>16 DEF Correct, Corrected, Raised, Types, NoPass, PassType, Reason, AlertState, history, counters
<1>17. CASE KillPass
  BY <1>17 DEF KillPass, Types, NoPass, PassType, Reason, Disturbance
<1>18. ASSUME NEW a \in Alert, Hold(a) \/ Release(a) PROVE Types'
  BY <1>18 DEF Hold, Release, Types, AlertState, history, counters
<1>19. CASE UNCHANGED vars
  BY <1>19 DEF vars, Types, counters
<1> QED
  BY <1>1, <1>2, <1>3, <1>4, <1>5, <1>6, <1>7, <1>8, <1>9, <1>10, <1>11, <1>12, <1>13, <1>14,
     <1>15, <1>16, <1>17, <1>18, <1>19 DEF Next

\* The rows of the offer, its queue, its job and everything under way keep
\* their types, whatever is killed and whatever overlaps.
THEOREM TypeCorrect == Spec => []TypeOK
<1> QED
  BY InitTypes, NextTypes, PTL DEF Spec
-----------------------------------------------------------------------------
(* No confirmation without evidence.                                       *)

\* What has been found stays found, and what rests on it with it.
LEMMA StillEvident ==
    ASSUME EvidenceInv,
           \A r \in Readback : evidence[r] # "none" => evidence'[r] = evidence[r],
           \A r \in Checkout : evidence'[r] # "none" =>
               evidence[r] # "none" \/ \E x \in Recheck : evidence[x] = "SELLER_CONFIRMED",
           offer'.state = "SELLER_CONFIRMED" => offer.state = "SELLER_CONFIRMED"
               \/ \E r \in Recheck : evidence[r] = "SELLER_CONFIRMED",
           offer'.state = "CHECKOUT_REPRODUCED" => offer.state = "CHECKOUT_REPRODUCED"
               \/ \E r \in Checkout : evidence[r] = "CHECKOUT_REPRODUCED",
           \A r \in Readback : alert'[r] # "absent" => alert[r] # "absent" \/ evidence[r] = Goal(r)
    PROVE  ConfirmedHasEvidence'
<1>1. \A r \in Readback : Goal(r) # "none"
  BY DEF Goal
<1>2. /\ offer'.state = "SELLER_CONFIRMED" => \E r \in Recheck : evidence'[r] = "SELLER_CONFIRMED"
      /\ offer'.state = "CHECKOUT_REPRODUCED" =>
            \E r \in Checkout : evidence'[r] = "CHECKOUT_REPRODUCED"
  BY DEF EvidenceInv, ConfirmedHasEvidence, Readback
<1>3. \A r \in Readback : alert'[r] # "absent" => evidence'[r] = Goal(r)
  BY <1>1 DEF EvidenceInv, ConfirmedHasEvidence
<1>4. (\E r \in Checkout : evidence'[r] # "none") =>
         \E r \in Recheck : evidence'[r] = "SELLER_CONFIRMED"
  BY DEF EvidenceInv, ConfirmedHasEvidence, Readback
<1> QED
  BY <1>2, <1>3, <1>4 DEF ConfirmedHasEvidence

\* A step of one completion that records nothing.
LEMMA OneCompletion ==
    ASSUME EvidenceInv, TypeOK', ConfirmedHasEvidence', evidence' = evidence,
           NEW c \in Call, \A d \in Call : d # c => call'[d] = call[d], ActsOnEvidence(c)'
    PROVE  EvidenceInv'
<1>1. \A d \in Call : d # c => ActsOnEvidence(d)'
  BY DEF EvidenceInv, ActsOnEvidence
<1> QED
  BY <1>1 DEF EvidenceInv

\* A step that leaves the completions and the evidence alone, confirms nothing
\* and raises no deal.
LEMMA NobodyConfirms ==
    ASSUME EvidenceInv, TypeOK', call' = call, evidence' = evidence,
           offer'.state \in Confirmed => offer'.state = offer.state,
           \A r \in Readback : alert'[r] # "absent" => alert[r] # "absent"
    PROVE  EvidenceInv'
<1>1. ConfirmedHasEvidence'
  BY StillEvident DEF EvidenceInv, ConfirmedHasEvidence, Confirmed
<1>2. \A c \in Call : ActsOnEvidence(c)'
  BY DEF EvidenceInv, ActsOnEvidence
<1> QED
  BY <1>1, <1>2 DEF EvidenceInv

\* A completion that only moves on.
LEMMA MovesOn ==
    ASSUME EvidenceInv, TypeOK', NEW c \in Call, NEW s \in Step, Go(c, s),
           evidence' = evidence, offer'.state \in Confirmed => offer'.state = offer.state,
           alert' = alert, call[c].step # "idle", call[c].step = "record" => s = "idle",
           s \notin {"record", "offer"},
           s \in {"job", "alert"} => call[c].id # None /\ call[c].result = Goal(call[c].id)
    PROVE  EvidenceInv'
<1>1. call \in [Call -> CallType]
  BY SameTypes DEF EvidenceInv, Types
<1>2. ConfirmedHasEvidence'
  BY StillEvident DEF EvidenceInv, ConfirmedHasEvidence, Confirmed
<1>3. CASE s = "idle"
  <2>1. call'[c] = IdleCall /\ \A d \in Call : d # c => call'[d] = call[d]
    BY <1>1, <1>3, GoTypes
  <2>2. ActsOnEvidence(c)'
    BY <2>1 DEF ActsOnEvidence, IdleCall
  <2> QED
    BY <1>2, <2>1, <2>2, OneCompletion
<1>4. CASE s # "idle"
  <2>1. call'[c] = [call[c] EXCEPT !.step = s] /\ \A d \in Call : d # c => call'[d] = call[d]
    BY <1>1, <1>4, GoTypes
  <2>2. call'[c].step = s /\ call'[c].id = call[c].id /\ call'[c].result = call[c].result
    BY <1>1, <2>1 DEF CallType
  <2>3. ActsOnEvidence(c)
    BY DEF EvidenceInv
  <2>4. ActsOnEvidence(c)'
    BY <1>4, <2>2, <2>3 DEF ActsOnEvidence
  <2> QED
    BY <1>2, <2>1, <2>4, OneCompletion
<1> QED
  BY <1>3, <1>4

LEMMA InitEvidence == Init => EvidenceInv
<1> SUFFICES ASSUME Init PROVE EvidenceInv
  OBVIOUS
<1>1. \A c \in Call : ActsOnEvidence(c)
  BY DEF Init, ActsOnEvidence, IdleCall
<1>2. ConfirmedHasEvidence
  BY DEF Init, ConfirmedHasEvidence, Alert, Readback
<1> QED
  BY <1>1, <1>2, InitTypes DEF EvidenceInv

\* A completion begins with what it is to record, and a checkout only for an
\* offer that has been confirmed.
LEMMA BeginEvidence ==
    ASSUME EvidenceInv, TypeOK', NEW c \in Call, NEW r \in Readback, NEW w \in Worker,
           Begin(c, r, w)
    PROVE  EvidenceInv'
<1>1. call \in [Call -> CallType]
  BY SameTypes DEF EvidenceInv, Types
<1>2. /\ \A d \in Call : d # c => call'[d] = call[d]
      /\ call'[c].step = "record" /\ call'[c].id = r
      /\ call'[c].result \in {"RECHECK_REQUIRED", "SOLD_OUT", Goal(r)}
  <2> DEFINE begun(x, brings) ==
         [step |-> "record", id |-> r, by |-> w, result |-> x[1], retry |-> x[2],
          brings |-> brings, attempts |-> row[TaskOf(r)].attempts]
  <2>1. PICK brings \in {"all", "nothing"} : \E x \in Conclusion(r, brings) :
           call' = [call EXCEPT ![c] = begun(x, brings)]
    BY DEF Begin
  <2>2. PICK x \in Conclusion(r, brings) : call' = [call EXCEPT ![c] = begun(x, brings)]
    BY <2>1
  <2>3. x[1] \in {"RECHECK_REQUIRED", "SOLD_OUT", Goal(r)}
    BY DEF Conclusion
  <2> QED
    BY <1>1, <2>2, <2>3
<1>3. r \in Checkout => \E x \in Recheck : evidence[x] = "SELLER_CONFIRMED"
  BY Constants DEF Begin, MayReport, Confirmed, EvidenceInv, ConfirmedHasEvidence
<1>4. UNCHANGED <<offer, evidence, alert>>
  BY DEF Begin
<1>5. ConfirmedHasEvidence'
  BY <1>4, StillEvident DEF EvidenceInv
<1>6. ActsOnEvidence(c)'
  BY <1>2, <1>3, <1>4, Constants DEF ActsOnEvidence, Goal
<1> QED
  BY <1>2, <1>4, <1>5, <1>6, OneCompletion

\* Evidence is written once, and by nobody for another.
LEMMA RecordEvidence ==
    ASSUME EvidenceInv, TypeOK', NEW c \in Call, Record(c)
    PROVE  EvidenceInv'
<1>1. /\ call \in [Call -> CallType] /\ evidence \in [Readback -> Result]
      /\ call[c].id \in Readback /\ call[c].result # "none"
  <2>1. Types
    BY SameTypes DEF EvidenceInv
  <2>2. call[c].id \in Readback \cup {None} /\ call[c].id # None /\ call[c].result # "none"
    BY <2>1 DEF EvidenceInv, ActsOnEvidence, Record, At, Types, CallType
  <2> QED
    BY <2>1, <2>2 DEF Types
<1>2. CASE evidence[call[c].id] # "none"
  BY <1>2, MovesOn DEF Record, At, Step
<1>3. CASE evidence[call[c].id] = "none"
  <2>1. /\ Go(c, AfterRecord(c)) /\ AfterRecord(c) \in Step \ {"idle", "record", "job", "alert"}
        /\ UNCHANGED <<offer, alert>>
        /\ evidence' = [evidence EXCEPT ![call[c].id] = call[c].result]
    BY <1>3 DEF Record, AfterRecord, Settling, Step
  <2>2. /\ \A d \in Call : d # c => call'[d] = call[d]
        /\ call'[c] = [call[c] EXCEPT !.step = AfterRecord(c)]
    BY <1>1, <2>1, GoTypes
  <2>3. /\ call'[c].step = AfterRecord(c) /\ call'[c].id = call[c].id
        /\ call'[c].result = call[c].result
    BY <1>1, <2>2 DEF CallType
  <2>4. /\ \A r \in Readback : evidence[r] # "none" => evidence'[r] = evidence[r]
        /\ evidence'[call[c].id] = call[c].result
        /\ \A r \in Readback : r # call[c].id => evidence'[r] = evidence[r]
    BY <1>1, <1>3, <2>1
  <2>5. ConfirmedHasEvidence'
    <3>1. \A r \in Checkout : evidence'[r] # "none" =>
             evidence[r] # "none" \/ \E x \in Recheck : evidence[x] = "SELLER_CONFIRMED"
      BY <2>4 DEF EvidenceInv, ActsOnEvidence, Record, At, Readback
    <3> QED
      BY <2>1, <2>4, <3>1, StillEvident DEF EvidenceInv
  <2>6. ActsOnEvidence(c)'
    <3>1. /\ AfterRecord(c) = "offer" => call[c].result # "RECHECK_REQUIRED"
          /\ call[c].result \in {"RECHECK_REQUIRED", "SOLD_OUT", Goal(call[c].id)}
      BY DEF AfterRecord, Settling, EvidenceInv, ActsOnEvidence, Record, At
    <3> QED
      BY <1>1, <2>1, <2>3, <2>4, <3>1, Constants DEF ActsOnEvidence
  <2>7. ASSUME NEW d \in Call, d # c PROVE ActsOnEvidence(d)'
    <3>1. ActsOnEvidence(d) /\ call'[d] = call[d] /\ call[d].id \in Readback \cup {None}
      BY <1>1, <2>2, <2>7 DEF EvidenceInv, CallType
    <3>2. (\E r \in Recheck : evidence[r] = "SELLER_CONFIRMED") =>
             \E r \in Recheck : evidence'[r] = "SELLER_CONFIRMED"
      BY <2>4 DEF Readback
    <3> QED
      BY <2>4, <3>1, <3>2 DEF ActsOnEvidence
  <2> QED
    BY <2>5, <2>6, <2>7 DEF EvidenceInv
<1> QED
  BY <1>2, <1>3

\* The offer is written as the evidence says.
LEMMA WriteOfferEvidence ==
    ASSUME EvidenceInv, TypeOK', NEW c \in Call, WriteOffer(c)
    PROVE  EvidenceInv'
<1>1. /\ call[c].step = "offer" /\ call[c].id \in Readback
      /\ evidence[call[c].id] = call[c].result
      /\ call[c].result \in {"SOLD_OUT", Goal(call[c].id)}
      /\ call \in [Call -> CallType]
  <2>1. Types
    BY SameTypes DEF EvidenceInv
  <2>2. call[c] \in CallType /\ call[c].step = "offer" /\ ActsOnEvidence(c)
    BY <2>1 DEF EvidenceInv, WriteOffer, At, Types
  <2> QED
    BY <2>1, <2>2 DEF ActsOnEvidence, CallType, Types
<1>2. /\ offer'.state = "SELLER_CONFIRMED" => \E r \in Recheck : evidence[r] = "SELLER_CONFIRMED"
      /\ offer'.state = "CHECKOUT_REPRODUCED" =>
            \E r \in Checkout : evidence[r] = "CHECKOUT_REPRODUCED"
  <2>1. CASE call[c].result = "SOLD_OUT"
    <3>1. offer'.state = "SOLD_OUT"
      <4>1. offer \in OfferType
        BY SameTypes DEF EvidenceInv, Types
      <4> QED
        BY <2>1, <4>1 DEF WriteOffer, OfferType
    <3> QED
      BY <3>1
  <2>2. CASE call[c].result # "SOLD_OUT"
    <3>1. offer'.state = Goal(call[c].id)
      BY <2>2 DEF WriteOffer
    <3> QED
      BY <1>1, <2>2, <3>1 DEF Goal, Readback
  <2> QED
    BY <2>1, <2>2
<1>3. UNCHANGED <<evidence, alert>> /\ Go(c, Settling(c)) /\ Settling(c) \in {"check", "settle"}
  BY DEF WriteOffer, Settling
<1>4. ConfirmedHasEvidence'
  BY <1>2, <1>3, StillEvident DEF EvidenceInv
<1>5. /\ \A d \in Call : d # c => call'[d] = call[d]
      /\ call'[c] = [call[c] EXCEPT !.step = Settling(c)]
  BY <1>1, <1>3, GoTypes DEF Step
<1>6. /\ call'[c].step \in {"check", "settle"} /\ call'[c].id = call[c].id
      /\ call'[c].result = call[c].result
  BY <1>1, <1>3, <1>5 DEF CallType
<1>7. ActsOnEvidence(c)'
  BY <1>1, <1>3, <1>6, Constants DEF ActsOnEvidence, Goal
<1> QED
  BY <1>3, <1>4, <1>5, <1>7, OneCompletion

\* A deal goes out on the evidence of its readback.
LEMMA RaiseDealEvidence ==
    ASSUME EvidenceInv, TypeOK', NEW c \in Call, RaiseDeal(c)
    PROVE  EvidenceInv'
<1>1. /\ call[c].id # None => evidence[call[c].id] = Goal(call[c].id)
      /\ call[c].id # None
  BY DEF EvidenceInv, ActsOnEvidence, RaiseDeal, At
<1>2. UNCHANGED <<offer, evidence>> /\ Go(c, "idle")
  BY DEF RaiseDeal
<1>3. \A r \in Readback : alert'[r] # "absent" => alert[r] # "absent" \/ evidence[r] = Goal(r)
  BY <1>1, SameTypes DEF RaiseDeal, Raised, EvidenceInv, Types, Alert
<1>4. ConfirmedHasEvidence'
  BY <1>2, <1>3, StillEvident DEF EvidenceInv
<1>5. call'[c] = IdleCall /\ \A d \in Call : d # c => call'[d] = call[d]
  BY <1>2, GoTypes, SameTypes DEF EvidenceInv, Types, Step
<1>6. ActsOnEvidence(c)'
  BY <1>5 DEF ActsOnEvidence, IdleCall
<1> QED
  BY <1>2, <1>4, <1>5, <1>6, OneCompletion

\* The acknowledgement: what it goes on to depends on the result alone.
LEMMA SettlingEvidence ==
    ASSUME EvidenceInv, TypeOK', NEW c \in Call,
           Check(c) \/ Settle(c) \/ Report(c) \/ EnqueueJob(c)
    PROVE  EvidenceInv'
<1>1. call \in [Call -> CallType] /\ call[c].step \in {"check", "settle", "report", "job"}
  BY SameTypes DEF EvidenceInv, Types, Check, Settle, Report, EnqueueJob, At
<1>2. UNCHANGED <<offer, evidence, alert>>
  BY DEF Check, Settle, Report, EnqueueJob
<1>3. /\ AfterSettling(c) \in {"idle", "job", "alert"}
      /\ AfterSettling(c) # "idle" => call[c].result = Goal(call[c].id) /\ call[c].id # None
  BY Constants DEF AfterSettling, EvidenceInv, ActsOnEvidence
<1>4. ASSUME NEW s \in {"idle", "report", "alert", "job"}, Go(c, s),
             s \in {"job", "alert"} => call[c].result = Goal(call[c].id) /\ call[c].id # None
      PROVE  EvidenceInv'
  BY <1>1, <1>2, <1>4, MovesOn DEF Step
<1>5. CASE \E n : call' = [call EXCEPT ![c].step = "settle", ![c].attempts = n]
  <2>1. /\ \A d \in Call : d # c => call'[d] = call[d]
        /\ call'[c].step = "settle" /\ call'[c].id = call[c].id
        /\ call'[c].result = call[c].result
    BY <1>1, <1>5 DEF CallType
  <2>2. ConfirmedHasEvidence'
    BY <1>2, StillEvident DEF EvidenceInv
  <2>3. ActsOnEvidence(c)'
    BY <1>1, <1>2, <2>1, Constants DEF EvidenceInv, ActsOnEvidence
  <2> QED
    BY <1>2, <2>1, <2>2, <2>3, OneCompletion
<1>6. CASE Check(c)
  BY <1>3, <1>4, <1>5, <1>6 DEF Check
<1>7. CASE Settle(c)
  BY <1>3, <1>4, <1>7 DEF Settle
<1>8. CASE Report(c)
  BY <1>4, <1>8 DEF Report
<1>9. CASE EnqueueJob(c)
  <2>1. call[c].result = Goal(call[c].id) /\ call[c].id # None
    BY <1>9 DEF EnqueueJob, At, EvidenceInv, ActsOnEvidence
  <2> QED
    BY <1>4, <1>9, <2>1 DEF EnqueueJob
<1> QED
  BY <1>6, <1>7, <1>8, <1>9

LEMMA NextEvidence == EvidenceInv /\ [Next]_vars => EvidenceInv'
<1> SUFFICES ASSUME EvidenceInv, [Next]_vars, TypeOK' PROVE EvidenceInv'
  BY NextTypes DEF EvidenceInv
<1>1. ASSUME NEW s \in {"some", "none", "unknown"}, NEW d \in {"ahead", "passed"}, Ingest(s, d)
      PROVE  EvidenceInv'
  <2>1. /\ offer'.state = Upserted(offer.state, Claimed([state |-> "none", seats |-> s, deadline |-> d]))
        /\ UNCHANGED <<call, evidence, alert>>
    BY <1>1 DEF Ingest
  <2>2. offer'.state \in Confirmed => offer'.state = offer.state
    BY <2>1, Reasons DEF Upserted, Confirmed, Ended
  <2> QED
    BY <2>1, <2>2, NobodyConfirms
<1>2. CASE Passes
  <2>1. offer'.state = offer.state
    BY <1>2, SameTypes DEF Passes, EvidenceInv, Types, OfferType
  <2> QED
    BY <1>2, <2>1, NobodyConfirms DEF Passes
<1>3. CASE ProjectRead \/ ProjectEnqueue \/ KillProjection
  BY <1>3, NobodyConfirms DEF ProjectRead, ProjectEnqueue, KillProjection
<1>4. ASSUME NEW t \in Task, Lapse(t) \/ Reclaim(t) \/ \E w \in Worker : Claim(t, w)
      PROVE  EvidenceInv'
  BY <1>4, NobodyConfirms DEF Lapse, Reclaim, Claim
<1>5. ASSUME NEW w \in Worker, ClaimSignal(w) PROVE EvidenceInv'
  BY <1>5, NobodyConfirms DEF ClaimSignal
<1>6. ASSUME NEW c \in Call, NEW r \in Readback, NEW w \in Worker, Begin(c, r, w)
      PROVE  EvidenceInv'
  BY <1>6, BeginEvidence
<1>7. ASSUME NEW c \in Call, NEW w \in Worker, BeginAck(c, w) PROVE EvidenceInv'
  <2>1. PICK result \in {"ACKED", "RECHECK_REQUIRED"}, retry \in {"yes", "no"} :
           call' = [call EXCEPT ![c] = [IdleCall EXCEPT !.step = "check", !.by = w,
                                                        !.result = result, !.retry = retry]]
    BY <1>7 DEF BeginAck
  <2>2. /\ \A d \in Call : d # c => call'[d] = call[d]
        /\ call'[c].step = "check" /\ call'[c].id = None /\ call'[c].result = result
    BY <2>1, SameTypes DEF IdleCall, EvidenceInv, Types
  <2>3. UNCHANGED <<offer, evidence, alert>>
    BY <1>7 DEF BeginAck
  <2>4. ConfirmedHasEvidence'
    BY <2>3, StillEvident DEF EvidenceInv
  <2>5. ActsOnEvidence(c)'
    BY <2>2 DEF ActsOnEvidence
  <2> QED
    BY <2>2, <2>3, <2>4, <2>5, OneCompletion
<1>8. ASSUME NEW c \in Call, Completion(c) PROVE EvidenceInv'
  BY <1>8, RecordEvidence, WriteOfferEvidence, SettlingEvidence, RaiseDealEvidence DEF Completion
<1>9. ASSUME NEW c \in Call, KillCall(c) PROVE EvidenceInv'
  BY <1>9, MovesOn DEF KillCall, At, Step
<1>10. CASE PassStart
  BY <1>10, NobodyConfirms DEF PassStart
<1>11. CASE ApplyExpiry
  <2>1. offer'.state \in Confirmed => offer'.state = offer.state
    <3>1. offer \in OfferType /\ EndState(pass.reason) \in Ended
      BY SameTypes, Reasons DEF EvidenceInv, Types, PassType
    <3> QED
      BY <1>11, <3>1 DEF ApplyExpiry, OfferType, Confirmed, Ended
  <2>2. \A r \in Readback : alert'[r] # "absent" => alert[r] # "absent"
    BY <1>11 DEF ApplyExpiry, Silenced, Alert
  <2> QED
    BY <1>11, <2>1, <2>2, NobodyConfirms DEF ApplyExpiry
<1>12. CASE Correct
  <2>1. \A r \in Readback : alert'[r] = alert[r]
    BY <1>12, Constants, SameTypes DEF Correct, Corrected, Raised, EvidenceInv, Types, PassType, Alert
  <2> QED
    BY <1>12, <2>1, NobodyConfirms DEF Correct
<1>13. CASE KillPass
  BY <1>13, NobodyConfirms DEF KillPass
<1>14. ASSUME NEW a \in Alert, Hold(a) \/ Release(a) PROVE EvidenceInv'
  <2>1. \A x \in Readback : alert'[x] # "absent" => alert[x] # "absent"
    BY <1>14, SameTypes DEF Hold, Release, EvidenceInv, Types, Alert
  <2> QED
    BY <1>14, <2>1, NobodyConfirms DEF Hold, Release
<1>15. CASE UNCHANGED vars
  BY <1>15, NobodyConfirms DEF vars
<1> QED
  BY <1>1, <1>2, <1>3, <1>4, <1>5, <1>6, <1>7, <1>8, <1>9, <1>10, <1>11, <1>12, <1>13, <1>14,
     <1>15 DEF Next

\* An offer is confirmed, and a deal about it raised, only on the evidence of a
\* readback that says so, whoever is killed and whatever overlaps.
THEOREM ConfirmationsAreEvident == Spec => []ConfirmedHasEvidence
<1>1. EvidenceInv => ConfirmedHasEvidence
  BY DEF EvidenceInv
<1> QED
  BY <1>1, InitEvidence, NextEvidence, PTL DEF Spec
-----------------------------------------------------------------------------
(* Settled work stays settled.                                             *)

\* What has overlapped is not forgotten.
LEMMA DisturbancesStay == TypeOK /\ [Next]_vars => disturbed \subseteq disturbed'
BY DEF Next, vars, Ingest, Passes, ProjectRead, ProjectEnqueue, KillProjection, Lapse, Reclaim,
   Claim, ClaimSignal, Begin, BeginAck, Completion, Record, WriteOffer, Check, Settle, Report,
   EnqueueJob, RaiseDeal, KillCall, PassStart, ApplyExpiry, Correct, KillPass, Hold, Release, history

\* No completion starts to work, and those that do keep their leases.
LEMMA LeasesKept ==
    ASSUME ExclusiveInv, disturbed \subseteq disturbed',
           \A c \in Call : Works(c)' =>
               Works(c) /\ call'[c].by = call[c].by /\ call'[c].id = call[c].id,
           Undisturbed(Overlaps)' =>
               \A c \in Call, w \in Worker \cup {None} :
                  Works(c)' /\ HoldsLease(Doing(c), w) => HoldsLease(Doing(c), w)'
    PROVE  Exclusive'
<1> SUFFICES ASSUME Undisturbed(Overlaps)'
             PROVE  /\ \A c \in Call : Works(c)' => HoldsLease(Doing(c), call[c].by)'
                    /\ \A c, d \in Call : Works(c)' /\ Works(d)' /\ Doing(c)' = Doing(d)' => c = d
  BY DEF Exclusive
<1>1. Undisturbed(Overlaps)
  BY DEF Undisturbed
<1>2. \A c \in Call : call[c].by \in Worker \cup {None}
  BY SameTypes DEF ExclusiveInv, Types, CallType
<1>3. \A c \in Call : Works(c)' => Doing(c)' = Doing(c)
  BY DEF Doing
<1>4. ASSUME NEW c \in Call, Works(c)' PROVE HoldsLease(Doing(c), call[c].by)'
  <2>1. HoldsLease(Doing(c), call[c].by)
    BY <1>1, <1>4 DEF ExclusiveInv, Exclusive
  <2>2. row'[Doing(c)].state = "LEASED" /\ row'[Doing(c)].by = call[c].by
        /\ row'[Doing(c)].lease = "live"
    BY <1>2, <1>3, <1>4, <2>1 DEF HoldsLease
  <2> QED
    BY <1>3, <1>4, <2>2 DEF HoldsLease
<1> QED
  BY <1>1, <1>3, <1>4 DEF ExclusiveInv, Exclusive

\* A completion that goes on, or stops, takes up no work.
LEMMA StepsOfWork ==
    ASSUME ExclusiveInv, NEW c \in Call, NEW s \in Step, Go(c, s),
           Works(c) \/ s \notin {"record", "offer", "check", "settle"}
    PROVE  \A d \in Call : Works(d)' =>
              Works(d) /\ call'[d].by = call[d].by /\ call'[d].id = call[d].id
<1>1. call \in [Call -> CallType]
  BY SameTypes DEF ExclusiveInv, Types
<1>2. call'[c].step = s /\ \A d \in Call : d # c => call'[d] = call[d]
  BY <1>1, GoTypes
<1>3. s # "idle" => call'[c].by = call[c].by /\ call'[c].id = call[c].id
  <2>1. s # "idle" => call'[c] = [call[c] EXCEPT !.step = s]
    BY <1>1, GoTypes
  <2>2. call[c] \in CallType
    BY <1>1
  <2> QED
    BY <2>1, <2>2 DEF CallType
<1> QED
  BY <1>2, <1>3 DEF Works

\* A row that somebody has the lease of is only changed by its completion, by
\* a lapse and by an expiry.
LEMMA HeldRows ==
    ASSUME ExclusiveInv, NEW t \in Task, NEW w \in Worker \cup {None}, HoldsLease(t, w),
           NEW u \in Task, row' = [row EXCEPT ![u] = Enqueued(row[u])] \/ row' = row
    PROVE  HoldsLease(t, w)'
<1>1. row \in [Task -> RowType]
  BY SameTypes DEF ExclusiveInv, Types
<1>2. row[t].state = "LEASED" => Enqueued(row[t]) = row[t]
  BY DEF Enqueued
<1>3. row'[t] = row[t]
  BY <1>1, <1>2 DEF HoldsLease
<1> QED
  BY <1>3 DEF HoldsLease

LEMMA InitExclusive == Init => ExclusiveInv
BY InitTypes DEF Init, ExclusiveInv, Exclusive, Works, IdleCall

LEMMA NextExclusive == ExclusiveInv /\ [Next]_vars => ExclusiveInv'
<1> SUFFICES ASSUME ExclusiveInv, [Next]_vars, TypeOK', disturbed \subseteq disturbed'
             PROVE  Exclusive'
  BY NextTypes, DisturbancesStay DEF ExclusiveInv
<1>1. /\ call \in [Call -> CallType] /\ row \in [Task -> RowType]
      /\ \A c \in Call : Doing(c) \in Task
  BY SameTypes DEF ExclusiveInv, Types, Doing, TaskOf, Task
<1>2. ASSUME call' = call,
             \A t \in Task, w \in Worker \cup {None} : HoldsLease(t, w) => HoldsLease(t, w)'
      PROVE  Exclusive'
  <2>1. \A c \in Call : Works(c)' =>
           Works(c) /\ call'[c].by = call[c].by /\ call'[c].id = call[c].id
    BY <1>2 DEF Works
  <2>2. \A c \in Call, w \in Worker \cup {None} :
           HoldsLease(Doing(c), w) => HoldsLease(Doing(c), w)'
    BY <1>1, <1>2 DEF HoldsLease, Doing
  <2> QED
    BY <2>1, <2>2, LeasesKept
<1>3. CASE call' = call /\ row' = row
  BY <1>2, <1>3 DEF HoldsLease
<1>4. CASE ProjectEnqueue \/ KillProjection
  <2>1. /\ "recheck" \in Task /\ call' = call
        /\ row' = [row EXCEPT !["recheck"] = Enqueued(row["recheck"])] \/ row' = row
    BY <1>4 DEF ProjectEnqueue, KillProjection, Task
  <2> QED
    BY <1>2, <2>1, HeldRows
<1>5. ASSUME NEW t \in Task, Lapse(t) PROVE Exclusive'
  <2>1. Undisturbed(Overlaps)' => Busy(t) = {}
    BY <1>5 DEF Lapse, Undisturbed, Overlaps
  <2>2. \A u \in Task : u # t => row'[u] = row[u]
    BY <1>1, <1>5 DEF Lapse
  <2>3. ASSUME Undisturbed(Overlaps)', NEW c \in Call, Works(c), NEW w \in Worker \cup {None},
               HoldsLease(Doing(c), w)
        PROVE  HoldsLease(Doing(c), w)'
    <3>1. Doing(c) # t
      BY <2>1, <2>3 DEF Busy, Works, At
    <3>2. row'[Doing(c)] = row[Doing(c)] /\ Doing(c)' = Doing(c)
      BY <1>1, <1>5, <2>2, <3>1 DEF Lapse, Doing
    <3> QED
      BY <2>3, <3>2 DEF HoldsLease
  <2>4. call' = call
    BY <1>5 DEF Lapse
  <2> QED
    BY <2>3, <2>4, LeasesKept DEF Works
<1>6. ASSUME NEW t \in Task, Reclaim(t) PROVE Exclusive'
  <2>1. call' = call /\ row[t].lease = "lapsed" /\ \A u \in Task : u # t => row'[u] = row[u]
    BY <1>1, <1>6 DEF Reclaim
  <2> QED
    BY <1>2, <2>1 DEF HoldsLease
<1>7. ASSUME NEW t \in Task, NEW w \in Worker,
             Claim(t, w) \/ (t = "recheck" /\ ClaimSignal(w))
      PROVE  Exclusive'
  <2>1. call' = call /\ row[t].state = "PENDING" /\ \A u \in Task : u # t => row'[u] = row[u]
    BY <1>1, <1>7 DEF Claim, ClaimSignal
  <2> QED
    BY <1>2, <2>1 DEF HoldsLease
<1>8. ASSUME NEW c \in Call, NEW r \in Readback, NEW w \in Worker, Begin(c, r, w)
      PROVE  Exclusive'
  <2>1. /\ \A d \in Call : d # c => call'[d] = call[d]
        /\ call'[c].step = "record" /\ call'[c].id = r /\ call'[c].by = w
    <3> DEFINE begun(x, brings) ==
           [step |-> "record", id |-> r, by |-> w, result |-> x[1], retry |-> x[2],
            brings |-> brings, attempts |-> row[TaskOf(r)].attempts]
    <3>1. PICK brings \in {"all", "nothing"} : \E x \in Conclusion(r, brings) :
             call' = [call EXCEPT ![c] = begun(x, brings)]
      BY <1>8 DEF Begin
    <3> QED
      BY <1>1, <3>1
  <2>2. row' = row /\ HoldsLease(TaskOf(r), w)
    BY <1>8 DEF Begin, MayReport
  <2>3. Undisturbed(Overlaps)' => Undisturbed(Overlaps) /\ Busy(TaskOf(r)) = {}
    BY <1>8 DEF Begin, Undisturbed, Overlaps
  <2> SUFFICES ASSUME Undisturbed(Overlaps)'
               PROVE  /\ \A d \in Call : Works(d)' => HoldsLease(Doing(d), call[d].by)'
                      /\ \A d, e \in Call : Works(d)' /\ Works(e)' /\ Doing(d)' = Doing(e)' => d = e
    BY DEF Exclusive
  <2>4. \A d \in Call : d # c /\ Works(d)' =>
           /\ Works(d) /\ Doing(d)' = Doing(d) /\ Doing(d) # TaskOf(r)
           /\ call'[d].by = call[d].by
    BY <2>1, <2>3 DEF Works, Busy, At, Doing
  <2>5. Doing(c)' = TaskOf(r)
    BY <2>1 DEF Doing
  <2>6. ASSUME NEW d \in Call, Works(d)' PROVE HoldsLease(Doing(d), call[d].by)'
    <3>1. CASE d = c
      BY <2>1, <2>2, <2>5, <3>1 DEF HoldsLease
    <3>2. CASE d # c
      <4>1. HoldsLease(Doing(d), call[d].by)
        BY <2>3, <2>4, <2>6, <3>2 DEF ExclusiveInv, Exclusive
      <4> QED
        BY <2>2, <2>4, <2>6, <3>2, <4>1 DEF HoldsLease
    <3> QED
      BY <3>1, <3>2
  <2> QED
    BY <2>3, <2>4, <2>5, <2>6 DEF ExclusiveInv, Exclusive
<1>9. ASSUME NEW c \in Call, NEW w \in Worker, BeginAck(c, w) PROVE Exclusive'
  BY <1>9 DEF BeginAck, Exclusive, Undisturbed, Overlaps
<1>10. ASSUME NEW c \in Call,
              \/ Record(c) \/ WriteOffer(c) \/ Check(c) \/ Report(c) \/ RaiseDeal(c)
              \/ KillCall(c) \/ EnqueueJob(c)
       PROVE  Exclusive'
  <2>1. \A d \in Call : Works(d)' =>
           Works(d) /\ call'[d].by = call[d].by /\ call'[d].id = call[d].id
    <3>1. CASE \E s \in Step : Go(c, s) /\
                  (Works(c) \/ s \notin {"record", "offer", "check", "settle"})
      BY <3>1, StepsOfWork
    <3>2. CASE Works(c) /\ \E n : call' = [call EXCEPT ![c].step = "settle", ![c].attempts = n]
      BY <1>1, <3>2 DEF CallType, Works
    <3> QED
      BY <1>10, <3>1, <3>2 DEF Record, WriteOffer, Check, Report, RaiseDeal, KillCall, EnqueueJob,
         AfterRecord, Settling, AfterSettling, Works, At, Step
  <2>2. row' = row \/ ("checkout" \in Task /\
           row' = [row EXCEPT !["checkout"] = Enqueued(row["checkout"])])
    BY <1>10 DEF Record, WriteOffer, Check, Report, RaiseDeal, KillCall, EnqueueJob, Task
  <2>3. \A t \in Task, w \in Worker \cup {None} : HoldsLease(t, w) => HoldsLease(t, w)'
    BY <1>1, <2>2, HeldRows
  <2>4. \A d \in Call : Works(d)' => Doing(d)' = Doing(d)
    BY <2>1 DEF Doing
  <2>5. \A d \in Call, w \in Worker \cup {None} :
           Works(d)' /\ HoldsLease(Doing(d), w) => HoldsLease(Doing(d), w)'
    BY <1>1, <2>3, <2>4 DEF HoldsLease
  <2> QED
    BY <2>1, <2>5, LeasesKept
<1>11. ASSUME NEW c \in Call, Settle(c) PROVE Exclusive'
  <2>1. Works(c) /\ \E s \in {"idle", "job", "alert", "report"} : Go(c, s)
    BY <1>11 DEF Settle, Works, At, AfterSettling
  <2>2. /\ \A d \in Call : Works(d)' =>
              Works(d) /\ call'[d].by = call[d].by /\ call'[d].id = call[d].id
        /\ ~Works(c)'
    BY <1>1, <2>1, StepsOfWork, GoTypes DEF Step, Works
  <2>3. \A t \in Task : t # Doing(c) => row'[t] = row[t]
    BY <1>1, <1>11 DEF Settle
  <2>4. ASSUME Undisturbed(Overlaps)', NEW d \in Call, Works(d)', NEW w \in Worker \cup {None},
               HoldsLease(Doing(d), w)
        PROVE  HoldsLease(Doing(d), w)'
    <3>1. Works(d) /\ d # c /\ Undisturbed(Overlaps) /\ Doing(d)' = Doing(d)
      BY <2>2, <2>4 DEF Undisturbed, Doing
    <3>2. Doing(d) # Doing(c)
      BY <2>1, <3>1 DEF ExclusiveInv, Exclusive
    <3>3. row'[Doing(d)] = row[Doing(d)]
      BY <1>1, <2>3, <3>2
    <3> QED
      BY <2>4, <3>1, <3>3 DEF HoldsLease
  <2> QED
    BY <2>2, <2>4, LeasesKept
<1>12. CASE ApplyExpiry
  <2>1. call' = call /\ (Undisturbed(Overlaps)' => \A c \in Call : ~Works(c))
    BY <1>12 DEF ApplyExpiry, Undisturbed, Overlaps, Works, At
  <2> QED
    BY <2>1 DEF Exclusive, Works
<1>13. CASE \/ UNCHANGED vars \/ Passes \/ ProjectRead \/ PassStart \/ Correct \/ KillPass
            \/ \E a \in Alert : Hold(a) \/ Release(a)
            \/ \E s \in {"some", "none", "unknown"}, d \in {"ahead", "passed"} : Ingest(s, d)
  BY <1>3, <1>13 DEF vars, Passes, ProjectRead, PassStart, Correct, KillPass, Hold, Release, Ingest
<1> QED
  BY <1>4, <1>5, <1>6, <1>7, <1>8, <1>9, <1>10, <1>11, <1>12, <1>13
     DEF Next, Completion, Task

\* No step takes a settled row up again: only the acknowledgement could, and it
\* finds the row it holds.
LEMMA StepsSettleOnce ==
    ASSUME ExclusiveInv, [Next]_vars, Undisturbed(Overlaps)', NEW t \in Task,
           row[t].state \in {"DONE", "DEAD"}
    PROVE  row'[t].state = row[t].state
<1>1. row \in [Task -> RowType] /\ Undisturbed(Overlaps)
  BY SameTypes, DisturbancesStay DEF ExclusiveInv, Types, Undisturbed
<1>2. CASE \E u \in Task : row' = [row EXCEPT ![u] = Enqueued(row[u])]
  BY <1>1, <1>2 DEF Enqueued
<1>3. ASSUME NEW u \in Task,
             Lapse(u) \/ Reclaim(u) \/ \E w \in Worker : Claim(u, w) \/ (u = "recheck" /\ ClaimSignal(w))
      PROVE  row'[t].state = row[t].state
  <2>1. CASE Lapse(u)
    BY <1>1, <2>1 DEF Lapse, RowType
  <2>2. CASE Reclaim(u)
    BY <1>1, <2>2 DEF Reclaim
  <2>3. CASE \E w \in Worker : Claim(u, w) \/ (u = "recheck" /\ ClaimSignal(w))
    BY <1>1, <2>3 DEF Claim, ClaimSignal
  <2> QED
    BY <1>3, <2>1, <2>2, <2>3
<1>4. ASSUME NEW c \in Call, Settle(c) PROVE row'[t].state = row[t].state
  <2>1. HoldsLease(Doing(c), call[c].by)
    BY <1>1, <1>4 DEF Settle, At, Works, ExclusiveInv, Exclusive
  <2>2. Doing(c) # t
    BY <2>1 DEF HoldsLease
  <2> QED
    BY <1>1, <1>4, <2>2 DEF Settle
<1>5. CASE ApplyExpiry
  BY <1>1, <1>5 DEF ApplyExpiry, Open
<1>6. CASE row' = row
  BY <1>6
<1>7. "recheck" \in Task /\ "checkout" \in Task
  BY DEF Task
<1>8. CASE ProjectEnqueue \/ KillProjection \/ \E c \in Call : EnqueueJob(c)
  BY <1>2, <1>6, <1>7, <1>8 DEF ProjectEnqueue, KillProjection, EnqueueJob
<1>9. CASE \/ UNCHANGED vars \/ Passes \/ ProjectRead \/ PassStart \/ Correct \/ KillPass
           \/ \E a \in Alert : Hold(a) \/ Release(a)
           \/ \E s \in {"some", "none", "unknown"}, d \in {"ahead", "passed"} : Ingest(s, d)
  BY <1>6, <1>9 DEF vars, Passes, ProjectRead, PassStart, Correct, KillPass, Hold, Release, Ingest
<1>10. ASSUME NEW c \in Call,
              \/ Record(c) \/ WriteOffer(c) \/ Check(c) \/ Report(c) \/ RaiseDeal(c) \/ KillCall(c)
              \/ \E w \in Worker : BeginAck(c, w)
              \/ \E r \in Readback, w \in Worker : Begin(c, r, w)
       PROVE  row'[t].state = row[t].state
  BY <1>6, <1>10 DEF Record, WriteOffer, Check, Report, RaiseDeal, KillCall, BeginAck, Begin
<1> QED
  BY <1>3, <1>4, <1>5, <1>7, <1>8, <1>9, <1>10 DEF Next, Completion

\* A row that is done or dead is not worked on again, unless completions
\* overlap with one another, with a lapsed lease, with an expiry or with an
\* acknowledgement that is not theirs.
THEOREM SettledStays == Spec => SettledWorkStays
<1>1. ExclusiveInv /\ [Next]_vars =>
         [\A t \in Task : row[t].state \in {"DONE", "DEAD"} =>
             row'[t].state = row[t].state
             \/ ~Undisturbed({"completion", "lapse", "direct", "twins"})']_vars
  BY StepsSettleOnce DEF Overlaps
<1> QED
  BY <1>1, InitExclusive, NextExclusive, PTL DEF Spec, SettledWorkStays
-----------------------------------------------------------------------------
(* What an end by the pass leaves behind.                                  *)

\* A completion that has nothing to find: an acknowledgement by the endpoint.
Harmless(c) == At(c, "idle") \/ (At(c, "check") /\ call[c].id = None)

\* Nothing is left to lease or to complete, and to send only what was in hand.
Over ==
    /\ event # "READ"
    /\ \A t \in Task : ~Open(row[t])
    /\ \A r \in Readback : alert[r] \in {"unsent", "held"} => r \in spared
    /\ \A c \in Call : Harmless(c)

ByPass == offer.state \in Ended /\ ender = "pass"
OverInv == ByPass /\ Undisturbed({"completion", "projection"}) => Over

\* A completion that goes on or ends keeps what it is about, and leaves the
\* others alone.
LEMMA Advances ==
    ASSUME TypeOK, NEW c \in Call, Completion(c) \/ KillCall(c)
    PROVE  /\ \A d \in Call : d # c => call'[d] = call[d]
           /\ \/ call'[c] = IdleCall
              \/ /\ call[c].step # "idle"
                 /\ call'[c].id = call[c].id /\ call'[c].result = call[c].result
<1>1. call \in [Call -> CallType]
  BY SameTypes DEF Types
<1>2. ASSUME NEW s \in Step, Go(c, s), call[c].step # "idle"
      PROVE  /\ \A d \in Call : d # c => call'[d] = call[d]
             /\ \/ call'[c] = IdleCall
                \/ /\ call[c].step # "idle"
                   /\ call'[c].id = call[c].id /\ call'[c].result = call[c].result
  <2>1. /\ \A d \in Call : d # c => call'[d] = call[d]
        /\ call'[c] = IdleCall \/ call'[c] = [call[c] EXCEPT !.step = s]
    BY <1>1, <1>2, GoTypes
  <2>2. call[c] \in CallType
    BY <1>1
  <2> QED
    BY <1>2, <2>1, <2>2 DEF CallType
<1>3. ASSUME NEW n, call' = [call EXCEPT ![c].step = "settle", ![c].attempts = n]
      PROVE  /\ \A d \in Call : d # c => call'[d] = call[d]
             /\ call'[c].id = call[c].id /\ call'[c].result = call[c].result
  BY <1>1, <1>3 DEF CallType
<1>4. call[c].step # "idle"
  BY DEF Completion, Record, WriteOffer, Check, Settle, Report, EnqueueJob, RaiseDeal, KillCall, At
<1>5. \/ \E s \in Step : Go(c, s)
      \/ \E n : call' = [call EXCEPT ![c].step = "settle", ![c].attempts = n]
  BY DEF Completion, Record, WriteOffer, Check, Settle, Report, EnqueueJob, RaiseDeal, KillCall,
         AfterRecord, Settling, AfterSettling, Step
<1> QED
  BY <1>2, <1>3, <1>4, <1>5

LEMMA StillOver ==
    ASSUME Over, event' # "READ",
           \A t \in Task : row'[t].state = row[t].state,
           \A r \in Readback : alert'[r] \in {"unsent", "held"} => alert[r] \in {"unsent", "held"},
           spared' = spared,
           \A c \in Call : call'[c] = call[c] \/ Harmless(c)'
    PROVE  Over'
BY DEF Over, Open, Harmless, At

\* Only the batch of the pass makes an end the pass's own.
LEMMA EndsByPass ==
    ASSUME TypeOK, [Next]_vars, ByPass', ~ApplyExpiry
    PROVE  ByPass
<1>1. offer \in OfferType
  BY SameTypes DEF Types
<1>2. ASSUME NEW s \in {"some", "none", "unknown"}, NEW d \in {"ahead", "passed"}, Ingest(s, d)
      PROVE  FALSE
  BY <1>2 DEF Ingest, ByPass
<1>3. ASSUME NEW c \in Call, WriteOffer(c) PROVE FALSE
  <2>1. call[c].result # "SOLD_OUT"
    BY <1>3 DEF WriteOffer, ByPass
  <2>2. offer'.state = Goal(call[c].id)
    BY <1>3, <2>1 DEF WriteOffer
  <2> QED
    BY <2>2 DEF Goal, ByPass, Ended
<1>4. CASE Passes
  BY <1>1, <1>4 DEF Passes, ByPass, OfferType, history
<1>5. CASE UNCHANGED <<offer, ender>>
  BY <1>5 DEF ByPass
<1> QED
  BY <1>2, <1>3, <1>4, <1>5 DEF Next, vars, ProjectRead, ProjectEnqueue, KillProjection, Lapse,
     Reclaim, Claim, ClaimSignal, Begin, BeginAck, Completion, Record, Check, Settle, Report,
     EnqueueJob, RaiseDeal, KillCall, PassStart, Correct, KillPass, Hold, Release, history

LEMMA NextOver == EvidenceInv /\ OverInv /\ [Next]_vars => OverInv'
<1> SUFFICES ASSUME EvidenceInv, OverInv, [Next]_vars, ByPass',
                    Undisturbed({"completion", "projection"})'
             PROVE  Over'
  BY DEF OverInv
<1>1. /\ TypeOK /\ Undisturbed({"completion", "projection"})
      /\ row \in [Task -> RowType] /\ call \in [Call -> CallType]
      /\ alert \in [Alert -> AlertState]
  BY DisturbancesStay, SameTypes DEF EvidenceInv, Undisturbed, Types
<1>2. CASE ApplyExpiry
  <2>1. event' # "READ" /\ \A c \in Call : call'[c] = call[c] /\ At(c, "idle")
    BY <1>2 DEF ApplyExpiry, Undisturbed
  <2>2. \A t \in Task : ~Open(row[t])'
    <3> SUFFICES ASSUME NEW t \in Task PROVE ~(row'[t].state \in {"PENDING", "LEASED"})
      BY DEF Open
    <3>1. row'[t] = IF Open(row[t])
                    THEN [row[t] EXCEPT !.state = "DEAD", !.by = None, !.lease = "none"]
                    ELSE row[t]
      BY <1>2 DEF ApplyExpiry
    <3>2. row[t] \in RowType
      BY <1>1
    <3> QED
      BY <3>1, <3>2 DEF Open, RowType
  <2>3. \A r \in Readback : alert'[r] \in {"unsent", "held"} => r \in spared'
    BY <1>1, <1>2 DEF ApplyExpiry, Silenced, Alert
  <2> QED
    BY <2>1, <2>2, <2>3 DEF Over, Open, Harmless, At
<1>3. CASE ~ApplyExpiry
  <2>1. ByPass /\ Over
    BY <1>1, <1>3, EndsByPass DEF OverInv
  <2>2. /\ event # "READ" /\ \A t \in Task : row[t].state \notin {"PENDING", "LEASED"}
        /\ \A c \in Call : Harmless(c)
    BY <2>1 DEF Over, Open
  <2>3. CASE ProjectRead
    <3>1. NotQueued(offer)
      BY <2>1 DEF ByPass, NotQueued
    <3> QED
      BY <2>1, <2>3, <3>1, StillOver DEF ProjectRead
  <2>4. ASSUME NEW t \in Task, Lapse(t) PROVE Over'
    <3>1. \A u \in Task : row'[u].state = row[u].state
      BY <1>1, <2>4 DEF Lapse, RowType
    <3> QED
      BY <2>1, <2>2, <2>4, <3>1, StillOver DEF Lapse
  <2>5. ASSUME NEW c \in Call, NEW w \in Worker, BeginAck(c, w) PROVE Over'
    <3>1. PICK result \in {"ACKED", "RECHECK_REQUIRED"}, retry \in {"yes", "no"} :
             call' = [call EXCEPT ![c] = [IdleCall EXCEPT !.step = "check", !.by = w,
                                                          !.result = result, !.retry = retry]]
      BY <2>5 DEF BeginAck
    <3>2. /\ \A d \in Call : d # c => call'[d] = call[d]
          /\ call'[c].step = "check" /\ call'[c].id = None
      BY <1>1, <3>1 DEF IdleCall
    <3>3. \A d \in Call : call'[d] = call[d] \/ Harmless(d)'
      BY <3>2 DEF Harmless, At
    <3> QED
      BY <2>1, <2>2, <2>5, <3>3, StillOver DEF BeginAck
  <2>6. ASSUME NEW c \in Call, Completion(c) \/ KillCall(c) PROVE Over'
    <3>1. Harmless(c) /\ ActsOnEvidence(c)
      BY <2>2 DEF EvidenceInv
    <3>2. Check(c) \/ KillCall(c)
      BY <2>6, <3>1 DEF Completion, Record, WriteOffer, Settle, Report, EnqueueJob, RaiseDeal,
                        Harmless, At
    <3>3. Check(c) => AfterSettling(c) = "idle"
      BY <3>1, Constants DEF Check, AfterSettling, ActsOnEvidence, Harmless, At
    <3>4. Go(c, "idle")
      <4>1. ~HoldsLease("recheck", call[c].by)
        BY <2>2 DEF HoldsLease, Task
      <4> QED
        BY <3>2, <3>3, <4>1 DEF Check, KillCall
    <3>5. \A d \in Call : call'[d] = call[d] \/ Harmless(d)'
      BY <1>1, <3>4, GoTypes DEF Harmless, At, IdleCall, Step
    <3>6. UNCHANGED <<event, row, alerts>>
      BY <3>2 DEF Check, KillCall
    <3> QED
      BY <2>1, <2>2, <3>5, <3>6, StillOver
  <2>7. CASE Correct
    <3>1. \A r \in Readback : alert'[r] = alert[r]
      BY <1>1, <2>7, Constants, SameTypes DEF Correct, Corrected, Raised, Types, PassType, Alert
    <3> QED
      BY <2>1, <2>2, <2>7, <3>1, StillOver DEF Correct
  <2>8. CASE UNCHANGED <<event, row, call, alerts>>
    BY <2>1, <2>2, <2>8, StillOver
  <2>9. /\ ~ProjectEnqueue /\ ~KillProjection
        /\ \A t \in Task : ~Reclaim(t) /\ \A w \in Worker : ~Claim(t, w)
        /\ \A w \in Worker : ~ClaimSignal(w)
    BY <2>2 DEF ProjectEnqueue, KillProjection, Reclaim, Claim, ClaimSignal, Task
  <2>10. \A c \in Call, r \in Readback, w \in Worker : ~Begin(c, r, w)
    BY <2>2, Constants DEF Begin, MayReport, HoldsLease
  <2>11. ASSUME NEW s \in {"some", "none", "unknown"}, NEW d \in {"ahead", "passed"}, Ingest(s, d)
         PROVE  Over'
    BY <2>11 DEF Ingest, ByPass
  <2>12. CASE UNCHANGED vars \/ Passes \/ PassStart \/ KillPass
    BY <2>8, <2>12 DEF vars, Passes, PassStart, KillPass
  <2>13. ASSUME NEW a \in Alert, Hold(a) \/ Release(a) PROVE Over'
    <3>1. \A r \in Readback : alert'[r] \in {"unsent", "held"} => alert[r] \in {"unsent", "held"}
      BY <1>1, <2>13 DEF Hold, Release, Alert
    <3> QED
      BY <2>1, <2>2, <2>13, <3>1, StillOver DEF Hold, Release
  <2> QED
    BY <1>3, <2>3, <2>4, <2>5, <2>6, <2>7, <2>9, <2>10, <2>11, <2>12, <2>13 DEF Next
<1> QED
  BY <1>2, <1>3

\* Once the pass has ended the offer, and no completion and no projection was
\* under way, no row is left to lease, whatever workers ask for, acknowledge or
\* have killed from then on; and a deal that may still go out was in hand at the
\* batch, however often it is returned and taken again.
THEOREM EndsAreOver == Spec => []EndedIsOver
<1>1. Init => OverInv
  BY DEF Init, OverInv, ByPass, Ended
<1>2. OverInv => EndedIsOver
  BY DEF OverInv, EndedIsOver, EndedByPass, ByPass, Over, Open
<1> QED
  BY <1>1, <1>2, NextOver, InitEvidence, NextEvidence, PTL DEF Spec

\* ... and so no step confirms the offer again before the agency has offered it
\* anew: the UPDATE of a completion names the offer alone, but there is none.
THEOREM EndsAreFinal == Spec => EndIsFinal
<1>1. EvidenceInv /\ OverInv /\ [Next]_vars =>
         [offer.state \in Ended /\ ender = "pass"
          /\ (Undisturbed({"completion", "projection"}))' =>
             offer'.state \notin Confirmed]_vars
  <2> SUFFICES ASSUME EvidenceInv, OverInv, Next, ByPass,
                      Undisturbed({"completion", "projection"})'
               PROVE  offer'.state \notin Confirmed
    BY DEF ByPass
  <2>1. Over /\ offer \in OfferType /\ offer.state \in Ended
    BY DisturbancesStay, SameTypes DEF EvidenceInv, Types, Undisturbed, OverInv, ByPass
  <2>2. ASSUME NEW s \in {"some", "none", "unknown"}, NEW d \in {"ahead", "passed"}, Ingest(s, d)
        PROVE  offer'.state \notin Confirmed
    <3>1. offer'.state =
             Upserted(offer.state, Claimed([state |-> "none", seats |-> s, deadline |-> d]))
      BY <2>2 DEF Ingest
    <3> QED
      BY <2>1, <3>1, Reasons DEF Upserted, Confirmed, Ended
  <2>3. \A c \in Call : ~WriteOffer(c)
    BY <2>1 DEF Over, Harmless, WriteOffer, At
  <2>4. CASE ApplyExpiry \/ Passes
    BY <2>1, <2>4 DEF ApplyExpiry, Passes, OfferType, Ended, Confirmed
  <2>5. CASE UNCHANGED offer
    BY <2>1, <2>5 DEF Ended, Confirmed
  <2> QED
    BY <2>2, <2>3, <2>4, <2>5 DEF Next, ProjectRead, ProjectEnqueue, KillProjection, Lapse,
       Reclaim, Claim, ClaimSignal, Begin, BeginAck, Completion, Record, Check, Settle, Report,
       EnqueueJob, RaiseDeal, KillCall, PassStart, Correct, KillPass, Hold, Release
<1>2. Init => OverInv
  BY DEF Init, OverInv, ByPass, Ended
<1> QED
  BY <1>1, <1>2, NextOver, InitEvidence, NextEvidence, PTL DEF Spec, EndIsFinal
-----------------------------------------------------------------------------
(* An end by the pass is followed by an update.                            *)

\* The pass that has ended the offer has its update still to raise, or some
\* update has gone out or will.
UpdateDue ==
    ender = "pass" /\ Undisturbed({"again", "kill"}) =>
        \/ pass.step = "correct" /\ alert[pass.reason] = "absent"
        \/ \E x \in Reason : alert[x] \in {"unsent", "held", "sent"}

LEMMA NextUpdateDue == EvidenceInv /\ UpdateDue /\ [Next]_vars => UpdateDue'
<1> SUFFICES ASSUME EvidenceInv, UpdateDue, [Next]_vars,
                    ender' = "pass", Undisturbed({"again", "kill"})'
             PROVE  \/ pass'.step = "correct" /\ alert'[pass'.reason] = "absent"
                    \/ \E x \in Reason : alert'[x] \in {"unsent", "held", "sent"}
  BY DEF UpdateDue
<1> DEFINE due == \/ pass.step = "correct" /\ alert[pass.reason] = "absent"
                  \/ \E x \in Reason : alert[x] \in {"unsent", "held", "sent"}
<1>1. /\ alert \in [Alert -> AlertState] /\ pass \in PassType /\ Reason \subseteq Alert
      /\ pass.reason \in Reason /\ Undisturbed({"again", "kill"})
  BY DisturbancesStay, SameTypes DEF EvidenceInv, Types, Undisturbed, PassType, Alert
<1>2. ender = "pass" => due
  BY <1>1 DEF UpdateDue
<1>3. CASE ApplyExpiry
  <2>1. alert[pass.reason] = "absent"
    BY <1>3 DEF ApplyExpiry, Undisturbed
  <2>2. alert'[pass.reason] = "absent"
    BY <1>1, <1>3, <2>1 DEF ApplyExpiry, Silenced
  <2>3. pass'.step = "correct" /\ pass'.reason = pass.reason
    BY <1>1, <1>3 DEF ApplyExpiry, PassType
  <2> QED
    BY <2>2, <2>3
<1>4. CASE Correct
  <2>1. due /\ alert' = [alert EXCEPT ![pass.reason] = IF @ = "absent" THEN "unsent" ELSE @]
    BY <1>2, <1>4 DEF Correct, Corrected, Raised, history
  <2>2. CASE alert[pass.reason] = "absent"
    BY <1>1, <2>1, <2>2
  <2>3. CASE alert[pass.reason] # "absent"
    <3>1. alert' = alert
      BY <1>1, <2>1, <2>3
    <3> QED
      BY <2>1, <2>3, <3>1
  <2> QED
    BY <2>2, <2>3
<1>5. CASE KillPass
  <2>1. pass.step # "correct" /\ ender = "pass" /\ alert' = alert
    BY <1>5 DEF KillPass, Undisturbed
  <2> QED
    BY <1>2, <2>1
<1>6. CASE PassStart
  BY <1>2, <1>6 DEF PassStart, history
<1>7. ASSUME pass' = pass, ender = "pass", \A x \in Reason : alert'[x] = alert[x]
      PROVE  due'
  BY <1>1, <1>2, <1>7
<1>8. ASSUME NEW s \in {"some", "none", "unknown"}, NEW d \in {"ahead", "passed"}, Ingest(s, d)
      PROVE  due'
  BY <1>7, <1>8 DEF Ingest
<1>9. ASSUME NEW c \in Call, Completion(c) \/ KillCall(c) PROVE due'
  <2>1. pass' = pass /\ ender = "pass"
    BY <1>9 DEF Completion, Record, WriteOffer, Check, Settle, Report, EnqueueJob, RaiseDeal,
                KillCall, history
  <2>2. \A x \in Reason : alert'[x] = alert[x]
    <3>1. CASE RaiseDeal(c)
      <4>1. call[c].id \in Readback
        BY <3>1, SameTypes DEF RaiseDeal, At, EvidenceInv, ActsOnEvidence, Types, CallType
      <4> QED
        BY <1>1, <3>1, <4>1, Constants DEF RaiseDeal, Raised
    <3>2. CASE alert' = alert
      BY <3>2
    <3> QED
      BY <1>9, <3>1, <3>2 DEF Completion, Record, WriteOffer, Check, Settle, Report, EnqueueJob,
                              KillCall
  <2> QED
    BY <1>7, <2>1, <2>2
<1>10. ASSUME NEW a \in Alert, Hold(a) \/ Release(a) PROVE due'
  <2>1. \A x \in Alert : /\ alert[x] = "absent" <=> alert'[x] = "absent"
                         /\ alert[x] \in {"unsent", "held", "sent"} =>
                               alert'[x] \in {"unsent", "held", "sent"}
    BY <1>1, <1>10 DEF Hold, Release
  <2>2. pass' = pass /\ ender = "pass"
    BY <1>10 DEF Hold, Release, history
  <2> QED
    BY <1>1, <1>2, <2>1, <2>2
<1>11. CASE UNCHANGED <<pass, alert, ender>>
  BY <1>7, <1>11
<1> HIDE DEF due
<1>12. due'
  BY <1>3, <1>4, <1>5, <1>6, <1>8, <1>9, <1>10, <1>11
     DEF Next, vars, Passes, ProjectRead, ProjectEnqueue, KillProjection, Lapse, Reclaim, Claim,
         ClaimSignal, Begin, BeginAck, history, due
<1> QED
  BY <1>12 DEF due

\* A deal that has gone out, or may still, is answered by a DEAL-UPDATE once the
\* pass has ended its offer, unless the offer ended so before, or the pass was
\* killed between its batch and the update.
THEOREM EndsAreCorrected == Spec => []EndIsCorrected
<1>1. Init => UpdateDue
  BY DEF Init, UpdateDue
<1>2. UpdateDue => EndIsCorrected
  BY DEF UpdateDue, EndIsCorrected, EndedByPass, Settled
<1> QED
  BY <1>1, <1>2, NextUpdateDue, InitEvidence, NextEvidence, PTL DEF Spec
-----------------------------------------------------------------------------
(* Work is handed on.                                                      *)

\* Each completion is changed by its own steps alone.
LEMMA OwnSteps ==
    ASSUME TypeOK, [Next]_vars, NEW c \in Call, call'[c] # call[c]
    PROVE  \/ \E r \in Readback, w \in Worker : Begin(c, r, w)
           \/ \E w \in Worker : BeginAck(c, w)
           \/ Completion(c) \/ KillCall(c)
<1>1. call \in [Call -> CallType]
  BY SameTypes DEF Types
<1>2. ASSUME NEW d \in Call, NEW r \in Readback, NEW w \in Worker, Begin(d, r, w) PROVE d = c
  BY <1>1, <1>2 DEF Begin
<1>3. ASSUME NEW d \in Call, NEW w \in Worker, BeginAck(d, w) PROVE d = c
  BY <1>1, <1>3 DEF BeginAck
<1>4. ASSUME NEW d \in Call, Completion(d) \/ KillCall(d) PROVE d = c
  BY <1>4, Advances
<1>5. ~UNCHANGED call
  OBVIOUS
<1> QED
  BY <1>2, <1>3, <1>4, <1>5 DEF Next, vars, Ingest, Passes, ProjectRead, ProjectEnqueue,
     KillProjection, Lapse, Reclaim, Claim, ClaimSignal, PassStart, ApplyExpiry, Correct,
     KillPass, Hold, Release, history

\* What a completion that is about to write, to report or to hand on does next.
LEMMA Leaves ==
    ASSUME TypeOK, [Next]_vars, NEW c \in Call
    PROVE  /\ At(c, "report") => call'[c] = call[c] \/ Report(c) \/ KillCall(c)
           /\ At(c, "job") => call'[c] = call[c] \/ EnqueueJob(c) \/ KillCall(c)
BY OwnSteps DEF At, Begin, BeginAck, Completion, Record, WriteOffer, Check, Settle, Report,
   EnqueueJob, RaiseDeal

\* A row dies in the name of a worker only by the completion that reports it.
LEMMA Deaths ==
    ASSUME TypeOK, [Next]_vars, NEW t \in Task, row'[t].state = "DEAD", row'[t].by # None
    PROVE  \/ row[t].state = "DEAD" /\ row[t].by # None
           \/ \E c \in Call : Settle(c) /\ Doing(c) = t /\ Go(c, "report")
<1>1. row \in [Task -> RowType] /\ "recheck" \in Task /\ "checkout" \in Task
  BY SameTypes DEF Types, Task
<1>2. ASSUME NEW u \in Task, row' = [row EXCEPT ![u] = Enqueued(row[u])]
      PROVE  row[t].state = "DEAD" /\ row[t].by # None
  BY <1>1, <1>2 DEF Enqueued, RowType
<1>3. ASSUME NEW u \in Task, Lapse(u) PROVE row[t].state = "DEAD" /\ row[t].by # None
  BY <1>1, <1>3 DEF Lapse, RowType
<1>4. ASSUME NEW u \in Task, Reclaim(u) PROVE row[t].state = "DEAD" /\ row[t].by # None
  BY <1>1, <1>4 DEF Reclaim, RowType
<1>5. ASSUME NEW u \in Task, NEW w \in Worker, row' = [row EXCEPT ![u] = Leased(row[u], w)]
      PROVE  row[t].state = "DEAD" /\ row[t].by # None
  BY <1>1, <1>5 DEF Leased
<1>6. CASE ApplyExpiry
  BY <1>1, <1>6 DEF ApplyExpiry, RowType
<1>7. ASSUME NEW c \in Call, Settle(c)
      PROVE  (row[t].state = "DEAD" /\ row[t].by # None) \/ (Doing(c) = t /\ Go(c, "report"))
  <2>1. row[Doing(c)] \in RowType /\ Doing(c) \in Task
    BY <1>1 DEF Doing, TaskOf, Task
  <2>2. Doing(c) # t => row'[t] = row[t]
    BY <1>1, <1>7 DEF Settle
  <2>3. Doing(c) = t => Go(c, "report")
    BY <1>1, <1>7, <2>1 DEF Settle, RowType
  <2> QED
    BY <2>2, <2>3
<1>8. CASE row' = row
  BY <1>8
<1> QED
  BY <1>1, <1>2, <1>3, <1>4, <1>5, <1>6, <1>7, <1>8
     DEF Next, vars, Ingest, Passes, ProjectRead, ProjectEnqueue, KillProjection, Claim,
         ClaimSignal, Begin, BeginAck, Completion, Record, WriteOffer, Check, Report, EnqueueJob,
         RaiseDeal, KillCall, PassStart, Correct, KillPass, Hold, Release

\* A death in the name of a worker is reported, or its completion is about to.
DeathsDue ==
    Undisturbed({"kill"}) =>
        \A t \in Task : row[t].state = "DEAD" /\ row[t].by # None =>
            t \in reported \/ \E c \in Call : At(c, "report") /\ Doing(c) = t

LEMMA NextDeathsDue == TypeOK /\ DeathsDue /\ [Next]_vars => DeathsDue'
<1> SUFFICES ASSUME TypeOK, DeathsDue, [Next]_vars, Undisturbed({"kill"})',
                    NEW t \in Task, row'[t].state = "DEAD", row'[t].by # None
             PROVE  t \in reported' \/ \E c \in Call : At(c, "report")' /\ Doing(c)' = t
  BY DEF DeathsDue
<1>1. Undisturbed({"kill"}) /\ call \in [Call -> CallType]
  BY DisturbancesStay, SameTypes DEF Undisturbed, Types
<1>2. reported \subseteq reported'
  BY DEF Next, vars, Ingest, Passes, ProjectRead, ProjectEnqueue, KillProjection, Lapse, Reclaim,
     Claim, ClaimSignal, Begin, BeginAck, Completion, Record, WriteOffer, Check, Settle, Report,
     EnqueueJob, RaiseDeal, KillCall, PassStart, ApplyExpiry, Correct, KillPass, Hold, Release
<1>3. ASSUME NEW c \in Call, At(c, "report"), Doing(c) = t
      PROVE  t \in reported' \/ (At(c, "report")' /\ Doing(c)' = t)
  <2>1. ~KillCall(c)
    BY <1>3 DEF KillCall, At, Undisturbed
  <2>2. Report(c) => t \in reported'
    BY <1>3 DEF Report
  <2>3. call'[c] = call[c] => At(c, "report")' /\ Doing(c)' = t
    BY <1>3 DEF At, Doing
  <2> QED
    BY <1>3, <2>1, <2>2, <2>3, Leaves
<1>4. ASSUME NEW c \in Call, Go(c, "report"), Settle(c), Doing(c) = t
      PROVE  At(c, "report")' /\ Doing(c)' = t
  <2>1. call'[c] = [call[c] EXCEPT !.step = "report"] /\ call'[c].step = "report"
    BY <1>1, <1>4, GoTypes DEF Step
  <2>2. call'[c].id = call[c].id
    BY <1>1, <2>1 DEF CallType
  <2> QED
    BY <1>4, <2>1, <2>2 DEF At, Doing
<1> QED
  BY <1>1, <1>2, <1>3, <1>4, Deaths DEF DeathsDue

\* A completion without a readback came in by the other door.
Direct == \A c \in Call : ~At(c, "idle") /\ call[c].id = None => "direct" \in disturbed

LEMMA NextDirect == TypeOK /\ Direct /\ [Next]_vars => Direct'
<1> SUFFICES ASSUME TypeOK, Direct, [Next]_vars, NEW c \in Call,
                    call'[c].step # "idle", call'[c].id = None
             PROVE  "direct" \in disturbed'
  BY DEF Direct, At
<1>1. disturbed \subseteq disturbed' /\ call \in [Call -> CallType]
  BY DisturbancesStay, SameTypes DEF Types
<1>2. CASE call'[c] = call[c]
  BY <1>1, <1>2 DEF Direct, At
<1>3. ASSUME NEW r \in Readback, NEW w \in Worker, Begin(c, r, w) PROVE FALSE
  <2>1. PICK brings \in {"all", "nothing"} : \E x \in Conclusion(r, brings) :
           call' = [call EXCEPT ![c] =
                       [step |-> "record", id |-> r, by |-> w, result |-> x[1],
                        retry |-> x[2], brings |-> brings,
                        attempts |-> row[TaskOf(r)].attempts]]
    BY <1>3 DEF Begin
  <2>2. call'[c].id = r
    BY <1>1, <2>1
  <2> QED
    BY <2>2, Constants
<1>4. ASSUME NEW w \in Worker, BeginAck(c, w) PROVE "direct" \in disturbed'
  BY <1>4 DEF BeginAck
<1>5. CASE Completion(c) \/ KillCall(c)
  <2>1. call[c].step # "idle" /\ call[c].id = None
    BY <1>5, Advances DEF IdleCall
  <2> QED
    BY <1>1, <2>1 DEF Direct, At
<1> QED
  BY <1>2, <1>3, <1>4, <1>5, OwnSteps

\* Only a recheck confirms the offer as its seller would.
LEMMA Confirms ==
    ASSUME TypeOK, [Next]_vars, offer'.state = "SELLER_CONFIRMED", offer.state # offer'.state
    PROVE  \E c \in Call : WriteOffer(c) /\ call[c].result # "SOLD_OUT" /\ Doing(c) = "recheck"
<1>1. offer \in OfferType /\ pass.reason \in Reason
  BY SameTypes DEF Types, PassType
<1>2. ASSUME NEW s \in {"some", "none", "unknown"}, NEW d \in {"ahead", "passed"}, Ingest(s, d)
      PROVE  FALSE
  <2>1. offer'.state = Upserted(offer.state, Claimed([state |-> "none", seats |-> s, deadline |-> d]))
    BY <1>2 DEF Ingest
  <2> QED
    BY <2>1, Reasons DEF Upserted, Ended
<1>3. CASE Passes \/ ApplyExpiry
  BY <1>1, <1>3, Reasons DEF Passes, ApplyExpiry, OfferType, Ended
<1>4. ASSUME NEW c \in Call, WriteOffer(c)
      PROVE  call[c].result # "SOLD_OUT" /\ Doing(c) = "recheck"
  <2>1. call[c].result # "SOLD_OUT"
    BY <1>1, <1>4 DEF WriteOffer, OfferType
  <2>2. offer'.state = Goal(call[c].id)
    BY <1>4, <2>1 DEF WriteOffer
  <2> QED
    BY <2>1, <2>2 DEF Goal, Doing, TaskOf
<1> QED
  BY <1>2, <1>3, <1>4 DEF Next, vars, ProjectRead, ProjectEnqueue, KillProjection, Lapse, Reclaim,
     Claim, ClaimSignal, Begin, BeginAck, Completion, Record, Check, Settle, Report, EnqueueJob,
     RaiseDeal, KillCall, PassStart, Correct, KillPass, Hold, Release

\* A row is done by the completion that settles it well; and a job that is
\* there stays there.
LEMMA DoneRows ==
    ASSUME TypeOK, [Next]_vars, NEW t \in Task
    PROVE  /\ row'[t].state = "DONE" /\ row[t].state # "DONE" =>
                 \E c \in Call : Settle(c) /\ Doing(c) = t /\ Ok(c) /\ Go(c, AfterSettling(c))
           /\ row[t].state # "none" => row'[t].state # "none"
<1> DEFINE kept == /\ row'[t].state = "DONE" => row[t].state = "DONE"
                   /\ row[t].state # "none" => row'[t].state # "none"
<1>1. row \in [Task -> RowType] /\ "recheck" \in Task /\ "checkout" \in Task
  BY SameTypes DEF Types, Task
<1>2. ASSUME NEW u \in Task, row' = [row EXCEPT ![u] = Enqueued(row[u])] PROVE kept
  BY <1>1, <1>2 DEF Enqueued, RowType
<1>3. ASSUME NEW u \in Task, Lapse(u) PROVE kept
  BY <1>1, <1>3 DEF Lapse, RowType
<1>4. ASSUME NEW u \in Task, Reclaim(u) PROVE kept
  BY <1>1, <1>4 DEF Reclaim, RowType
<1>5. ASSUME NEW u \in Task, NEW w \in Worker, row' = [row EXCEPT ![u] = Leased(row[u], w)]
      PROVE  kept
  BY <1>1, <1>5 DEF Leased
<1>6. CASE ApplyExpiry
  BY <1>1, <1>6 DEF ApplyExpiry, RowType
<1>7. ASSUME NEW c \in Call, Settle(c)
      PROVE  /\ row[t].state # "none" => row'[t].state # "none"
             /\ row'[t].state = "DONE" /\ row[t].state # "DONE" =>
                   Doing(c) = t /\ Ok(c) /\ Go(c, AfterSettling(c))
  <2>1. row[Doing(c)] \in RowType /\ Doing(c) \in Task
    BY <1>1 DEF Doing, TaskOf, Task
  <2>2. Doing(c) # t => row'[t] = row[t]
    BY <1>1, <1>7 DEF Settle
  <2>3. Doing(c) = t => row'[t].state # "none"
    BY <1>1, <1>7, <2>1 DEF Settle, RowType
  <2>4. row'[t].state = "DONE" /\ Doing(c) = t => Ok(c) /\ Go(c, AfterSettling(c))
    BY <1>1, <1>7, <2>1 DEF Settle, RowType
  <2> QED
    BY <2>2, <2>3, <2>4
<1>8. CASE row' = row
  BY <1>8
<1> QED
  BY <1>1, <1>2, <1>3, <1>4, <1>5, <1>6, <1>7, <1>8
     DEF Next, vars, Ingest, Passes, ProjectRead, ProjectEnqueue, KillProjection, Claim,
         ClaimSignal, Begin, BeginAck, Completion, Record, WriteOffer, Check, Report, EnqueueJob,
         RaiseDeal, KillCall, PassStart, Correct, KillPass, Hold, Release

\* Whoever comes to acknowledge has written the offer, or has nothing to write.
LEMMA ComesToSettle ==
    ASSUME TypeOK, [Next]_vars, NEW c \in Call, call'[c].step \in {"check", "settle"},
           \A w \in Worker : ~BeginAck(c, w)
    PROVE  /\ call'[c].id = call[c].id /\ call'[c].result = call[c].result
           /\ \/ call[c].step \in {"check", "settle"} /\ (call'[c] = call[c] \/ Check(c))
              \/ WriteOffer(c)
              \/ call[c].result = "RECHECK_REQUIRED"
<1>1. call \in [Call -> CallType]
  BY SameTypes DEF Types
<1>2. CASE call'[c] = call[c]
  BY <1>2
<1>3. ASSUME NEW r \in Readback, NEW w \in Worker, Begin(c, r, w) PROVE FALSE
  <2>1. PICK brings \in {"all", "nothing"} : \E x \in Conclusion(r, brings) :
           call' = [call EXCEPT ![c] =
                       [step |-> "record", id |-> r, by |-> w, result |-> x[1],
                        retry |-> x[2], brings |-> brings,
                        attempts |-> row[TaskOf(r)].attempts]]
    BY <1>3 DEF Begin
  <2>2. call'[c].step = "record"
    BY <1>1, <2>1
  <2> QED
    BY <2>2
<1>4. CASE Completion(c) \/ KillCall(c)
  <2>1. call'[c].id = call[c].id /\ call'[c].result = call[c].result
    BY <1>4, Advances DEF IdleCall
  <2>2. ASSUME NEW s \in Step \ {"check", "settle"}, Go(c, s) PROVE FALSE
    BY <1>1, <2>2, GoTypes
  <2>3. ~KillCall(c) /\ ~Report(c) /\ ~EnqueueJob(c) /\ ~RaiseDeal(c) /\ ~Settle(c)
    BY <2>2 DEF KillCall, Report, EnqueueJob, RaiseDeal, Settle, AfterSettling, Step
  <2>4. Record(c) => call[c].result = "RECHECK_REQUIRED"
    BY <2>2 DEF Record, AfterRecord, Step
  <2> QED
    BY <1>4, <2>1, <2>3, <2>4 DEF Completion, Check, At
<1> QED
  BY <1>2, <1>3, <1>4, OwnSteps

\* A recheck that has not confirmed the offer leaves it so until it settles.
UnconfirmedStays ==
    \A c \in Call :
        call[c].step \in {"check", "settle"} /\ Doing(c) = "recheck"
          /\ call[c].result \notin {"RECHECK_REQUIRED", "SELLER_CONFIRMED"} =>
            offer.state # "SELLER_CONFIRMED"

\* An offer whose recheck ended well has its job, or is about to.
JobDue ==
    offer.state = "SELLER_CONFIRMED" /\ row["recheck"].state = "DONE" =>
        row["checkout"].state # "none" \/ \E c \in Call : At(c, "job")

HandOver == Undisturbed(Overlaps \cup {"kill"}) => UnconfirmedStays /\ JobDue

LEMMA NextHandOver ==
    EvidenceInv /\ ExclusiveInv /\ Direct /\ HandOver /\ [Next]_vars => HandOver'
<1> SUFFICES ASSUME EvidenceInv, ExclusiveInv, Direct, HandOver, [Next]_vars,
                    Undisturbed(Overlaps \cup {"kill"})'
             PROVE  UnconfirmedStays' /\ JobDue'
  BY DEF HandOver
<1>1. /\ TypeOK /\ Undisturbed(Overlaps) /\ UnconfirmedStays /\ JobDue
      /\ \A c \in Call : ~At(c, "idle") => call[c].id # None
  BY DisturbancesStay DEF EvidenceInv, HandOver, Undisturbed, Direct, Overlaps
<1>2. /\ call \in [Call -> CallType] /\ row \in [Task -> RowType] /\ offer \in OfferType
      /\ "recheck" \in Task /\ "checkout" \in Task
  BY <1>1, SameTypes DEF Types, Task
<1>3. \A c \in Call, w \in Worker : ~BeginAck(c, w)
  BY DEF BeginAck, Undisturbed, Overlaps
<1>4. ASSUME NEW c \in Call, WriteOffer(c)
      PROVE  /\ row["recheck"].state # "DONE" \/ Doing(c) # "recheck"
             /\ \A d \in Call : Works(d) /\ Doing(d) = Doing(c) => d = c
  <2>1. Works(c)
    BY <1>4 DEF WriteOffer, At, Works
  <2>2. HoldsLease(Doing(c), call[c].by) /\ \A d \in Call : Works(d) /\ Doing(d) = Doing(c) => d = c
    BY <1>1, <2>1 DEF ExclusiveInv, Exclusive
  <2> QED
    BY <2>2 DEF HoldsLease
<1>5. ASSUME NEW c \in Call, call'[c].step \in {"check", "settle"}, Doing(c)' = "recheck",
             call'[c].result \notin {"RECHECK_REQUIRED", "SELLER_CONFIRMED"}
      PROVE  offer'.state # "SELLER_CONFIRMED"
  <2>1. /\ call'[c].result = call[c].result /\ Doing(c) = "recheck"
        /\ WriteOffer(c) \/ call[c].step \in {"check", "settle"}
    BY <1>1, <1>3, <1>5, ComesToSettle DEF Doing
  <2>2. CASE WriteOffer(c)
    <3>1. call[c].result = "SOLD_OUT"
      <4>1. call[c].result \in {"SOLD_OUT", Goal(call[c].id)}
        BY <1>5, <2>1, <2>2 DEF EvidenceInv, ActsOnEvidence, WriteOffer, At
      <4> QED
        BY <1>5, <2>1, <4>1 DEF Goal, Doing, TaskOf
    <3> QED
      BY <1>2, <2>2, <3>1 DEF WriteOffer, OfferType
  <2>3. CASE call[c].step \in {"check", "settle"}
    <3>1. offer.state # "SELLER_CONFIRMED"
      BY <1>1, <1>5, <2>1, <2>3 DEF UnconfirmedStays
    <3>2. \A d \in Call : WriteOffer(d) => Doing(d) # "recheck"
      BY <1>4, <2>1, <2>3 DEF Works, WriteOffer, At
    <3> QED
      BY <1>1, <3>1, <3>2, Confirms
  <2> QED
    BY <2>1, <2>2, <2>3
<1>6. ASSUME offer'.state = "SELLER_CONFIRMED", row'["recheck"].state = "DONE"
      PROVE  row'["checkout"].state # "none" \/ \E c \in Call : At(c, "job")'
  <2>1. ASSUME NEW c \in Call, Settle(c), Doing(c) = "recheck", Ok(c), Go(c, AfterSettling(c))
        PROVE  At(c, "job")'
    <3>1. offer.state = "SELLER_CONFIRMED"
      BY <1>6, <2>1 DEF Settle
    <3>2. call[c].result = "SELLER_CONFIRMED"
      BY <1>1, <2>1, <3>1 DEF UnconfirmedStays, Settle, At, Ok
    <3>3. AfterSettling(c) = "job"
      BY <2>1, <3>2 DEF AfterSettling, Goal, Doing, TaskOf
    <3> QED
      BY <1>2, <2>1, <3>3, GoTypes DEF At, Step
  <2>2. CASE row["recheck"].state # "DONE"
    BY <1>1, <1>2, <1>6, <2>1, <2>2, DoneRows
  <2>3. CASE row["recheck"].state = "DONE"
    <3>1. offer.state = "SELLER_CONFIRMED"
      BY <1>1, <1>4, <1>6, <2>3, Confirms
    <3>2. CASE row["checkout"].state # "none"
      BY <1>1, <1>2, <3>2, DoneRows
    <3>3. ASSUME NEW c \in Call, At(c, "job")
          PROVE  row'["checkout"].state # "none" \/ At(c, "job")'
      <4>1. ~KillCall(c)
        BY <3>3 DEF KillCall, At, Undisturbed
      <4>2. EnqueueJob(c) => row'["checkout"].state # "none"
        BY <1>2 DEF EnqueueJob, Enqueued, RowType
      <4> QED
        BY <1>1, <3>3, <4>1, <4>2, Leaves DEF At
    <3> QED
      BY <1>1, <2>3, <3>1, <3>2, <3>3 DEF JobDue
  <2> QED
    BY <2>2, <2>3
<1> QED
  BY <1>5, <1>6 DEF UnconfirmedStays, JobDue

\* What a worker saw die is reported, and a recheck that ended well has made its
\* checkout job: each is owed by the completion until it is there, whatever is
\* killed elsewhere and, for deaths, whatever overlaps.
THEOREM WorkHandedOn == Spec => []WorkIsHandedOn
<1>1. Init => DeathsDue /\ Direct /\ HandOver
  BY DEF Init, DeathsDue, Direct, HandOver, UnconfirmedStays, JobDue, NoRow, IdleCall, At, Task
<1>2. DeathsDue /\ HandOver => WorkIsHandedOn
  <2> SUFFICES ASSUME DeathsDue, HandOver, Settled, Undisturbed({"kill"})
               PROVE  /\ offer.state = "SELLER_CONFIRMED" /\ row["recheck"].state = "DONE"
                            /\ Undisturbed({"completion", "lapse", "direct", "twins"}) =>
                               row["checkout"].state # "none"
                      /\ \A t \in Task : row[t].state = "DEAD" /\ row[t].by # None => t \in reported
    BY DEF WorkIsHandedOn
  <2>1. \A c \in Call : ~At(c, "job") /\ ~At(c, "report")
    BY DEF Settled, At
  <2>2. Undisturbed(Overlaps) => Undisturbed(Overlaps \cup {"kill"})
    BY DEF Undisturbed
  <2> QED
    BY <2>1, <2>2 DEF DeathsDue, HandOver, JobDue, Overlaps
<1>3. EvidenceInv => TypeOK
  BY DEF EvidenceInv
<1> QED
  BY <1>1, <1>2, <1>3, NextDeathsDue, NextDirect, NextHandOver, InitEvidence, NextEvidence,
     InitExclusive, NextExclusive, PTL DEF Spec
===============================================================================
