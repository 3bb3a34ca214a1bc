--------------------------- MODULE AgencyClearance ---------------------------
(***************************************************************************)
(* The life of one agency offer: its ingest (src/partner_ingest.ts), the   *)
(* projection of its domain event into the candidate queue                 *)
(* (src/ingest.ts), the queue row and the checkout job that external       *)
(* workers lease (src/priority.ts, src/agency_recheck.ts,                  *)
(* src/agency_checkout.ts), and the expiry that ends the offer, its work   *)
(* and its alerts (src/agency_expiry.ts).                                  *)
(*                                                                         *)
(* Every awaited statement is an action. The offer is written by five      *)
(* handlers that read it some statements earlier and do not look again.    *)
(* disturbed remembers which of the overlaps that this allows has          *)
(* happened: each property names the overlaps it does not survive.         *)
(***************************************************************************)
EXTENDS Naturals, FiniteSets

CONSTANTS
    Worker,         \* external workers of the agency
    Call,           \* completions that may be under way at once
    Recheck,        \* recheck_id of the readbacks that may be reported
    Checkout,       \* checkout_id of the readbacks that may be reported
    None,
    MaxAttempts,    \* five in the code
    MaxIngests,     \* how often the agency reports the offer
    MaxKills        \* invocations killed: the platform does not kill for ever

ASSUME AgencyAssumption ==
    /\ None \notin Worker \cup Recheck \cup Checkout /\ Recheck \cap Checkout = {}
    /\ MaxAttempts \in Nat \ {0} /\ MaxIngests \in Nat /\ MaxKills \in Nat

\* The queue row of the offer is rechecked, its checkout job is checked out.
Task == {"recheck", "checkout"}
Readback == Recheck \cup Checkout
TaskOf(r) == IF r \in Checkout THEN "checkout" ELSE "recheck"
Goal(r) == IF r \in Checkout THEN "CHECKOUT_REPRODUCED" ELSE "SELLER_CONFIRMED"
Reason == {"DEADLINE", "SEATS"}

\* The DEAL of a readback, and the DEAL-UPDATE of an expiry.
Alert == Readback \cup Reason

ASSUME DistinctIds == Readback \cap Reason = {}

VARIABLES
    offer,          \* the row of agency_inventory_offers
    event,          \* its AGENCY_OFFER domain event
    row,            \* the queue row and the checkout job
    evidence,       \* recheck and checkout evidence: the result of each readback
    call,           \* completeAgencyRecheck and completeAgencyCheckout under way
    pass,           \* expireAgencyOffers between its statements
    alert,          \* intents and outbox rows; "held": in the hands of a projection
                    \* that has read the intent or a notifier that leased the row
    spared,         \* history: the deals in such hands when the last batch came
    reported,       \* tasks whose death raised an ADMIN alert
    ender,          \* history: who ended the offer last
    disturbed,      \* history: the overlaps that have happened
    ingests,        \* reports so far
    kills           \* invocations killed so far

vars == <<offer, event, row, evidence, call, pass, alert, spared, reported, ender,
          disturbed, ingests, kills>>
counters == <<ingests, kills>>
history == <<ender, disturbed, counters>>
alerts == <<alert, spared>>

Ended == {"EXPIRED", "SOLD_OUT"}
Confirmed == {"SELLER_CONFIRMED", "CHECKOUT_REPRODUCED"}
Disturbance == {"completion", "projection", "lapse", "kill", "again", "direct",
                "twins"}

NoRow == [state |-> "none", by |-> None, lease |-> "none", attempts |-> 0]
IdleCall == [step |-> "idle", id |-> None, by |-> None, result |-> "none",
             retry |-> "no", brings |-> "nothing", attempts |-> 0]

NoPass == [step |-> "idle", reason |-> "DEADLINE"]

Init ==
    /\ offer = [state |-> "none", seats |-> "unknown", deadline |-> "ahead"]
    /\ event = "none"
    /\ row = [t \in Task |-> NoRow]
    /\ evidence = [r \in Readback |-> "none"]
    /\ call = [c \in Call |-> IdleCall]
    /\ pass = NoPass
    /\ alert = [a \in Alert |-> "absent"]
    /\ spared = {}
    /\ reported = {}
    /\ ender = "nobody"
    /\ disturbed = {}
    /\ ingests = 0 /\ kills = 0

Due(o) == o.seats = "none" \/ o.deadline = "passed"
At(c, s) == call[c].step = s
Go(c, s) == call' = [call EXCEPT ![c] = IF s = "idle" THEN IdleCall ELSE [@ EXCEPT !.step = s]]
Doing(c) == TaskOf(call[c].id)
Busy(t) == {c \in Call : ~At(c, "idle") /\ Doing(c) = t}

\* INSERT INTO candidate_alert_intents ... ON CONFLICT DO NOTHING
Raised(a) == [alert EXCEPT ![a] = IF @ = "absent" THEN "unsent" ELSE @]
-----------------------------------------------------------------------------
(* Ingest and the projection of the event.                                 *)

\* Fault: stores the reason as the state.
ReasonAsState(reason) == reason
EndState(reason) == IF reason = "SEATS" THEN "SOLD_OUT" ELSE "EXPIRED"

\* agencyOfferExpiryReason: seats go first.
ExpiryReason(o) == IF o.seats = "none" THEN "SEATS" ELSE "DEADLINE"

Claimed(o) == IF Due(o) THEN EndState(ExpiryReason(o)) ELSE "AGENCY_CLAIMED"

\* A claim does not undo a confirmation; an end does, and a claim undoes an end.
Upserted(old, new) == IF old \in Confirmed /\ new = "AGENCY_CLAIMED" THEN old ELSE new

\* One batch. The event is raised once per offer, whatever is ingested later.
Ingest(seats, deadline) ==
    /\ ingests < MaxIngests
    /\ LET new == [state |-> "none", seats |-> seats, deadline |-> deadline]
       IN  offer' = [new EXCEPT !.state = Upserted(offer.state, Claimed(new))]
    /\ event' = IF event = "none" THEN "PENDING" ELSE event
    /\ ender' = IF offer'.state \in Ended THEN "agency" ELSE ender
    /\ ingests' = ingests + 1
    /\ UNCHANGED <<row, evidence, call, pass, alerts, reported, disturbed, kills>>

Passes ==
    /\ offer.state # "none" /\ offer.deadline = "ahead"
    /\ offer' = [offer EXCEPT !.deadline = "passed"]
    /\ UNCHANGED <<event, row, evidence, call, pass, alerts, reported, history>>

\* Number(null) is 0: an offer whose seats are not known counts as sold out here.
NotQueued(o) == o.state \in Ended \/ o.seats \in {"none", "unknown"} \/ o.deadline = "passed"

ProjectRead ==
    /\ event = "PENDING"
    /\ event' = IF NotQueued(offer) THEN "DONE" ELSE "READ"
    /\ UNCHANGED <<offer, row, evidence, call, pass, alerts, reported, history>>

\* Fault: the queue row is opened again.
Reopened(q) == [q EXCEPT !.state = "PENDING"]
\* ON CONFLICT keeps the state of the row, whatever it is.
Enqueued(q) == IF q.state = "none" THEN [q EXCEPT !.state = "PENDING"] ELSE q

\* enqueueCandidateSignal and the acknowledgement.
ProjectEnqueue ==
    /\ event = "READ"
    /\ row' = [row EXCEPT !["recheck"] = Enqueued(@)]
    /\ event' = "DONE"
    /\ UNCHANGED <<offer, evidence, call, pass, alerts, reported, history>>

\* Killed before either of the two, or between them: the event is claimed again.
KillProjection ==
    /\ event = "READ" /\ kills < MaxKills
    /\ row' \in {row, [row EXCEPT !["recheck"] = Enqueued(@)]}
    /\ event' = "PENDING"
    /\ kills' = kills + 1
    /\ UNCHANGED <<offer, evidence, call, pass, alerts, reported, ender, disturbed, ingests>>
-----------------------------------------------------------------------------
(* Leases.                                                                 *)

\* The lease of a row lapses; for a completion under way that relies on it,
\* this is a disturbance, and so are two of them for one row ("twins").
Lapse(t) ==
    /\ row[t].lease = "live"
    /\ row' = [row EXCEPT ![t].lease = "lapsed"]
    /\ disturbed' = IF Busy(t) = {} THEN disturbed ELSE disturbed \cup {"lapse"}
    /\ UNCHANGED <<offer, event, evidence, call, pass, alerts, reported, ender, counters>>

Reclaim(t) ==
    /\ row[t].state = "LEASED" /\ row[t].lease = "lapsed"
    /\ row' = [row EXCEPT ![t].state = "PENDING", ![t].by = None, ![t].lease = "none"]
    /\ UNCHANGED <<offer, event, evidence, call, pass, alerts, reported, history>>

Leased(q, w) ==
    [state |-> "LEASED", by |-> w, lease |-> "live",
     attempts |-> IF q.attempts < MaxAttempts THEN q.attempts + 1 ELSE q.attempts]

\* leaseAgencyRechecks and leaseAgencyCheckouts look at the offer ...
Claim(t, w) ==
    /\ row[t].state = "PENDING"
    /\ offer.state \notin Ended /\ ~Due(offer)
    /\ row' = [row EXCEPT ![t] = Leased(@, w)]
    /\ UNCHANGED <<offer, event, evidence, call, pass, alerts, reported, history>>

\* ... and leaseCandidateSignals, for the same row, does not.
ClaimSignal(w) ==
    /\ row["recheck"].state = "PENDING"
    /\ row' = [row EXCEPT !["recheck"] = Leased(@, w)]
    /\ UNCHANGED <<offer, event, evidence, call, pass, alerts, reported, history>>
-----------------------------------------------------------------------------
(* completeAgencyRecheck and completeAgencyCheckout.                       *)

HoldsLease(t, w) == row[t].state = "LEASED" /\ row[t].by = w /\ row[t].lease = "live"

MayReport(r, w) ==
    /\ HoldsLease(TaskOf(r), w)
    /\ r \in Checkout => offer.state \in Confirmed

\* What the checks of a readback conclude: a mismatch is retryable, a deadline
\* that has passed is not. A readback brings seats and deadlines of its own
\* ("all") or leaves those of the offer in force ("nothing").
Conclusion(r, brings) ==
    {<<"RECHECK_REQUIRED", "yes">>, <<"SOLD_OUT", "no">>}
    \cup {x \in {<<"RECHECK_REQUIRED", "no">>} : brings = "all" \/ offer.deadline = "passed"}
    \cup {x \in {<<Goal(r), "no">>} : brings = "all" \/ offer.deadline = "ahead"}

\* A readback that is reported again is answered from its evidence and does
\* nothing: it has no action.
Begin(c, r, w) ==
    /\ At(c, "idle")
    /\ evidence[r] = "none"
    /\ MayReport(r, w)
    /\ \E brings \in {"all", "nothing"} : \E x \in Conclusion(r, brings) :
          call' = [call EXCEPT ![c] =
                      [step |-> "record", id |-> r, by |-> w, result |-> x[1],
                       retry |-> x[2], brings |-> brings, attempts |-> row[TaskOf(r)].attempts]]
    /\ disturbed' = IF Busy(TaskOf(r)) = {} THEN disturbed ELSE disturbed \cup {"twins"}
    /\ UNCHANGED <<offer, event, row, evidence, pass, alerts, reported, ender, counters>>

\* The recheck's acknowledgement reads its row first; the checkout's does not.
Settling(c) == IF Doing(c) = "recheck" THEN "check" ELSE "settle"

\* Fault: a readback that must be repeated goes on as if it were good.
AlwaysOffer(c) == "offer"
AfterRecord(c) == IF call[c].result = "RECHECK_REQUIRED" THEN Settling(c) ELSE "offer"

\* The evidence is inserted before anything it is evidence for; a second
\* completion with the same id fails.
Record(c) ==
    /\ At(c, "record")
    /\ IF evidence[call[c].id] = "none"
       THEN /\ evidence' = [evidence EXCEPT ![call[c].id] = call[c].result]
            /\ Go(c, AfterRecord(c))
       ELSE /\ Go(c, "idle")
            /\ UNCHANGED evidence
    /\ UNCHANGED <<offer, event, row, pass, alerts, reported, history>>

\* The UPDATE names the offer and nothing else: it does not see an expiry.
WriteOffer(c) ==
    /\ At(c, "offer")
    /\ offer' =
          IF call[c].result = "SOLD_OUT"
          THEN [offer EXCEPT !.state = "SOLD_OUT", !.seats = "none"]
          ELSE [state    |-> Goal(call[c].id),
                seats    |-> IF call[c].brings = "all" THEN "some" ELSE offer.seats,
                deadline |-> IF call[c].brings = "all" THEN "ahead" ELSE offer.deadline]
    /\ ender' = IF call[c].result = "SOLD_OUT" THEN "seller" ELSE ender
    /\ Go(c, Settling(c))
    /\ UNCHANGED <<event, row, evidence, pass, alerts, reported, disturbed, counters>>

\* Fault: a recheck goes on as a checkout does.
OnlyTheDeal(c) == IF call[c].result # Goal(call[c].id) THEN "idle" ELSE "alert"
AfterSettling(c) ==
    IF call[c].result # Goal(call[c].id) THEN "idle"
    ELSE IF Doing(c) = "recheck" THEN "job" ELSE "alert"

\* ackCandidateSignal: a row this worker has settled is left as it is, and the
\* completion goes on; without the lease it fails.
Check(c) ==
    /\ At(c, "check")
    /\ LET q == row["recheck"]
       IN  \/ /\ q.state \in {"DONE", "DEAD"} /\ q.by = call[c].by
              /\ Go(c, AfterSettling(c))
           \/ /\ HoldsLease("recheck", call[c].by)
              /\ call' = [call EXCEPT ![c].step = "settle", ![c].attempts = q.attempts]
           \/ /\ ~(q.state \in {"DONE", "DEAD"} /\ q.by = call[c].by)
              /\ ~HoldsLease("recheck", call[c].by)
              /\ Go(c, "idle")
    /\ UNCHANGED <<offer, event, row, evidence, pass, alerts, reported, history>>

Ok(c) == call[c].result # "RECHECK_REQUIRED"

\* The UPDATE by id alone. The attempts it goes by were read a statement ago.
Settle(c) ==
    /\ At(c, "settle")
    /\ LET t == Doing(c)
       IN  \/ /\ Ok(c)
              /\ row' = [row EXCEPT ![t].state = "DONE", ![t].lease = "none"]
              /\ Go(c, AfterSettling(c))
           \/ /\ ~Ok(c) /\ call[c].retry = "yes" /\ call[c].attempts < MaxAttempts
              /\ row' = [row EXCEPT ![t].state = "PENDING", ![t].by = None,
                                    ![t].lease = "none"]
              /\ Go(c, "idle")
           \/ /\ ~Ok(c) /\ (call[c].retry = "no" \/ call[c].attempts >= MaxAttempts)
              /\ row' = [row EXCEPT ![t].state = "DEAD", ![t].lease = "none"]
              /\ Go(c, "report")
    /\ UNCHANGED <<offer, event, evidence, pass, alerts, reported, history>>

Report(c) ==
    /\ At(c, "report")
    /\ reported' = reported \cup {Doing(c)}
    /\ Go(c, "idle")
    /\ UNCHANGED <<offer, event, row, evidence, pass, alerts, history>>

\* enqueueAgencyCheckoutJob: one job per offer, for ever.
EnqueueJob(c) ==
    /\ At(c, "job")
    /\ row' = [row EXCEPT !["checkout"] = Enqueued(@)]
    /\ Go(c, "alert")
    /\ UNCHANGED <<offer, event, evidence, pass, alerts, reported, history>>

RaiseDeal(c) ==
    /\ At(c, "alert")
    /\ alert' = Raised(call[c].id)
    /\ Go(c, "idle")
    /\ UNCHANGED <<offer, event, row, evidence, pass, spared, reported, history>>

\* /candidate-priority/ack enters ackCandidateSignal without any readback.
BeginAck(c, w) ==
    /\ At(c, "idle")
    /\ \E result \in {"ACKED", "RECHECK_REQUIRED"}, retry \in {"yes", "no"} :
          call' = [call EXCEPT ![c] = [IdleCall EXCEPT !.step = "check", !.by = w,
                                                       !.result = result, !.retry = retry]]
    /\ disturbed' = disturbed \cup {"direct"}
    /\ UNCHANGED <<offer, event, row, evidence, pass, alerts, reported, ender, counters>>

\* A completion is killed. Only between the row and what follows it is this a loss.
KillCall(c) ==
    /\ ~At(c, "idle") /\ kills < MaxKills
    /\ Go(c, "idle")
    /\ kills' = kills + 1
    /\ disturbed' = IF call[c].step \in {"job", "report"} THEN disturbed \cup {"kill"} ELSE disturbed
    /\ UNCHANGED <<offer, event, row, evidence, pass, alerts, reported, ender, ingests>>
-----------------------------------------------------------------------------
(* expireAgencyOffers, and the delivery of alerts.                         *)

\* The pass finds the offer due and keeps the reason.
PassStart ==
    /\ pass.step = "idle"
    /\ offer.state \notin Ended \cup {"none"} /\ Due(offer)
    /\ pass' = [step |-> "apply", reason |-> ExpiryReason(offer)]
    /\ UNCHANGED <<offer, event, row, evidence, call, alerts, reported, history>>

\* Fault: leased work is left to its worker.
Waiting(q) == q.state = "PENDING"
Open(q) == q.state \in {"PENDING", "LEASED"}

\* Fault: the itinerary_id lacks its prefix, and nothing matches.
Unmatched(a) == alert[a]
\* Intents that are not projected and outbox rows that are not leased.
Silenced(a) == IF alert[a] = "unsent" THEN "withdrawn" ELSE alert[a]

\* The batch. Only the offer's own UPDATE asks whether the offer has ended.
ApplyExpiry ==
    /\ pass.step = "apply"
    /\ offer' = IF offer.state \in Ended THEN offer
                ELSE [offer EXCEPT !.state = EndState(pass.reason)]
    /\ ender' = IF offer.state \in Ended THEN ender ELSE "pass"
    /\ row' = [t \in Task |->
                  IF Open(row[t])
                  THEN [row[t] EXCEPT !.state = "DEAD", !.by = None, !.lease = "none"]
                  ELSE row[t]]
    /\ alert' = [a \in Alert |-> Silenced(a)]
    /\ spared' = {r \in Readback : alert[r] = "held"}
    /\ pass' = [pass EXCEPT !.step = "correct"]
    /\ disturbed' = disturbed
          \cup {d \in {"completion"} : \E c \in Call : ~At(c, "idle")}
          \cup {d \in {"projection"} : event = "READ"}
          \cup {d \in {"again"} : alert[pass.reason] # "absent"}
    /\ UNCHANGED <<event, evidence, call, reported, counters>>

\* Fault: an update is owed only if some alert was still to be sent.
CorrectUnsent == [alert EXCEPT ![pass.reason] =
                     IF \E r \in Readback : alert[r] = "unsent" THEN "unsent" ELSE @]
Corrected == Raised(pass.reason)

\* The DEAL-UPDATE is identified by the offer and the reason.
Correct ==
    /\ pass.step = "correct"
    /\ alert' = Corrected
    /\ pass' = NoPass
    /\ UNCHANGED <<offer, event, row, evidence, call, spared, reported, history>>

KillPass ==
    /\ pass.step # "idle" /\ kills < MaxKills
    /\ pass' = NoPass
    /\ kills' = kills + 1
    /\ disturbed' = IF pass.step = "correct" THEN disturbed \cup {"kill"} ELSE disturbed
    /\ UNCHANGED <<offer, event, row, evidence, call, alerts, reported, ender, ingests>>

\* A projection reads the intent, or a notifier leases the row ...
Hold(a) ==
    /\ alert[a] = "unsent"
    /\ alert' = [alert EXCEPT ![a] = "held"]
    /\ UNCHANGED <<offer, event, row, evidence, call, pass, spared, reported, history>>

\* ... and inserts the row, whatever has become of the intent, or gets it out; or
\* fails, or its lease lapses, and the row is there to be leased again. What is
\* never let go belongs to a projection killed after an expiry marked its intent.
Release(a) ==
    /\ alert[a] = "held"
    /\ \E s \in {"unsent", "sent"} : alert' = [alert EXCEPT ![a] = s]
    /\ UNCHANGED <<offer, event, row, evidence, call, pass, spared, reported, history>>

Completion(c) ==
    \/ Record(c) \/ WriteOffer(c) \/ Check(c) \/ Settle(c) \/ Report(c)
    \/ EnqueueJob(c) \/ RaiseDeal(c)

Next ==
    \/ \E seats \in {"some", "none", "unknown"}, deadline \in {"ahead", "passed"} :
          Ingest(seats, deadline)
    \/ Passes \/ ProjectRead \/ ProjectEnqueue \/ KillProjection
    \/ \E t \in Task : Lapse(t) \/ Reclaim(t) \/ \E w \in Worker : Claim(t, w)
    \/ \E w \in Worker : ClaimSignal(w)
    \/ \E c \in Call, r \in Readback, w \in Worker : Begin(c, r, w)
    \/ \E c \in Call, w \in Worker : BeginAck(c, w)
    \/ \E c \in Call : Completion(c) \/ KillCall(c)
    \/ PassStart \/ ApplyExpiry \/ Correct \/ KillPass
    \/ \E a \in Alert : Hold(a) \/ Release(a)

Spec == Init /\ [][Next]_vars
-----------------------------------------------------------------------------
(* Properties.                                                             *)

Step == {"idle", "record", "offer", "check", "settle", "report", "job", "alert"}
Result == {"none", "ACKED", "RECHECK_REQUIRED", "SOLD_OUT"} \cup Confirmed

TypeOK ==
    /\ offer \in [state : {"none", "AGENCY_CLAIMED"} \cup Confirmed \cup Ended,
                  seats : {"some", "none", "unknown"}, deadline : {"ahead", "passed"}]
    /\ event \in {"none", "PENDING", "READ", "DONE"}
    /\ row \in [Task -> [state : {"none", "PENDING", "LEASED", "DONE", "DEAD"},
                         by : Worker \cup {None}, lease : {"none", "live", "lapsed"},
                         attempts : 0 .. MaxAttempts]]
    /\ evidence \in [Readback -> Result]
    /\ call \in [Call -> [step : Step, id : Readback \cup {None}, by : Worker \cup {None},
                          result : Result, retry : {"yes", "no"}, brings : {"all", "nothing"},
                          attempts : 0 .. MaxAttempts]]
    /\ pass \in [step : {"idle", "apply", "correct"}, reason : Reason]
    /\ alert \in [Alert -> {"absent", "unsent", "held", "withdrawn", "sent"}]
    /\ spared \subseteq Readback
    /\ reported \subseteq Task /\ ender \in {"nobody", "agency", "seller", "pass"}
    /\ disturbed \subseteq Disturbance
    /\ ingests \in 0 .. MaxIngests /\ kills \in 0 .. MaxKills

\* Nothing is under way, and the next pass would find nothing to do.
Settled ==
    /\ \A c \in Call : At(c, "idle")
    /\ pass.step = "idle" /\ event # "READ"
    /\ offer.state \in Ended \/ ~Due(offer)

EndedByPass == Settled /\ offer.state \in Ended /\ ender = "pass"
Undisturbed(by) == disturbed \cap by = {}

\* Whatever is killed or overlaps, an offer is confirmed only on the evidence
\* of a readback that confirmed it, and reproduced only after that; and so is
\* every DEAL about it.
ConfirmedHasEvidence ==
    /\ offer.state = "SELLER_CONFIRMED" =>
          \E r \in Recheck : evidence[r] = "SELLER_CONFIRMED"
    /\ offer.state = "CHECKOUT_REPRODUCED" =>
          \E r \in Checkout : evidence[r] = "CHECKOUT_REPRODUCED"
    /\ \A r \in Readback : alert[r] # "absent" => evidence[r] = Goal(r)
    /\ (\E r \in Checkout : evidence[r] # "none") =>
          \E r \in Recheck : evidence[r] = "SELLER_CONFIRMED"

\* Once the pass has ended the offer it is over: no row is left that a worker may
\* lease, not even through the door that does not look at the offer, and the only
\* deals that may still go out are those that were in hand at the batch (the row
\* of a notifier that fails is leased again, src/outbox.ts:21 and :33) ...
EndedIsOver ==
    EndedByPass /\ Undisturbed({"completion", "projection"}) =>
        /\ \A t \in Task : row[t].state \notin {"PENDING", "LEASED"}
        /\ \A r \in Readback : alert[r] \in {"unsent", "held"} => r \in spared

\* ... and a deal that has gone out, or may still, is answered by a DEAL-UPDATE
\* that has gone out or will. Which of the two goes first is left open.
EndIsCorrected ==
    EndedByPass /\ Undisturbed({"again", "kill"})
       /\ (\E r \in Readback : alert[r] \in {"unsent", "held", "sent"}) =>
            \E x \in Reason : alert[x] \in {"unsent", "held", "sent"}

\* A recheck that ended well has made the checkout job, over the kill of a
\* completion at any statement but one and whatever a repeated recheck finds;
\* and work that its worker saw die has been reported.
WorkIsHandedOn ==
    Settled /\ Undisturbed({"kill"}) =>
        /\ offer.state = "SELLER_CONFIRMED" /\ row["recheck"].state = "DONE"
              /\ Undisturbed({"completion", "lapse", "direct", "twins"}) =>
                 row["checkout"].state # "none"
        /\ \A t \in Task : row[t].state = "DEAD" /\ row[t].by # None => t \in reported

\* An end set by the pass is final, until the agency offers it anew: a recheck
\* that asked for nothing of the offer's state finds no row to work on.
EndIsFinal ==
    [][offer.state \in Ended /\ ender = "pass"
          /\ (Undisturbed({"completion", "projection"}))' =>
             offer'.state \notin Confirmed]_vars

\* A row that is done or dead is not worked on again.
SettledWorkStays ==
    [][\A t \in Task : row[t].state \in {"DONE", "DEAD"} =>
          row'[t].state = row[t].state \/ ~Undisturbed({"completion", "lapse", "direct", "twins"})']_vars
=============================================================================
