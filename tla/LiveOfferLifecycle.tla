-------------------------- MODULE LiveOfferLifecycle --------------------------
(***************************************************************************)
(* The expiry of live offers: expireLiveProviderOffers of                  *)
(* src/offer_lifecycle.ts, together with everything that writes what it    *)
(* reads: recomputeCandidateVerification of src/provider_results.ts (run   *)
(* by the pass itself and by every completed provider job), the handler    *)
(* that raises a DEAL alert, the projection of alerts and their delivery.  *)
(* One candidate (one queue entry and query) is modelled with its offers.  *)
(*                                                                         *)
(* Every awaited statement is an action. Straddles names the activities    *)
(* that may overlap an expiry: with none of them the pass does what        *)
(* docs/FARE_VERIFICATION.md says; runs add them one at a time.            *)
(***************************************************************************)
EXTENDS Naturals, FiniteSets

CONSTANTS
    Offer,          \* live offers for the candidate's query; none outlives its expiry
    Deal,           \* ids of the DEAL alerts the evaluation may raise
    Confirming,     \* the sets of fresh offers verifyMultiProvider confirms
    Pass,           \* cron invocations of the expiry pass
    Job,            \* invocations of projectProviderJobResults
    Plan,           \* the search plans a reprice chooses, of one provider each
    None,
    Straddles,      \* activities that may overlap an expiry
    KillAt,         \* steps before which an invocation may be killed
    MaxKills        \* how many are killed: the platform does not kill for ever

Activity == {"lease", "project", "evaluate", "results"}
Step == {"idle", "due", "choose", "read", "verdict", "supports", "candidate", "rotate",
         "look", "apply", "event", "reprice", "plan", "insert", "join", "record", "report",
         "correct", "close"}

ASSUME LifecycleAssumption ==
    /\ Confirming \subseteq (SUBSET Offer) \ {{}}
    /\ None \notin Offer \cup Plan /\ Pass \cap Job = {} /\ Deal \cap Offer = {}
    /\ Straddles \subseteq Activity /\ KillAt \subseteq Step \ {"idle"}
    /\ MaxKills \in Nat

\* All DEAL-class alerts of the itinerary: deals, and an expiry's DEAL-UPDATE,
\* which is identified by the expired offer.
Alert == Deal \cup Offer
Handler == Pass \cup Job

VARIABLES
    offer,          \* offer_snapshots and candidate_offer_links
    verdict,        \* candidate_verification_results.verification_state
    supports,       \* candidate_verification_supports
    fare,           \* the offer whose PASS facet makes the itinerary CONFIRMED
    event,          \* live_offer_lifecycle_events, by expired offer
    jobs,           \* verification_jobs made for an event and a plan
    consumers,      \* provider_job_consumers: who is told what such a job finds
    reported,       \* events whose failed reprice raised an ADMIN alert
    lost,           \* history: events whose pass was killed just before it did
    alert,          \* intent and outbox row of every alert
    run,            \* the invocations under way
    projecting,     \* intents a projection has read and not inserted
    evaluating,     \* "yes": an evaluation found the deal actionable
    held,           \* history: the alerts a notifier held when the last batch came
    kills           \* invocations killed so far

vars == <<offer, verdict, supports, fare, event, jobs, consumers, reported, lost, alert,
          run, projecting, evaluating, held, kills>>
verification == <<verdict, supports, fare>>
repricing == <<jobs, consumers, reported, lost>>
lifecycle == <<event, repricing>>
sending == <<projecting, evaluating, held>>
alerting == <<alert, sending, kills>>

EventState == {"PENDING", "NOT_REQUIRED", "ENQUEUED", "PARTIAL", "FAILED"}
NoEvent == [visible |-> "no", correction |-> "none", reprice |-> "none"]
Idle == [step |-> "idle", for |-> None, goal |-> "PROBABLE", sup |-> {}, best |-> None,
         visible |-> "no", correction |-> "none", reprice |-> "none", todo |-> {},
         plan |-> None]

Init ==
    /\ offer = [o \in Offer |-> "unseen"]
    /\ verdict = "none" /\ supports = {} /\ fare = None
    /\ event = [o \in Offer |-> NoEvent]
    /\ jobs = {} /\ consumers = {}
    /\ reported = {} /\ lost = {}
    /\ alert = [a \in Alert |-> "absent"]
    /\ run = [h \in Handler |-> Idle]
    /\ projecting = {}
    /\ evaluating = "no"
    /\ held = {}
    /\ kills = 0

\* Fault: expired offers still count.
Linked == {o \in Offer : offer[o] # "unseen"}
Fresh == {o \in Offer : offer[o] = "fresh"}
Exists(o) == event[o] # NoEvent
Unfinished(o) == event[o].correction = "PENDING" \/ event[o].reprice = "PENDING"
Expiring == {o \in supports : offer[o] = "expired" /\ ~Exists(o)}
Due == IF verdict = "CONFIRMED" THEN Expiring ELSE {}

At(h, s) == run[h].step = s
Go(h, s) == run' = [run EXCEPT ![h].step = s]
ResultsApart == "results" \in Straddles \/ \A j \in Job : At(j, "idle")
Passing == \E p \in Pass : run[p].step # "idle"
-----------------------------------------------------------------------------
(* Offers.                                                                 *)

Expire(o) ==
    /\ offer[o] = "fresh" /\ ResultsApart
    /\ offer' = [offer EXCEPT ![o] = "expired"]
    /\ UNCHANGED <<verification, lifecycle, alerting, run>>

\* A provider job completes: its offers S are linked to the candidate, which is
\* then recomputed. A completion that is sent again brings no new offers.
Complete(j, S) ==
    /\ At(j, "idle")
    /\ "results" \in Straddles \/ (~Passing /\ Due = {})
    /\ S \subseteq {o \in Offer : offer[o] = "unseen"}
    /\ offer' = [o \in Offer |-> IF o \in S THEN "fresh" ELSE offer[o]]
    /\ Go(j, "read")
    /\ UNCHANGED <<verification, lifecycle, alerting>>
-----------------------------------------------------------------------------
(* recomputeCandidateVerification.                                         *)

\* The verdict of verifyMultiProvider on the linked offers that are fresh now.
Read(h) ==
    /\ At(h, "read")
    /\ LET confirming == {S \in Confirming : S \subseteq Fresh}
       IN  \/ \E S \in confirming : \E best \in S :
                 run' = [run EXCEPT ![h].step = "verdict", ![h].goal = "CONFIRMED",
                                    ![h].sup = S, ![h].best = best]
           \/ /\ confirming = {}
              /\ run' = [run EXCEPT ![h].step = "verdict", ![h].goal = "PROBABLE"]
    /\ UNCHANGED <<offer, verification, lifecycle, alerting>>

WriteVerdict(h) ==
    /\ At(h, "verdict")
    /\ verdict' = run[h].goal
    /\ Go(h, "supports")
    /\ UNCHANGED <<offer, supports, fare, lifecycle, alerting>>

WriteSupports(h) ==
    /\ At(h, "supports")
    /\ supports' = run[h].sup
    /\ Go(h, "candidate")
    /\ UNCHANGED <<offer, verdict, fare, lifecycle, alerting>>

\* projectDirectVerifiedCandidate or markDirectCandidateFareStale: one batch
\* each. A candidate that is not CONFIRMED has no passing fare.
WriteCandidate(h) ==
    /\ At(h, "candidate")
    /\ fare' = run[h].best
    /\ IF h \in Job THEN run' = [run EXCEPT ![h] = Idle]
       ELSE Go(h, IF run[h].goal = "CONFIRMED" THEN "rotate" ELSE "look")
    /\ UNCHANGED <<offer, verdict, supports, lifecycle, alerting>>
-----------------------------------------------------------------------------
(* expireLiveProviderOffers.                                               *)

\* Fault: unfinished events are not picked up again.
ResumesNothing == {}
Resumable == {o \in Offer : Unfinished(o)}

\* finishLifecycleEvent works on the event as read here.
Finish(p, o) ==
    LET e == event[o]
    IN  run' = [run EXCEPT ![p] =
                   [Idle EXCEPT !.for = o, !.visible = e.visible, !.correction = e.correction,
                                !.reprice = e.reprice,
                                !.step = CASE e.reprice = "PENDING" -> "reprice"
                                           [] e.correction = "PENDING" -> "correct"
                                           [] OTHER -> "idle"]]

\* An event an earlier pass left behind goes first.
PassStart(p) ==
    /\ At(p, "idle")
    /\ ResultsApart
    /\ \/ \E o \in Resumable : Finish(p, o)
       \/ Resumable = {} /\ Go(p, "due")
    /\ UNCHANGED <<offer, verification, lifecycle, alerting>>

\* Then a result with an expired support that has no event yet ...
FindDue(p) ==
    /\ At(p, "due")
    /\ Go(p, IF Due = {} THEN "idle" ELSE "choose")
    /\ UNCHANGED <<offer, verification, lifecycle, alerting>>

\* ... whose supports are read anew: the first expired one, with an event or
\* without, is the one the event will be about.
ChooseExpired(p) ==
    /\ At(p, "choose")
    /\ LET expired == {o \in supports : offer[o] = "expired"}
       IN  \/ \E o \in expired : run' = [run EXCEPT ![p].step = "read", ![p].for = o]
           \/ expired = {} /\ Go(p, "idle")
    /\ UNCHANGED <<offer, verification, lifecycle, alerting>>

\* INSERT OR IGNORE
Recorded(o, e) == [event EXCEPT ![o] = IF Exists(o) THEN @ ELSE e]

\* Redundant fresh evidence sustains the confirmation.
RecordRotation(p) ==
    /\ At(p, "rotate")
    /\ event' = Recorded(run[p].for, [visible |-> "no", correction |-> "NOT_REQUIRED",
                                      reprice |-> "NOT_REQUIRED"])
    /\ run' = [run EXCEPT ![p] = Idle]
    /\ UNCHANGED <<offer, verification, repricing, alerting>>

\* Fault: an alert that is being sent does not count as visible.
OnlyDelivered == {"DELIVERED"}
VisibleStates == {"DELIVERED", "SENDING"}

CountVisible(p) ==
    /\ At(p, "look")
    /\ run' = [run EXCEPT ![p].step = "apply",
                          ![p].visible = IF \E a \in Alert : alert[a] \in VisibleStates
                                         THEN "yes" ELSE "no"]
    /\ UNCHANGED <<offer, verification, lifecycle, alerting>>

\* Fault: intents that are not projected yet are left for the projection.
Withdrawn(s) ==
    IF s \in {"PENDING", "SHADOW_HELD"} THEN "CANCELLED" ELSE s

Suppressed(s) ==
    CASE s = "queued" -> "suppressed"
      [] s \in {"PENDING", "SHADOW_HELD"} -> "CANCELLED"
      [] OTHER -> s

\* The batch: event, downgrade and the suppression of unsent alerts at once.
ApplyExpiry(p) ==
    /\ At(p, "apply")
    /\ "project" \in Straddles \/ projecting = {}
    /\ "evaluate" \in Straddles \/ evaluating = "no"
    /\ event' = Recorded(run[p].for, [visible |-> run[p].visible,
                                      correction |-> "PENDING", reprice |-> "PENDING"])
    /\ verdict' = "PROBABLE" /\ supports' = {} /\ fare' = None
    /\ alert' = [a \in Alert |-> Suppressed(alert[a])]
    /\ held' = {a \in Alert : alert[a] = "SENDING"}
    /\ Go(p, "event")
    /\ UNCHANGED <<offer, repricing, projecting, evaluating, kills>>

ReadEvent(p) ==
    /\ At(p, "event")
    /\ Finish(p, run[p].for)
    /\ UNCHANGED <<offer, verification, lifecycle, alerting>>

\* At most two plans, or none any more (REPRICE_PLAN_MISSING).
ReadPlans(p) ==
    /\ At(p, "reprice")
    /\ \/ /\ Plan # {}
          /\ run' = [run EXCEPT ![p].step = "plan", ![p].todo = Plan]
       \/ run' = [run EXCEPT ![p].step = "record", ![p].reprice = "FAILED"]
    /\ UNCHANGED <<offer, verification, lifecycle, alerting>>

\* What jobs and errors amount to so far.
Joined(r) == IF r \in {"PENDING", "ENQUEUED"} THEN "ENQUEUED" ELSE "PARTIAL"
Refused(r) == IF r \in {"PENDING", "FAILED"} THEN "FAILED" ELSE "PARTIAL"

\* The loop goes on, an error caught or not, without the plan q.
NextPlan(p, q, reprice) ==
    run' = [run EXCEPT ![p].todo = @ \ {q}, ![p].plan = None, ![p].reprice = reprice,
                       ![p].step = IF run[p].todo \ {q} = {} THEN "record" ELSE "plan"]

JobFor(p, q) == <<run[p].for, q>>

\* Fault: a job that is there has its consumer.
LookAtJobOnly(p) ==
    /\ At(p, "plan")
    /\ \E q \in run[p].todo :
          \/ NextPlan(p, q, Refused(run[p].reprice))
          \/ JobFor(p, q) \in jobs /\ NextPlan(p, q, Joined(run[p].reprice))
          \/ /\ JobFor(p, q) \notin jobs
             /\ run' = [run EXCEPT ![p].step = "insert", ![p].plan = q]
    /\ UNCHANGED <<offer, verification, lifecycle, alerting>>

\* enqueueProviderSearch: the access checks, and the look for the job whose id
\* derives from the plan's query and from the event, its refresh key.
LookForJob(p) ==
    /\ At(p, "plan")
    /\ \E q \in run[p].todo :
          \/ NextPlan(p, q, Refused(run[p].reprice))
          \/ run' = [run EXCEPT ![p].plan = q,
                                ![p].step = IF JobFor(p, q) \in jobs THEN "join" ELSE "insert"]
    /\ UNCHANGED <<offer, verification, lifecycle, alerting>>

\* The reservation of a search (ProviderSearch has its statements), which may be
\* refused, and INSERT OR IGNORE.
InsertJob(p) ==
    /\ At(p, "insert")
    /\ \/ /\ jobs' = jobs \cup {JobFor(p, run[p].plan)}
          /\ Go(p, "join")
       \/ /\ jobs' = jobs
          /\ NextPlan(p, run[p].plan, Refused(run[p].reprice))
    /\ UNCHANGED <<offer, verification, event, consumers, reported, lost, alerting>>

\* INSERT OR IGNORE INTO provider_job_consumers, or its error.
JoinJob(p) ==
    /\ At(p, "join")
    /\ \/ /\ consumers' = consumers \cup {JobFor(p, run[p].plan)}
          /\ NextPlan(p, run[p].plan, Joined(run[p].reprice))
       \/ /\ consumers' = consumers
          /\ NextPlan(p, run[p].plan, Refused(run[p].reprice))
    /\ UNCHANGED <<offer, verification, event, jobs, reported, lost, alerting>>

\* Fault: goes on with the state instead of the step.
AfterRepriceState(p) == run[p].correction
AfterReprice(p) == IF run[p].correction = "PENDING" THEN "correct" ELSE "idle"

RecordReprice(p) ==
    /\ At(p, "record")
    /\ event' = [event EXCEPT ![run[p].for].reprice = run[p].reprice]
    /\ Go(p, IF run[p].reprice = "ENQUEUED" THEN AfterReprice(p) ELSE "report")
    /\ UNCHANGED <<offer, verification, repricing, alerting>>

ReportReprice(p) ==
    /\ At(p, "report")
    /\ reported' = reported \cup {run[p].for}
    /\ Go(p, AfterReprice(p))
    /\ UNCHANGED <<offer, verification, event, jobs, consumers, lost, alerting>>

\* The DEAL-UPDATE intent of the event, unless nobody saw a deal.
EnqueueCorrection(p) ==
    /\ At(p, "correct")
    /\ alert' = [alert EXCEPT ![run[p].for] =
                    IF run[p].visible = "yes" /\ @ = "absent" THEN "queued" ELSE @]
    /\ Go(p, "close")
    /\ UNCHANGED <<offer, verification, lifecycle, sending, kills>>

CloseCorrection(p) ==
    /\ At(p, "close")
    /\ event' = [event EXCEPT ![run[p].for].correction =
                    IF run[p].visible = "yes" THEN "ENQUEUED" ELSE "NOT_REQUIRED"]
    /\ run' = [run EXCEPT ![p] = Idle]
    /\ UNCHANGED <<offer, verification, repricing, alerting>>

Kill(h) ==
    /\ run[h].step \in KillAt /\ kills < MaxKills
    /\ run' = [run EXCEPT ![h] = Idle]
    /\ kills' = kills + 1
    /\ lost' = IF At(h, "report") THEN lost \cup {run[h].for} ELSE lost
    /\ UNCHANGED <<offer, verification, event, jobs, consumers, reported, alert, sending>>
-----------------------------------------------------------------------------
(* Alerts: /candidate/evaluate, the projection and the delivery.           *)

\* evaluateActionableFromDb: CONFIRMED, with a fare facet that has not expired
\* (the other facets may or may not pass).
EvaluateRead ==
    /\ evaluating = "no"
    /\ fare # None /\ offer[fare] = "fresh"
    /\ evaluating' = "yes"
    /\ UNCHANGED <<offer, verification, lifecycle, run, alert, projecting, held, kills>>

EvaluateEnqueue(d) ==
    /\ evaluating = "yes"
    /\ alert' = [alert EXCEPT ![d] = IF @ = "absent" THEN "queued" ELSE @]
    /\ evaluating' = "no"
    /\ UNCHANGED <<offer, verification, lifecycle, run, projecting, held, kills>>

ProjectSelect ==
    /\ projecting = {}
    /\ \E a \in Alert : alert[a] = "queued"
    /\ projecting' = {a \in Alert : alert[a] = "queued"}
    /\ UNCHANGED <<offer, verification, lifecycle, run, alert, evaluating, held, kills>>

\* The INSERT and the mark. An intent whose projected_at an expiry has set in
\* the meantime gets its row all the same.
ProjectInsert ==
    /\ projecting # {}
    /\ \E state \in {"PENDING", "SHADOW_HELD"} :
          alert' = [a \in Alert |-> IF a \in projecting /\ alert[a] \in {"queued", "suppressed"}
                                    THEN state ELSE alert[a]]
    /\ projecting' = {}
    /\ UNCHANGED <<offer, verification, lifecycle, run, evaluating, held, kills>>

Lease(a) ==
    /\ alert[a] = "PENDING"
    /\ "lease" \in Straddles \/ \A p \in Pass : ~At(p, "apply")
    /\ alert' = [alert EXCEPT ![a] = "SENDING"]
    /\ UNCHANGED <<offer, verification, lifecycle, run, sending, kills>>

\* An acknowledgement, or the reclaim of a lapsed lease.
Settle(a) ==
    /\ alert[a] = "SENDING"
    /\ \E s \in {"PENDING", "DELIVERED", "DEAD"} : alert' = [alert EXCEPT ![a] = s]
    /\ UNCHANGED <<offer, verification, lifecycle, run, sending, kills>>

Reprice(p) ==
    \/ ReadPlans(p) \/ LookForJob(p) \/ InsertJob(p) \/ JoinJob(p) \/ RecordReprice(p)
    \/ ReportReprice(p)

PassStep(p) ==
    \/ PassStart(p) \/ FindDue(p) \/ ChooseExpired(p) \/ RecordRotation(p)
    \/ CountVisible(p) \/ ApplyExpiry(p) \/ ReadEvent(p) \/ Reprice(p)
    \/ EnqueueCorrection(p) \/ CloseCorrection(p)

Recompute(h) == Read(h) \/ WriteVerdict(h) \/ WriteSupports(h) \/ WriteCandidate(h)

Next ==
    \/ \E o \in Offer : Expire(o)
    \/ \E j \in Job, S \in SUBSET Offer : Complete(j, S)
    \/ \E h \in Handler : Recompute(h) \/ Kill(h)
    \/ \E p \in Pass : PassStep(p)
    \/ EvaluateRead \/ \E d \in Deal : EvaluateEnqueue(d)
    \/ ProjectSelect \/ ProjectInsert
    \/ \E a \in Alert : Lease(a) \/ Settle(a)

\* The cron starts a pass every five minutes, and an invocation that is not
\* killed runs to its end, the projection's and the evaluation's included. No
\* code makes a pass wait for a job: where Straddles keeps them apart, the job
\* must not starve the pass, hence the strong fairness.
Fairness ==
    /\ \A p \in Pass : SF_vars(PassStep(p) \/ Recompute(p))
    /\ \A j \in Job : WF_vars(Recompute(j))
    /\ WF_vars(ProjectInsert)
    /\ WF_vars(\E d \in Deal : EvaluateEnqueue(d))

Spec == Init /\ [][Next]_vars /\ Fairness
-----------------------------------------------------------------------------
(* Properties.                                                             *)

TypeOK ==
    /\ offer \in [Offer -> {"unseen", "fresh", "expired"}]
    /\ verdict \in {"none", "PROBABLE", "CONFIRMED"}
    /\ supports \subseteq Offer /\ fare \in Offer \cup {None}
    /\ event \in [Offer -> [visible : {"yes", "no"},
                            correction : EventState \cup {"none"},
                            reprice : EventState \cup {"none"}]]
    /\ jobs \subseteq Offer \X Plan /\ consumers \subseteq Offer \X Plan
    /\ reported \subseteq Offer /\ lost \subseteq Offer /\ held \subseteq Alert
    /\ alert \in [Alert -> {"absent", "queued", "suppressed", "PENDING", "SHADOW_HELD",
                            "SENDING", "DELIVERED", "DEAD", "CANCELLED"}]
    /\ run \in [Handler ->
                  [step : Step, for : Offer \cup {None}, goal : {"PROBABLE", "CONFIRMED"},
                   sup : SUBSET Offer, best : Offer \cup {None}, visible : {"yes", "no"},
                   correction : EventState \cup {"none"}, reprice : EventState \cup {"none"},
                   todo : SUBSET Plan, plan : Plan \cup {None}]]
    /\ projecting \subseteq Alert /\ evaluating \in {"yes", "no"} /\ kills \in 0 .. MaxKills

\* Nothing is under way, and the next pass would find nothing to do.
Settled ==
    /\ \A h \in Handler : At(h, "idle")
    /\ Resumable = {} /\ Due = {} /\ projecting = {} /\ evaluating = "no"

\* Once an expiry is over and the fare is no longer confirmed, no deal waits for
\* its projection, and the only ones that may still be sent are those a notifier
\* held when the batch came: a notifier that fails returns its row to PENDING
\* (src/outbox.ts:21 and :33), where no batch looks again ...
UnsentDealIsSuppressed ==
    Settled /\ verdict = "PROBABLE" =>
        \A d \in Deal : /\ alert[d] \notin {"queued", "SHADOW_HELD"}
                       /\ alert[d] \in {"PENDING", "SENDING"} => d \in held

\* ... and a deal that went out, or is being sent and may still go out, has a
\* DEAL-UPDATE that was not withdrawn. With one deal id, any DEAL-UPDATE is
\* about that deal.
VisibleDealIsCorrected ==
    Settled /\ verdict = "PROBABLE" =>
        \A d \in Deal : alert[d] \in {"PENDING", "SENDING", "DELIVERED"} =>
            \E o \in Offer : alert[o] \notin {"absent", "suppressed", "CANCELLED"}

\* A CONFIRMED verdict has supports that the expiry pass can watch: otherwise
\* it would outlive its offers silently.
ConfirmedIsWatched ==
    Settled /\ verdict = "CONFIRMED" =>
        supports # {} /\ \A o \in supports : offer[o] = "expired" => ~Exists(o)

\* However many passes work on one event at a time, and wherever one of them is
\* killed and another resumes: a reprice recorded as ENQUEUED has for each of its
\* plans a job and the consumer that job will tell, a PARTIAL one for some plan;
\* and a reprice that fell short has raised its ADMIN alert, unless a pass was
\* killed at that very statement.
RepriceIsJoined ==
    \A o \in Offer :
        /\ event[o].reprice = "ENQUEUED" => \A q \in Plan : <<o, q>> \in jobs \cap consumers
        /\ event[o].reprice = "PARTIAL" => \E q \in Plan : <<o, q>> \in jobs \cap consumers
        /\ Settled /\ event[o].reprice \in {"PARTIAL", "FAILED"} => o \in reported \cup lost

\* Every confirmation whose support expired is rotated or withdrawn, and every
\* event this makes is worked off, over a kill anywhere but between a verdict and
\* its batch.
ExpiriesAreWorkedOff ==
    \A o \in Offer :
        /\ o \in Due ~> o \notin Due
        /\ Exists(o) ~> Exists(o) /\ ~Unfinished(o)
=============================================================================
