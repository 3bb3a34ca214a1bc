-------------------------- MODULE NotificationOutbox --------------------------
(***************************************************************************)
(* The alert outbox: src/outbox.ts driven by the cron of src/worker.ts and *)
(* by the notifier processes of notification_worker/notifier.py.           *)
(*                                                                         *)
(* Every awaited D1 statement is one action, so that cron invocations,     *)
(* lease requests and acknowledgements interleave between statements, and  *)
(* an invocation can be killed between any two of them. A notifier is      *)
(* sequential, but one that times out or crashes leaves its last request   *)
(* running in the Worker while its successor starts under the same name.   *)
(*                                                                         *)
(* Time: leases and backoffs are countdowns that Advance decrements, which *)
(* keeps the state finite without a horizon.                               *)
(***************************************************************************)
EXTENDS Naturals, FiniteSets

CONSTANTS
    Deal,            \* deals an alert may be raised for
    Worker,          \* notifier names (FARE_NOTIFIER_ID), kept over a restart
    Cron,            \* cron invocations that may overlap
    Mode,            \* deployment modes that may be deployed over time
    None,            \* the SQL NULL
    ProjectLimit,    \* intents one cron invocation projects (10)
    LeaseLimit,      \* rows one lease request claims (10)
    LeaseTime,       \* ticks a lease runs (60 s)
    MaxAttempts,     \* failed attempts after which a retryable row dies (5)
    RetryDelay,      \* RetryDelay[a]: ticks min(3600, 30 * 2^(a-1)) s amount to
    Configured,      \* alert classes the notifiers have a webhook for
    MaxAcks,         \* acknowledgements under way at once (a bound of the model)
    Killable         \* which invocations the platform may kill: "cron", "ack"

ASSUME OutboxAssumption ==
    /\ Mode \subseteq {"PRODUCTION", "SHADOW_ACCEPTANCE"}
    /\ None \notin Worker /\ None \notin Mode /\ None \notin Nat
    /\ ProjectLimit \in Nat \ {0} /\ LeaseLimit \in Nat \ {0}
    /\ LeaseTime \in Nat \ {0} /\ MaxAttempts \in Nat \ {0}
    /\ RetryDelay \in [1 .. MaxAttempts -> Nat]
    /\ Configured \subseteq {"DEAL", "ADMIN"}
    /\ Killable \subseteq {"cron", "ack"}

\* An alert is a deal's own alert, or the ADMIN alert "admin-delivery-<id>"
\* that the death of the deal's notification raises.
Id == Deal \X {"DEAL", "ADMIN"}
DealAlert(d) == <<d, "DEAL">>
AdminAlert(d) == <<d, "ADMIN">>

VARIABLES
    intent,          \* candidate_alert_intents: absent, queued or projected
    row,             \* notification_outbox
    cron,            \* cron invocations inside projectAlertIntents
    asking,          \* lease requests: age of the request, or None
    batch,           \* the leased jobs a notifier still has to work off
    acks,            \* acknowledgements inside ackNotification
    taken,           \* <<alert, notifier>>: the webhook took this post
    refused,         \* alerts a post of which was refused for good
    mishaps          \* "over": from here on nothing is killed, lost or slow

vars == <<intent, row, cron, asking, batch, acks, taken, refused, mishaps>>
cronVars == <<intent, cron>>
webhookVars == <<taken, refused>>
workerVars == <<asking, batch, acks, taken, refused>>

RowState == {"absent", "PENDING", "SHADOW_HELD", "SENDING", "DELIVERED", "DEAD"}
Verdict == {"ok", "retryable", "terminal"}
Row == [state : RowState, by : Worker \cup {None}, until : 0 .. LeaseTime,
        next : Nat, attempts : 0 .. MaxAttempts]
Ack == [id : Id, by : Worker, verdict : Verdict, attempts : 0 .. MaxAttempts,
        step : {"write", "escalate"}, to : Worker \cup {None}]

NoRow == [state |-> "absent", by |-> None, until |-> 0, next |-> 0, attempts |-> 0]
Idle == [step |-> "idle", mode |-> None, rows |-> {}]

Init ==
    /\ intent = [i \in Id |-> "absent"]
    /\ row = [i \in Id |-> NoRow]
    /\ cron = [c \in Cron |-> Idle]
    /\ asking = [w \in Worker |-> None]
    /\ batch = [w \in Worker |-> {}]
    /\ acks = {}
    /\ taken = {}
    /\ refused = {}
    /\ mishaps = "possible"

\* A LIMIT clause: as many of S as the limit allows.
Limited(S, limit) ==
    {T \in SUBSET S : \/ T = S /\ Cardinality(S) <= limit
                      \/ Cardinality(T) = limit}
-----------------------------------------------------------------------------
(* Raising alerts and projecting them into the outbox.                     *)

\* The INSERT of enqueueAlertIntent: a second intent of one id does nothing.
Enqueued(i) == [intent EXCEPT ![i] = IF @ = "absent" THEN "queued" ELSE @]

\* A handler raises a deal's alert (again).
EnqueueAlertIntent(d) ==
    /\ intent[DealAlert(d)] = "absent"
    /\ intent' = Enqueued(DealAlert(d))
    /\ UNCHANGED <<row, cron, mishaps, workerVars>>

QueuedIntents == {i \in Id : intent[i] = "queued"}

\* Fault: the intents are marked projected when read, before the INSERT.
ProjectMarksFirst(c) ==
    /\ cron[c] = Idle
    /\ QueuedIntents # {}
    /\ \E m \in Mode, S \in Limited(QueuedIntents, ProjectLimit) :
          /\ cron' = [cron EXCEPT ![c] = [step |-> "insert", mode |-> m, rows |-> S]]
          /\ intent' = [i \in Id |-> IF i \in S THEN "projected" ELSE intent[i]]
    /\ UNCHANGED <<row, mishaps, workerVars>>

\* The invocation runs to its end in the mode m it was deployed with; a
\* release may change the mode between any two invocations.
ProjectSelect(c) ==
    /\ cron[c] = Idle
    /\ QueuedIntents # {}
    /\ \E m \in Mode, S \in Limited(QueuedIntents, ProjectLimit) :
          cron' = [cron EXCEPT ![c] = [step |-> "insert", mode |-> m, rows |-> S]]
    /\ UNCHANGED <<intent, row, mishaps, workerVars>>

\* ADMIN alerts pass in every mode; a deal is held unless in production.
InitialState(i, m) ==
    IF i[2] = "ADMIN" \/ m = "PRODUCTION" THEN "PENDING" ELSE "SHADOW_HELD"

\* Fault: a row that exists already is inserted afresh.
ProjectUpserts(c) ==
    /\ cron[c].step = "insert"
    /\ row' = [i \in Id |->
                 IF i \in cron[c].rows
                 THEN [NoRow EXCEPT !.state = InitialState(i, cron[c].mode)]
                 ELSE row[i]]
    /\ cron' = [cron EXCEPT ![c] = [step |-> "mark", mode |-> None, rows |-> cron[c].rows]]
    /\ UNCHANGED <<intent, mishaps, workerVars>>

\* ON CONFLICT DO NOTHING
ProjectInsert(c) ==
    /\ cron[c].step = "insert"
    /\ row' = [i \in Id |->
                 IF i \in cron[c].rows /\ row[i].state = "absent"
                 THEN [NoRow EXCEPT !.state = InitialState(i, cron[c].mode)]
                 ELSE row[i]]
    /\ cron' = [cron EXCEPT ![c] = [step |-> "mark", mode |-> None, rows |-> cron[c].rows]]
    /\ UNCHANGED <<intent, mishaps, workerVars>>

ProjectMark(c) ==
    /\ cron[c].step = "mark"
    /\ intent' = [i \in Id |-> IF i \in cron[c].rows /\ intent[i] = "queued"
                               THEN "projected" ELSE intent[i]]
    /\ cron' = [cron EXCEPT ![c] = Idle]
    /\ UNCHANGED <<row, mishaps, workerVars>>

KillCron(c) ==
    /\ mishaps = "possible" /\ "cron" \in Killable
    /\ cron[c] # Idle
    /\ cron' = [cron EXCEPT ![c] = Idle]
    /\ UNCHANGED <<intent, row, mishaps, workerVars>>
-----------------------------------------------------------------------------
(* Leasing.                                                                *)

Due == {i \in Id : row[i].state = "PENDING" /\ row[i].next = 0}
\* Fault: a lapsed lease is never reclaimed.
NothingLapsed == {}
Lapsed == {i \in Id : row[i].state = "SENDING" /\ row[i].until = 0}

\* The first statement of leaseNotifications. A poll that would neither
\* reclaim nor claim anything changes nothing and is left out.
LeaseReclaim(w) ==
    /\ asking[w] = None /\ batch[w] = {}
    /\ Due \cup Lapsed # {}
    /\ asking' = [asking EXCEPT ![w] = 0]
    /\ row' = [i \in Id |-> IF i \in Lapsed
                            THEN [row[i] EXCEPT !.state = "PENDING", !.by = None]
                            ELSE row[i]]
    /\ UNCHANGED <<cronVars, batch, acks, webhookVars, mishaps>>

\* Fault: the lease counts from an hour ahead.
ClaimedTooLong(w, S) ==
    [i \in Id |-> IF i \in S THEN [row[i] EXCEPT !.state = "SENDING", !.by = w,
                                                 !.until = LeaseTime + 2] ELSE row[i]]

\* The claiming UPDATE ... RETURNING. lease_until counts from the start of the
\* request, so a request that was slow hands out a lease that already ran.
Claimed(w, S) ==
    [i \in Id |-> IF i \in S
                  THEN [row[i] EXCEPT !.state = "SENDING", !.by = w,
                                      !.until = LeaseTime - asking[w],
                                      !.attempts = IF @ < MaxAttempts THEN @ + 1 ELSE @]
                  ELSE row[i]]

LeaseClaim(w) ==
    /\ asking[w] # None
    /\ \E S \in Limited(Due, LeaseLimit) :
          /\ row' = Claimed(w, S)
          /\ \/ batch' = [batch EXCEPT ![w] = S]
             \/ mishaps = "possible" /\ S # {} /\ batch' = batch    \* the response is lost
    /\ asking' = [asking EXCEPT ![w] = None]
    /\ UNCHANGED <<cronVars, acks, webhookVars, mishaps>>
-----------------------------------------------------------------------------
(* The notifier, and the acknowledgement of one job.                       *)

\* The process ends and starts again with nothing in hand; what it asked the
\* Worker for goes on, with nobody waiting for the answer.
Restarted(w) == batch' = [batch EXCEPT ![w] = {}]

Abandoned(w) == {IF a.by = w THEN [a EXCEPT !.to = None] ELSE a : a \in acks}

CrashNotifier(w) ==
    /\ mishaps = "possible"
    /\ batch[w] # {}
    /\ Restarted(w)
    /\ acks' = Abandoned(w)
    /\ UNCHANGED <<cronVars, row, asking, webhookVars, mishaps>>

HoldsLease(w, r) == r.state = "SENDING" /\ r.by = w /\ r.until > 0

\* What the webhook makes of a post. A timeout or an unreadable answer counts
\* as retryable although the webhook may have taken the alert; a class without
\* a webhook is refused for good without a post.
Webhook(w, i, verdict) ==
    /\ i[2] \in Configured \/ verdict = "terminal"
    /\ \/ verdict # "terminal" /\ taken' = taken \cup {<<i, w>>} /\ refused' = refused
       \/ verdict = "terminal" /\ refused' = refused \cup {i} /\ taken' = taken
       \/ verdict = "retryable" /\ UNCHANGED webhookVars

\* A notifier posts one job of its batch and acknowledges it; with the request
\* arrives the SELECT of ackNotification and the checks on what it read. (What
\* others do between the post and the SELECT could as well precede the post,
\* which reads nothing of theirs.) A replay of a settled job is answered, a
\* lapsed or lost lease is refused with a 409, which ends the notifier; the
\* notifier may also end on its own before it acknowledges.
PostAndAck(w, i, verdict) ==
    /\ i \in batch[w] /\ \A a \in acks : a.to # w
    /\ Webhook(w, i, verdict)
    /\ LET r == row[i]
           replay == r.state \in {"DELIVERED", "DEAD"} /\ r.by = w
       IN  \/ /\ replay
              /\ batch' = [batch EXCEPT ![w] = @ \ {i}]
              /\ acks' = acks
           \/ /\ mishaps = "possible" \/ ~(replay \/ HoldsLease(w, r))
              /\ Restarted(w)
              /\ acks' = acks
           \/ /\ HoldsLease(w, r)
              /\ Cardinality(acks) < MaxAcks
              /\ acks' = acks \cup {[id |-> i, by |-> w, verdict |-> verdict,
                                     attempts |-> r.attempts, step |-> "write",
                                     to |-> w]}
              /\ batch' = batch
    /\ UNCHANGED <<cronVars, row, asking, mishaps>>

\* The acknowledgement a has finished: answer whoever still waits for it.
Finished(a) ==
    /\ acks' = acks \ {a}
    /\ IF a.to # None THEN batch' = [batch EXCEPT ![a.by] = @ \ {a.id}]
                    ELSE batch' = batch

\* Fault: the UPDATE does not name the claimant.
StillSendingToAnyone(a) == row[a.id].state = "SENDING"

\* WHERE notification_id=? AND state='SENDING' AND claimed_by=?
StillSending(a) == row[a.id].state = "SENDING" /\ row[a.id].by = a.by

Write(a, new) == row' = IF StillSending(a) THEN [row EXCEPT ![a.id] = new] ELSE row

Retries(a) == a.verdict = "retryable" /\ a.attempts < MaxAttempts

AckDelivered(a) ==
    /\ a.step = "write" /\ a.verdict = "ok"
    /\ Write(a, [row[a.id] EXCEPT !.state = "DELIVERED", !.until = 0])
    /\ Finished(a)
    /\ UNCHANGED <<cronVars, asking, webhookVars, mishaps>>

\* next_attempt_at counts from the start of the request: what is left of the
\* delay at the write is anything up to all of it.
AckRetry(a) ==
    /\ a.step = "write" /\ Retries(a)
    /\ \E left \in 0 .. RetryDelay[a.attempts] :
          Write(a, [row[a.id] EXCEPT !.state = "PENDING", !.by = None,
                                     !.until = 0, !.next = left])
    /\ Finished(a)
    /\ UNCHANGED <<cronVars, asking, webhookVars, mishaps>>

\* Fault: the death of a deal's alert goes unreported.
AckDeadSilently(a) ==
    /\ a.step = "write" /\ a.verdict # "ok" /\ ~Retries(a)
    /\ Write(a, [row[a.id] EXCEPT !.state = "DEAD", !.until = 0])
    /\ Finished(a)
    /\ UNCHANGED <<cronVars, asking, webhookVars, mishaps>>

\* The row dies; only the death of a deal's alert raises an ADMIN alert. What
\* follows does not depend on whether the guarded UPDATE found its row.
AckDead(a) ==
    /\ a.step = "write" /\ a.verdict # "ok" /\ ~Retries(a)
    /\ Write(a, [row[a.id] EXCEPT !.state = "DEAD", !.until = 0])
    /\ IF a.id[2] = "DEAL"
       THEN /\ acks' = (acks \ {a}) \cup {[a EXCEPT !.step = "escalate"]}
            /\ batch' = batch
       ELSE Finished(a)
    /\ UNCHANGED <<cronVars, asking, webhookVars, mishaps>>

AckEscalate(a) ==
    /\ a.step = "escalate"
    /\ intent' = Enqueued(AdminAlert(a.id[1]))
    /\ Finished(a)
    /\ UNCHANGED <<row, cron, asking, webhookVars, mishaps>>

\* The platform kills the request; its notifier sees a failure and restarts.
KillAck(a) ==
    /\ mishaps = "possible" /\ "ack" \in Killable
    /\ acks' = acks \ {a}
    /\ IF a.to # None THEN Restarted(a.by) ELSE batch' = batch
    /\ UNCHANGED <<cronVars, row, asking, webhookVars, mishaps>>
-----------------------------------------------------------------------------
(* Time and the environment.                                               *)

Quiet ==
    /\ acks = {}
    /\ \A c \in Cron : cron[c] = Idle
    /\ \A w \in Worker : asking[w] = None /\ batch[w] = {}

Down(n) == IF n > 0 THEN n - 1 ELSE 0

\* A tick passes; once mishaps are over, only when no request or job is under way.
Advance ==
    /\ mishaps = "possible" \/ Quiet
    /\ row' = [i \in Id |-> [row[i] EXCEPT !.until = Down(@), !.next = Down(@)]]
    /\ asking' = [w \in Worker |-> IF asking[w] = None \/ asking[w] = LeaseTime
                                   THEN asking[w] ELSE asking[w] + 1]
    /\ UNCHANGED <<cronVars, batch, acks, webhookVars, mishaps>>

CalmDown ==
    /\ mishaps = "possible"
    /\ mishaps' = "over"
    /\ UNCHANGED <<intent, row, cron, workerVars>>

AckStep(a) == AckDelivered(a) \/ AckRetry(a) \/ AckDead(a) \/ AckEscalate(a)

Next ==
    \/ \E d \in Deal : EnqueueAlertIntent(d)
    \/ \E c \in Cron : \/ ProjectSelect(c) \/ ProjectInsert(c)
                       \/ ProjectMark(c) \/ KillCron(c)
    \/ \E w \in Worker : LeaseReclaim(w) \/ LeaseClaim(w) \/ CrashNotifier(w)
    \/ \E w \in Worker, i \in Id, v \in Verdict : PostAndAck(w, i, v)
    \/ \E a \in acks : AckStep(a) \/ KillAck(a)
    \/ Advance

Spec == Init /\ [][Next]_vars

\* The cron comes back every minute, notifiers poll every 15 seconds, a request
\* that is not killed runs to its end, time passes, and mishaps stop.
Fairness ==
    /\ \A c \in Cron : /\ WF_vars(ProjectSelect(c)) /\ WF_vars(ProjectInsert(c))
                       /\ WF_vars(ProjectMark(c))
    /\ \A w \in Worker : /\ WF_vars(LeaseReclaim(w)) /\ WF_vars(LeaseClaim(w))
                         /\ WF_vars(\E i \in Id, v \in Verdict : PostAndAck(w, i, v))
    /\ WF_vars(\E a \in acks : AckStep(a))
    /\ WF_vars(Advance)
    /\ WF_vars(CalmDown)

FairSpec == Init /\ [][Next \/ CalmDown]_vars /\ Fairness
-----------------------------------------------------------------------------
(* Properties.                                                             *)

TypeOK ==
    /\ intent \in [Id -> {"absent", "queued", "projected"}]
    /\ row \in [Id -> Row]
    /\ cron \in [Cron -> [step : {"idle", "insert", "mark"},
                          mode : Mode \cup {None}, rows : SUBSET Id]]
    /\ asking \in [Worker -> (0 .. LeaseTime) \cup {None}]
    /\ batch \in [Worker -> SUBSET Id]
    /\ acks \subseteq Ack
    /\ taken \subseteq Id \X Worker
    /\ refused \subseteq Id
    /\ mishaps \in {"possible", "over"}

\* An intent that no projection will look at again has its outbox row, however
\* the invocations of projectAlertIntents overlap or die between statements.
NoAlertLost == \A i \in Id : intent[i] = "projected" => row[i].state # "absent"

\* A delivered row names a notifier whose own post the webhook took: a slow
\* acknowledgement never delivers on behalf of the row's next lessee.
DeliveredByItsClaimant ==
    \A i \in Id : row[i].state = "DELIVERED" => <<i, row[i].by>> \in taken

\* A dead deal has raised its ADMIN alert, or the acknowledgement that killed
\* it is about to: outbox.ts sends DEAD and the intent in two statements.
DeadDealIsEscalated ==
    \A d \in Deal : row[DealAlert(d)].state = "DEAD" =>
        \/ intent[AdminAlert(d)] # "absent"
        \/ \E a \in acks : a.step = "escalate" /\ a.id = DealAlert(d)

\* What the outbox looks like to those who raise alerts.
PromiseOf(i) ==
    CASE row[i].state = "absent" -> IF intent[i] = "absent" THEN "none" ELSE "owed"
      [] row[i].state \in {"PENDING", "SENDING"} -> "owed"
      [] row[i].state = "SHADOW_HELD" -> "held"
      [] row[i].state = "DELIVERED" -> "delivered"
      [] row[i].state = "DEAD" -> "dead"

Contract ==
    INSTANCE AlertContract WITH
        promise <- [i \in Id |-> PromiseOf(i)],
        taken <- {i \in Id : \E w \in Worker : <<i, w>> \in taken},
        hopeless <- {i \in Id : row[i].attempts = MaxAttempts} \cup refused

\* Every step of the outbox is a step the alert contract allows, or none.
KeepsContract == Contract!Spec

\* Once mishaps stop, every deal raised is delivered, dead or held for good.
EveryDealSettles ==
    \A d \in Deal : intent[DealAlert(d)] # "absent" ~>
        row[DealAlert(d)].state \in {"DELIVERED", "DEAD", "SHADOW_HELD"}
=============================================================================
