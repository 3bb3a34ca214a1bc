# FareRadar: TLA+ models, model checks and proofs

FareRadar watches sources for cheap fares, verifies candidates against live offers of
metered providers, and alerts its users. It is one Cloudflare Worker (`src/src/`, TypeScript)
over one D1 (SQLite) database, a few pollers outside it (`external_worker/`,
`provider_worker/`, `notification_worker/`, Python) and deployment scripts (`scripts/`). There
is no queue service and no transaction across requests: everything hard about the system is
in rows that several invocations read, decide on and write back, statement by statement.

Paths below are relative to the repository (`src/` stands for its directory `src/`).

## 1. Inventory

### 1.1 How the parts interact

```
sources --> external worker --/ingest--> source_observations, domain_outbox
                                              | cron (every minute)
                                              v
                              candidate_priority_queue  <-- agency offers, e-mail
                                 | cron (every 5 min)            ^ recheck workers
                                 v                               |
  provider_search_plans --dispatch, budget--> verification_jobs  | agency expiry (5 min)
          ^                                      | lease / complete
          | reprice                              v
  live offer expiry (5 min) <-- verification <-- provider worker --> provider (Duffel)
          |                        |
          v                        v
  candidate_alert_intents <-- /candidate/evaluate
          | cron (every minute)
          v
  notification_outbox --lease / ack--> notifier --> webhooks
```

Every arrow through a table is shared state. A D1 `batch` is atomic, and so is one statement;
two awaited statements are not, and a Worker invocation may be killed between them. Cron
invocations can overlap, with each other and with HTTP handlers. All pollers work under
leases with a time limit, and every HTTP answer can be lost.

### 1.2 Components

| component | state | operations | what is hard | what makes it correct |
|---|---|---|---|---|
| alert outbox, notifier (`src/outbox.ts`, `notification_worker/`) | intents, `notification_outbox` | enqueue, project, lease, ack (ok, retry, dead, escalate) | overlap, kills, lost answers, slow acks, restarts under one name | no alert lost; delivered only if the webhook took it; dead deals escalated; held alerts not sent; every alert settles |
| live offer expiry (`src/offer_lifecycle.ts`) | lifecycle events, verdict, supports | the five-minute pass, resumption | races with jobs, evaluation, projection and leasing; kills between statements | stale deals suppressed or corrected; a reprice on record has its jobs and consumers; events finish |
| provider results (`src/provider_results.ts`, `verification.ts`, `direct_candidate.ts`) | results, supports, links, candidate facets | recompute, project | verdict and supports are separate writes; two recomputes | a confirmation has fresh supports |
| provider search (`src/search_planner.ts`, `provider_jobs.ts`, `provider_pricing.ts`, `scheduler.ts`, `provider_worker/`) | plans, consumers, usage window, jobs | dispatch, reserve, lease, ingest, complete, project | budget races, late consumers, lapsed leases, retries | budget held; dispatched is joined; done is final; every job ends; returned offers verified |
| planning (`src/search_planner.ts`) | campaigns, plans | validate, plan one pair | several planners of one pair; a kill between two plans; a pair that cannot be planned in front of others | exactly the plans the campaign allows; every pair has its turn |
| cron (`src/worker.ts:293-303`) | none | ordered steps with early returns | starvation between steps | every step keeps its turn |
| domain outbox, projection (`src/outbox.ts:42-55`, `ingest.ts`, `partner_ingest.ts`) | `domain_outbox`, promotion events, routes | ingest, claim, project, ack | all crons claim as `cron` | every observation is projected, or dead and reported; a tick that ends in time harms no other |
| source scheduler (`src/scheduler.ts`, `source.ts`, `attribution.ts`, `external_worker/`) | fetch jobs, health windows | schedule, lease, complete | lost updates of counters, back-off | counters are right; a quarantined source is not fetched |
| candidate queue (`src/priority.ts`) | `candidate_priority_queue` | enqueue (a row that exists keeps its state), lease, ack | the UPDATE of an ack names the row only | what is settled stays settled; only the lessee settles |
| agency clearance (`src/agency_recheck.ts`, `agency_checkout.ts`, `agency_expiry.ts`, `agency_security.ts`) | offers, recheck evidence, checkout jobs | lease, complete, expire | five handlers write the offer and none looks again; kill after the evidence row | confirmed only on evidence; an ended offer keeps no work, is not revived, and its deals are withdrawn or corrected |
| four-leg cycle (`src/four_leg.ts`) | cycle | upsert, transition | concurrent transitions | the order of the legs; broken is final |
| provisional alerts, bursts (`src/provisional.ts`, `social_heat.ts`, `baseline.ts`) | heat | scans of one row, raise, announce, mark | starvation; kill between the three writes | marked only when announced; the newest is announced |
| checkout pricing (`src/checkout_pricing.ts`, `provider_runtime.ts`) | quotes, runtime readback | enqueue, ingest, evidence | stale readback | quotes only under a lease |
| intake, offers (`src/intake.ts`, `offers.ts`) | candidates, facets, tickets | validated batches | idempotency | one payload per intake id |
| pure evaluators (`src/core.ts`, `cost_runtime.ts`, `transfer_runtime.ts`, `baggage.ts`, `policy*.ts`, `readiness_runtime.ts`, `ticketing_guard.ts`, `strategy.ts`, `capacity.ts`) | none | functions | boundaries | agreement with a reference definition |
| authentication (`src/auth.ts`) | nonces, keys | authorize, clean up | nonce window | a nonce counts once |
| registries and reviews (`src/source_onboarding.ts`, `access_reviews.ts`, `profile.ts`, `scripts/access_review*.py`) | registries | reviewed batches | stale review | bound to reviewer and commit |
| shadow acceptance, audit (`src/shadow*.ts`, `audit.ts`, `scripts/shadow_review.py`) | evidence | append, read back | idempotent replay | evidence is immutable |
| deployment (`scripts/deploy_*.py`, `cloudflare_release.py`, `provision_shadow.py`, `production_preflight.py`, `*_provider.py`) | journal, versions | upload, activate, validate, roll back, resume | commands that fail and are applied, readbacks and snapshots refused or without an answer, crashes, evidence in several files | nothing is sent twice; a failed release ends on the previous version; production follows shadow of the same commit |
| alert content, routing, CLI, Duffel adapter, gates | none | formatting, I/O | nothing concurrent | unit tests suffice |

`PROJECT.json` lists the same parts with their status, and under `hazards` each place where
the code can go wrong in a way a test would hardly reach.

## 2. Plan

The order is by what the system is for: an alert that arrives, that is true, and that was
paid for.

1. **Done: `NotificationOutbox`** with the abstract `AlertContract`, its refinement and proofs.
2. **Done: `LiveOfferLifecycle`**: what makes an alert untrue, and what takes it back.
3. **Done: `ProviderSearch`**: how a candidate is verified within the budget; first proofs.
4. **Done: `AgencyClearance`**, with the candidate queue: recheck, checkout and expiry of one
   offer, its queue row, checkout job and alerts; proofs.
5. **Done: `DomainEvents`** with the abstract `EventContract`: claims under one name; proofs
   of the refinement and of what a tick that ends in time guarantees.
6. **Done: `SearchPlanning`**: what the rest of the five-minute cron does; proofs.
7. **Done: `Deployment`**: drivers against a provider whose answers mean little; proofs.
8. **Done: proofs of `LiveOfferLifecycle`**, each safety property under the weakest
   assumptions on overlaps and kills that TLC does not refute.
9. Open: the source scheduler (`scheduleDueSources`, `completeSourceFetch`, `adaptiveSchedule`),
   provisional alerts (`evaluateDueProvisionals`), the four-leg cycle, CHECKOUT_REPRICE quotes.
10. Open: pure algorithms (`verifyMultiProvider`, `fourLegTransitionAllowed`, the cost
    arithmetic) as operators, each against a reference definition.
11. **Done: proofs of `AgencyClearance`**, all of its safety properties.
12. Open: two drivers of `Deployment` at once; an abstract specification for `ProviderSearch`.

`ProviderSearch` and `LiveOfferLifecycle` meet in two operators: the refresh of the former is
the reprice of the latter. They are kept apart because their product is out of TLC's reach;
each abstracts the other by the outcomes the other can produce (see 3.2 and 3.3).

## 3. Modules

The rule of all (`Deployment` excepted, which has no database): an awaited D1 statement (or
batch) is an action; a handler is a sequence of actions linked by a step in a record of its own
(`cron`, `acks`, `run`, `completions`, `call`, `inv`, `pass`), so that everything interleaves
and a kill can strike between any two. What a handler has read is kept in that record. Time is
not a number: leases and delays are countdowns or simply may lapse. A `LIMIT` takes any subset
of that size (`Limited`); the `ORDER BY` is dropped, which allows more than the code does.

Definitions whose comment starts with "Fault:" are not part of the system: each is a mapped
definition with a plausible bug, used to see that the properties would notice.

### 3.1 `AlertContract` and `NotificationOutbox`

`AlertContract` is what those who raise an alert may rely on. `NotificationOutbox` has:

| variable | code |
|---|---|
| `intent` | a row of `candidate_alert_intents`; *queued* is `projected_at IS NULL` |
| `row` | `notification_outbox`: state, `claimed_by`, `lease_until` and `next_attempt_at` as countdowns, attempts |
| `cron` | `projectAlertIntents` between its SELECT, INSERT and UPDATE |
| `asking` | a lease request between reclaim and claim, with its age: its `nowIso` is old by then |
| `batch` | the jobs in `run_once` of a notifier |
| `acks` | `ackNotification` after its SELECT and checks; `to` is whoever still waits for it |
| `taken`, `refused` | history: what webhooks took or refused |
| `mishaps` | once "over", nothing is killed, lost or slow any more (liveness only) |

A notifier is sequential, but its last request may outlive it: a crash leaves the
acknowledgement running while the successor, under the same `FARE_NOTIFIER_ID`, leases again.
The Worker's `CANCELLED` state belongs to the expiries and is in `LiveOfferLifecycle`.
Attempts stop counting at `MaxAttempts`, where all larger values decide alike.

### 3.2 `LiveOfferLifecycle`

One candidate (one queue entry and query) with its live offers. `Read`, `WriteVerdict`,
`WriteSupports` and `WriteCandidate` are `recomputeCandidateVerification`, run by the pass
(`Pass`) and by a completed provider job (`Job`); `PassStart` to `CloseCorrection` are
`expireLiveProviderOffers` and `finishLifecycleEvent`. The outbox is abstracted to the states
that matter to an expiry. Prices are abstracted by `Confirming`: the sets of offers that
`verifyMultiProvider` accepts when fresh (one airline's own offer, or an independent pair).
`fare` is the candidate's passing FARE_VERIFIED facet. A candidate plan that cannot be
projected, and other facets, only make an evaluation fail, which the model allows anyway.

`ReadPlans` to `JoinJob` are the loop of the reprice over its plans (at most two in the code,
any set here), a statement at a time: the look for the job, whose id derives from the query and
the event (`JobFor`); the reservation and INSERT OR IGNORE; the consumer; each may fail, and the
errors and jobs so far amount to `Joined` or `Refused`. The reservation's own statements are in
`ProviderSearch`. So passes that overlap meet over the same jobs, and a kill leaves a job
without its consumer for the next pass to find. `lost` remembers the one kill that nothing in
the code makes up for, between the record of a reprice and its report; `held` the alerts that a
notifier held when a batch came. What a notifier does not get out returns to PENDING (`Settle`),
after the batch as well as before.

`Straddles` says which activities may overlap an expiry and `KillAt` where invocations may be
killed. Both are there because the documented promise does not survive all of them (see 6):
with `Straddles = {}` the model waits where the code does not, and the run says what is true of
an undisturbed pass. `RepriceIsJoined` needs no such waiting: section 5 proves it without.

### 3.3 `ProviderSearch`

A metered provider, its usage window, the asks (plans and refreshes), their jobs and the
provider workers. `SelectAsks` to `FailAsk` are a dispatch: the loop of
`dispatchProviderSearchPlans`, or the reprice of one lifecycle event for one plan, around
`enqueueProviderSearch` and `reserveProviderSearchBudget`. `Reclaim` and `Claim` are
`leaseProviderJobs`; `Search`, `IngestOffers`, `Complete` are the worker's loop with the
handlers' checks; `WriteOutcome`, `ProjectResults` and `ReportDeath` finish
`completeProviderJob`. The provider registry may refuse an ask at any time. The pricing
snapshot is fixed (`Threshold`, `Cap`), and there is one window. A search on behalf of a user
takes the path of a plan without a consumer and adds nothing to the races. Within
`completeProviderJob` the check and the write are separate actions; the second read of the
attempts is a choice between what the row had at the check and has at the write. The loop of
`projectProviderJobResults` over the consumers is one action, `ProjectResults`: the recompute in
it is in `LiveOfferLifecycle` statement by statement, and a kill in it leaves some consumers
untold, as one before it leaves all. `DispatchedIsJoined` says that an ask is recorded with a job
that exists, not that this job is still to complete: finding 2 is an ask whose job was done.

### 3.4 `AgencyClearance`

One offer, the row of `agency_inventory_offers`. `Ingest` is `ingestAgencyOffer`'s batch,
`ProjectRead` and `ProjectEnqueue` what `projectDomainEvents` does with its event. `row` holds
the two tasks a worker may lease: the queue row (*recheck*) and the checkout job (*checkout*).
`Begin` to `RaiseDeal` are `completeAgencyRecheck` and `completeAgencyCheckout`, which share
their shape: evidence, offer, settling of the row, then the job or the alert. A readback
comes to one of the conclusions that its checks allow (`Conclusion`). `BeginAck` is the
endpoint `/candidate-priority/ack`, which enters `ackCandidateSignal` by the side door, as
`ClaimSignal` does for the lease. `PassStart`, `ApplyExpiry`, `Correct` are `expireAgencyOffers`.

An alert is *unsent* while its intent waits or its row is PENDING, and *held* while a projection
has read the intent or a notifier has leased the row (`Hold`). The batch withdraws what is
unsent and passes over what is held, and `Release` sends it or returns it, at any time: a deal
held at the end of its offer may be posted after it, even several tries later. `spared` remembers
which deals the last batch passed over; they are all that `EndedIsOver` allows, and
`EndIsCorrected` asks that a deal which may still go out is corrected like one that has.

The offer's UPDATEs name the offer and nothing else, so many overlaps do harm. `disturbed`
records which have happened, and each property names those it does not survive:

| in `disturbed` | what has happened |
|---|---|
| `completion`, `projection` | the pass ended the offer while a completion, or the projection of its event, was under way |
| `lapse` | the lease of a row lapsed under a completion that had been checked |
| `twins` | two completions of one task at once |
| `direct` | a row was acknowledged by the endpoint, without a readback |
| `again` | the offer expires for a reason it had expired for before: the DEAL-UPDATE exists, the batch withdraws it if unsent, and nothing raises it again |
| `kill` | a kill between a settled row and the job or the report, or between the pass's batch and its correction |

An end set by the seller's SOLD_OUT, or by a new ingest, has no correction in the code and
none in the model: the properties speak of ends set by the pass (`ender`). Seats that are not
known count as sold out in the projection (`Number(null) === 0`, `ingest.ts:58`) and not in the
expiry: `NotQueued` and `Due` differ.

### 3.5 `EventContract` and `DomainEvents`

`EventContract` is what whoever raises a domain event may rely on: it is owed until settled,
settled once, and done only when all it stands for is in place. `DomainEvents` is
`projectDomainEvents` around `claimDomainEvents` and `ackDomainEvent`, run by any number of
overlapping invocations under the one name `cron`. What tells a claim of one's own from a
later one is only the lease time, and both that and the time of each check are the time of a
tick; so `live` says for which invocations a lease still holds: the claimant and those whose
tick came before (`LiveFor`). A projection is two effects, the promotion signal's batch and
the queue row, or throws (`Faulty`). The acknowledgement sits inside the try: when it throws,
`Check` runs again with a failure, and when that throws, the invocation ends before
`scheduleDueSources` (`abort`). `/domain/lease` and `/domain/ack` have no caller in the
repository and are left out.

### 3.6 `SearchPlanning`

The five-minute branch behind the expiries. `ReadSignals` to `Choose` are
`planDueCandidateSearches`, `ReadCampaign` to `Insert` `planSearchesForQueue`, which a request
to `/search-planner/plan` runs as well (`Caller`). `ChooseBurst` to `Mark` are
`evaluateDuePromotionBursts` and `evaluatePromotionBurst`. Here the order of rows matters and
is kept (`Before`, `Oldest`, `Newest`); the LIMIT 8 of `relevantCampaign` is taken as not
binding. An exact query is a number, as only the order of the enumeration matters; sale
window, market and entitlements are one set of pairs that are passed over (`refused`). What
the tick does in between, dispatch and provisional offers, is not in the module.

### 3.7 `Deployment`

`deploy_shadow.py` and `deploy_production.py` over `cloudflare_release.py`, one driver at a
time. `provider` is what the provider holds. A command (`Issue`) is applied or not, whatever
the answer or the timeout says, or applied later (`Land`, trouble `late`). A readback is right,
or refused (the driver's own exception), or gets no answer at all (`Unanswered`, trouble
`transport`), which most callers do not catch. `Start` is the prestate check, `ListVersions` to
`Finish` the way forward, `ReadBefore` to `Verify` the rollback. When both requests of a
shadow driver's snapshot are refused it takes the Worker for one that does not exist
(`StartBlind`, trouble `blind`) and bootstraps over what serves. The two GETs of a snapshot are
one read, and one refused alone turns the driver away; readback and live probes of `Validate`
happen at one point.

The evidence is written file by file. `evidence.version` is what `worker-deploy.json` names, and
`evidence.whole` says whether the files that `cloudflare_session_ok` compares are of one
session: `WriteAccount` starts a production session, `WriteDeploy` names the version,
`WriteSecrets` completes the session, and `Finish` writes the last file, which preflight does
not compare. So a failure at the last file goes back with a complete session on file (trouble
`disk`). A driver that found no version has nothing to go back to (`FailFirst`): when its
readback fails it takes a second snapshot and says either that nothing was applied or that the
state is ambiguous (*unrestored*); a probe or a file that fails later is caught by nothing
(*crashed*). `CollectEvidence` (`npm run readback:cloudflare`) happens between drivers, and may
be cut off between any two files that matter. `troubled` remembers what has gone wrong, and each
property names what it does not survive. The age limit of evidence (24 h) and the review of the
credential policy are taken to be in order.

## 4. Runs

Only `domain_events` checks for deadlock: crons come for ever. In the other runs the modelled
parts do come to rest: when every alert is settled, every event finished, every job ended and
every bounded disturbance spent, nothing is left to do.

| run | instance | what it shows |
|---|---|---|
| `outbox_safety` | 1 deal (and its ADMIN alert), 2 notifiers, 1 cron, both modes, 2 attempts, all mishaps | types, `NoAlertLost`, `DeliveredByItsClaimant`, refinement of `AlertContract` |
| `outbox_liveness` | 1 deal, 1 notifier, 2 acknowledgements at once, crons killed, ADMIN class not configured | `DeadDealIsEscalated` when acknowledgements run to their end, `EveryDealSettles` |
| `live_offers` | 2 offers, 1 deal, 1 pass, 1 job, 1 plan, 1 kill anywhere but between a verdict and its batch | the documented promise of an undisturbed pass: `UnsentDealIsSuppressed`, `VisibleDealIsCorrected`, `ConfirmedIsWatched`; `RepriceIsJoined` over a kill and a resumption; `ExpiriesAreWorkedOff` |
| `live_offers_results` | as `live_offers`, a job overlapping, no kills | violation: finding 1 |
| `provider_search` | 1 plan, 1 refresh, 2 dispatches, 1 worker, limit 1 to 2, 2 orders, 2 attempts, 2 mishaps | budget, joining, finality, termination |
| `provider_search_late` | 1 plan, 1 refresh, no mishap | violation: finding 2 |
| `agency` | 2 rechecks, 1 checkout, 1 worker, 2 completions at once, and one of: a second ingest, a kill, an overlap | `ConfirmedHasEvidence`, `EndedIsOver`, `EndIsCorrected`, `WorkIsHandedOn`, `SettledWorkStays`, `EndIsFinal` |
| `domain_events` | 3 events, 1 of them faulty, 2 invocations, 2 attempts, claims of 2, 2 kills, 1 overlap | refinement of `EventContract`, `AloneTicksAreSound`, `DeadIsReported`, `EveryEventSettles` |
| `planning` | 2 promotions, 2 campaigns, 3 queries, a cron and a caller, 2 disturbances, 2 reports | `PlansAreExact`, `BurstIsRaised`, `EveryPairIsPlanned`, `NewestIsAnnounced` |
| `deployment` | 2 commits, 3 drivers, kills, unanswered readbacks, late commands, refused snapshots, a refused last file | `FailureRestores`, `ServedIsPreviewed`, `EvidenceIsTrue`, `ProductionFollowsShadow` |
| `deployment_unanswered` | 2 drivers, unanswered readbacks only | violation: finding 3 |
| `deployment_overwritten` | 2 commits, 3 drivers, refused snapshots only | violation: finding 4 |

Why these bounds are enough. *Outbox*: alerts interact only through the limits of one statement
and the escalation of a deal's own ADMIN alert, which is in the instance; two notifiers are what
a stolen lease takes, and restarts give each any number of lives. Two attempts contain a retry,
a death and the boundary between them. A tick is a whole lease, so that request, lease and
backoff can each outlast one another. *Expiry*: two offers are one that expires and one that may
replace it; one deal is enough for a correction to be owed or not; one plan has every outcome of
one, and what several add up to, and what overlapping passes do to one another, is in a larger
instance and proved. *Search*: two dispatches race for a budget of one that an order raises to
two, with a cap of two; a plan and a refresh are the two ways to be recorded. *Agency*: handlers
of one offer do not meet those of another. Two rechecks are one that is repeated, two
completions are twins or a completion and an acknowledgement. The run has one disturbance after
the first ingest; what a second one adds is left to the proofs, which cover all of its
properties. *Events*: three events are more than one claim takes; two invocations are a slow one
and its successor; two attempts as above. *Planning*: two promotions and two campaigns are the
least in which one pair stands in the way of another, by score and by age; a window with a gap
and a limit of two make the planned set differ from the first queries. *Deployment*: three
drivers are what it takes for one to go wrong, one to leave its version, and one to be taken in
by both; a second commit is a version that is not one's own.

Larger instances were explored without a violation, and are too slow to repeat every time: two
events with three attempts and two overlaps (954,000 states); planning with both scores, a
promotion that cools and three reports (846,000) and with one signal listed at a time (279,000);
four drivers with kills and refused snapshots (626,000); live offers with two passes of two
plans on one event (639,000, `RepriceIsJoined`), with two kills (942,000), with two and leases
straddling the pass (1.1 million, `UnsentDealIsSuppressed`), and with evaluations, projections
and leases straddling it and a kill at any step but the writing of the supports (1.1 million,
`ConfirmedIsWatched`). The runs themselves have 1.6 million (`agency`), 1.1 million
(`deployment`), 443,000 (`provider_search`) and 393,000 (`live_offers`) states, the others
fewer. The proofs of 5 remove the bounds for what they cover.

Some instances fail and are not among the runs, as each is a hazard with a known exclusion (for
those of the expiry see 5): `Straddles = {"lease"}` breaks `VisibleDealIsCorrected` (a deal
leased between the count and the batch, `offer_lifecycle.ts:76-86`), `"ack"` in `Killable`
breaks `DeadDealIsEscalated` (DEAD and the ADMIN intent are two statements, `outbox.ts:34-38`),
and a count of the searches themselves exceeds the budget, as only an enqueue reserves
(`scheduler.ts:59`).

Symmetry is used for notifiers in `outbox_safety`, and for completions and rechecks in
`agency`: neither checks liveness, and no member is named.

Fairness, each with its reason: projections, because the cron comes every minute (four of
five; every fifth does the expiries); lease requests, because pollers poll every 15 or 30
seconds and are restarted; steps of a request that is not killed, because it runs to its end;
time and lapses. `EveryDealSettles` needs mishaps to stop: with a notifier that crashes every
time a reclaimed row is leased for ever, as nothing in `leaseNotifications` bounds the
attempts. There, `Advance` waits for work under way once mishaps are over: a prompt request
does not take a lease's time. `LiveOfferLifecycle` uses strong fairness for a pass, because
in the run without overlaps the model makes the pass wait for jobs: the code does not, so the
waiting must not starve it. `ProviderSearch` bounds the mishaps themselves. `DomainEvents` and
`SearchPlanning` assume of each invocation that it is started again when idle (the cron) and
goes on when it is not killed; kills, overlaps, expiries and what users and workers do are
bounded, and nothing else is fair.

## 5. Proofs

In every module the proof of an invariant has one lemma per action or group of actions, and a
theorem that puts them together. The constants are arbitrary up to the module's assumption.

`NotificationOutbox_proofs`:

- `TypeCorrect`, `AlertsSurvive`, `DeliveryIsReal`. The inductive invariant `IInv` adds to the
  types what the statements rely on between one another: an invocation about to mark intents
  has rows for all of them (so a mark cannot lose an alert, whoever killed whom), a row in the
  outbox keeps existing, and an acknowledgement about to write *delivered* has seen the
  webhook take that very notifier's post. The last is why a stale acknowledgement is harmless:
  the guard `claimed_by` makes it write only for its own name.
- `DeathsAreEscalated`, under the assumption that acknowledgements are not killed. The
  assumption cannot go (section 4).

`NotificationOutbox_refinement` proves `OutboxKeepsContract`: initial states map to initial
states, and every step of `Next` maps to a step of `AlertContract` or a stutter, one lemma per
group of actions, using the invariant above.

`ProviderSearch_proofs` proves `BudgetIsHeld` and `DispatchJoins` for every number of plans,
dispatches and workers. The invariant says that the limit a dispatch has read is at most the
limit of the orders now (orders only grow, and `Limit` is monotone: lemma `LimitGrows`), so the
guarded UPDATE keeps the count within the present limit; and that a dispatch about to record or
mark an ask finds the job it has looked up or inserted, as jobs are never deleted. `TypeCorrect`
needs `TypeInv`: a worker at a job has it from its batch, each request under way is about a job
that exists, and a worker waits for one answer only. `JobsPaidFor` rests on `Paid`: the jobs that
exist and the dispatches between the counting and the INSERT together are at most the count, which
a kill or a refusal can only leave too high. `DoneStaysDone` assumes `"stall" \notin Mishap`: then
a completion past its check still holds the lease, and no two are about to write for one job
(`HeldInv`: a worker that crashed and came back is refused, or works on another job), so no
UPDATE of a completion finds a job that is done. With a stalled completion the property fails:
the UPDATE names nothing but the job.

`LiveOfferLifecycle_proofs`:

- `TypeCorrect` with `Aimed` (a pass at work works for an offer), and `RepricesAreJoined`, under
  no assumption on overlaps or kills. `RepriceInv` says that what a pass takes its reprice for
  is what it has done of it (`RepriceOK`): all plans it is through with have their job and their
  consumer as long as none was refused, some plan has when it would record PARTIAL, and the job
  it is about to join exists. Neither jobs nor consumers are ever deleted, so another pass, or a
  kill, can only add to them. What a reprice that fell short owes its report is raised, being
  raised, or lost to a kill at that statement (`Told`).
- `ConfirmationsAreWatched`, `UnsentDealsAreSuppressed`, `VisibleDealsAreCorrected`, for any set
  of offers, of deals, and of offers that confirm together. Each names the disturbances it
  survives. All three want one pass and one job at a time, and no job overlapping an expiry
  (`OneByOne`); what else they allow:

  | theorem | may straddle the pass | a kill may strike |
  |---|---|---|
  | `ConfirmationsAreWatched` (`OneByOne`) | evaluations, projections, leases | anywhere but between the verdict and its supports |
  | `UnsentDealsAreSuppressed` (`Apart`) | leases | anywhere but between the verdict and the batch |
  | `VisibleDealsAreCorrected` (`Alone`) | nothing | anywhere but between the verdict and the batch |

  TLC refutes each with two jobs, with a job that overlaps an expiry, with each straddling
  activity that its row leaves out, and with a kill at each single step that it leaves out; two
  passes break the first and the last. These counterexamples are the hazards of the code that
  section 6 lists. None of the properties is inductive: each is about settled states only, and
  what keeps it is what the steps in between remember. `WatchInv` says, for each step of the
  recompute, the job and the pass, what it has read that still holds (`RecomputeOK`, `JobOK`,
  `PassOK`), that a confirmation stands on its supports and what has an event is expired
  (`SupportsOK`, `EventsOK`). `Hushed` rests on it: without a confirmation, and with no pass
  between its verdict and its batch, no deal is on its way but those a notifier held at the last
  batch (`Silent`). Lemma `TakenBackByBatch` is
  its core: no step but the batch ends a confirmation for good. `AnswerInv` rests on both: who saw
  a deal is answered or about to be, because a pass at its batch has counted right and one about
  to close an event has raised its update (`CountOK`).

`AgencyClearance_proofs`:

- `TypeCorrect`; `ConfirmationsAreEvident`, over all overlaps and kills: a completion that is
  about to write an offer or raise a deal has the evidence row that says so (`EvidenceInv`).
- `SettledStays`: without the overlaps it names, a completion that is still to settle holds the
  lease of its row and is the only one of that row (`ExclusiveInv`).
- `EndsAreOver`, `EndsAreFinal`: as long as the end stands, nothing of the offer is open, no
  deal may go out but those in hand at the batch (a notifier may return and take them as often
  as it likes), the event is not half projected, and the only completions are acknowledgements
  without a readback that find no lease (`OverInv`). So the UPDATE that names the offer alone
  (`agency_recheck.ts`, `agency_checkout.ts`) has nobody left to run it.
- `EndsAreCorrected`: the pass that has ended the offer is about to raise an update that is not
  there yet, or one has gone out or may (`UpdateDue`).
- `WorkHandedOn`: a death in a worker's name is reported or its completion is at that step
  (`DeathsDue`, which holds over every overlap: an acknowledgement that settles a row anew owes
  a report of its own). A recheck that ended well has its job or is about to enqueue it
  (`JobDue`); this needs that a recheck which found the offer sold out cannot be followed by a
  confirmation before it settles (`UnconfirmedStays`), hence `ExclusiveInv`, and that an
  acknowledgement without a readback cannot settle in its place (`Direct`).

`DomainEvents_proofs`:

- `TypeCorrect`, `DeathsAreReported`.
- `ContractKept`, the refinement of `EventContract`. A stale acknowledgement is harmless for
  it, because whoever writes DONE has put the effects in place itself and effects only grow.
- `TicksAlone`: without overlaps one invocation is at work, and all it has claimed and not yet
  taken is CLAIMED and live for it (`AloneInv`), so that no acknowledgement throws.

`SearchPlanning_proofs`: `TypeCorrect` (with what each step is aimed at), `PlansExact` and
`BurstsAreRaised`. `ExactInv` says that what a planner has yet to insert and what is in the
table are together what the campaign allows, for every planner at once.

`Deployment_proofs`: `TypeCorrect`, `FailuresRestore`, `ServedWasPreviewed`, `EvidenceStaysTrue`,
`ProductionOnlyFollows`. As long as nothing is applied late and no snapshot is refused (`Calm`), a
version that appears after the listing is the driver's own (`OwnVersion`), what serves is the
version found or the candidate (`KnownActive`), no driver starts from a version it may not replace
(`RightStart`), and while one is under way no session on file speaks of production but its own
(`NoStaleEvidence`, if the disk takes the last file). `FailuresRestore` needs less: a driver that
found a version knows that it serves until it activates another, whatever snapshots other drivers
were refused (`Known`). A late command refutes each of the four, a refused snapshot each in what
it names.

Not proved, only model-checked: all liveness (and anything with ENABLED), which is beyond the
prover. No recursion is used.

## 6. Findings

Each is a run that fails as it should, with the quotation in `PROJECT.json`.

1. *A correction may be missing after a job completes* (`provider_results.ts:95`): the job's
   recompute takes back an expired confirmation, and the pass looks for CONFIRMED only.
2. *A refresh may be answered to nobody* (`offer_lifecycle.ts:28-29`): the job exists before
   its consumer, and a completed job is projected once. A plan that finds a job already done
   (`search_planner.ts:83-87`) meets the same end.
3. *A release may stay half done* (`cloudflare_release.py:181`): a readback without an answer
   raises what no driver catches; the candidate serves, unvalidated, and nothing goes back.
4. *A production version may be overwritten by a shadow driver* (`deploy_shadow.py:68`): two
   refused requests of the snapshot read as a Worker that does not exist, and the driver runs
   `wrangler deploy` over what serves. It has nothing to go back to, and if its second snapshot is
   refused as well it reports that nothing was applied.

What else the models show and the hazards list, each named in the run that excludes it:

- an evaluation or a projection that straddles an expiry lets a stale deal out; a kill of the
  pass between its verdict and its batch leaves what the next pass cannot find again;
- a completion that outlives its lease can reopen a job that is done;
- an agency offer that expires under a recheck is revived; one that ends as SOLD_OUT by a
  checkout or a recheck, or as ended by a new ingest, leaves its sent deals uncorrected; a kill
  between the settled row and the checkout job loses the checkout, and as the event is raised
  once, a new ingest does not queue the offer again;
- the ADMIN alert of a dead event is raised although the guarded UPDATE may have changed nothing;
- any plan makes a pair count as planned, so a planner killed half way leaves it so;
- an upload that appears late is taken by the next driver for its own;
- a deal that a notifier holds when its fare expires, or its agency offer ends, may come back to
  PENDING and be posted after the expiry, even after its correction (`outbox.ts:21` and `:33`);
- a pass that overlaps another on one event may write FAILED over its ENQUEUED, and raise an ADMIN
  alert for a reprice that is under way;
- a disk that refuses the last evidence file leaves a complete session on file of a version that
  was rolled back.

## 7. Not modelled

The source scheduler (`scheduler.ts`, `source.ts`): its counters are read and written back, so
two completions of one source lose an update (`scheduler.ts:36`), and its LIMIT comes before the
filters (`scheduler.ts:16`); both steer only how often a source is fetched. Provisional alerts,
the four-leg cycle, checkout pricing, candidate intake, registries, access reviews and shadow
evidence: see the plan and `PROJECT.json`. The pure evaluators, the content of alerts, payload
validation, formatting and routing: no interleaving of their own. Of authentication only the
lease check of an ingest is modelled. Of the scripts, provisioning, GitHub's readback, backup
and restore; two drivers at once. Failures of D1 itself are kills of the invocation. Clocks of
different invocations agree up to what a slow request's old `nowIso` makes of them, which
`asking`, `live` and the lapses model.
