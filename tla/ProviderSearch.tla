---------------------------- MODULE ProviderSearch ----------------------------
(***************************************************************************)
(* A metered provider's searches, from the plan to the verdict:            *)
(* dispatchProviderSearchPlans of src/search_planner.ts and the refresh of *)
(* src/offer_lifecycle.ts ask for a search, enqueueProviderSearch of       *)
(* src/provider_jobs.ts finds or makes the job and reserves its budget in  *)
(* src/provider_pricing.ts, provider_worker/worker.py leases the job,      *)
(* searches and completes it, and completeProviderJob projects the offers  *)
(* to everyone recorded as a consumer of the job.                          *)
(*                                                                         *)
(* Statements are awaited one by one; dispatches, lease requests and       *)
(* completions interleave. available_at and next_attempt_at only delay,    *)
(* which an action that need not happen yet expresses as well.             *)
(***************************************************************************)
EXTENDS Naturals, FiniteSets

CONSTANTS
    Plan,            \* rows of provider_search_plans
    Refresh,         \* live_offer_lifecycle_events that want a reprice
    Job,             \* job ids
    JobOf,           \* the job id that an ask's query (and refresh key) derives
    Dispatcher,      \* invocations that may dispatch at once
    Worker,          \* provider workers
    None,
    DispatchLimit,   \* plans one invocation takes up (2)
    LeaseLimit,      \* jobs one lease takes (3)
    Threshold,       \* searches per confirmed order (search_to_book_threshold)
    Cap,             \* the smaller of look_to_book_budget and hard_search_cap
    MaxOrders,       \* bound: confirmed orders
    MaxAttempts,     \* failures after which a job is dead (5)
    Mishap,          \* what may go wrong: "kill", "slow", "stall"
    MaxMishaps       \* bound: how often

Ask == Plan \cup Refresh

ASSUME SearchAssumption ==
    /\ Plan \cap Refresh = {} /\ JobOf \in [Ask -> Job]
    /\ None \notin Ask \cup Job \cup Worker
    /\ {DispatchLimit, LeaseLimit, Threshold, Cap, MaxAttempts} \subseteq Nat \ {0}
    /\ {MaxOrders, MaxMishaps} \subseteq Nat
    /\ Mishap \subseteq {"kill", "slow", "stall"}

VARIABLES
    ask,             \* READY (or PENDING), DISPATCHED (ENQUEUED) or DEAD (FAILED)
    consumers,       \* provider_job_consumers: the asks recorded with their job
    window,          \* provider_usage_windows
    run,             \* dispatching invocations
    job,             \* verification_jobs
    work,            \* provider workers
    completions,     \* /provider-jobs/complete requests under way
    offered,         \* jobs that offers were ingested for
    verified,        \* asks whose candidate was recomputed with the job's offers
    reported,        \* jobs whose death raised an ADMIN alert
    mishaps          \* mishaps so far

vars == <<ask, consumers, window, run, job, work, completions, offered, verified,
          reported, mishaps>>
askVars == <<ask, consumers, window, run>>
results == <<offered, verified, reported>>
workVars == <<work, completions, results>>

IdleRun == [step |-> "idle", rows |-> {}, ask |-> None, limit |-> 0]
NoJob == [state |-> "absent", by |-> None, lapsed |-> FALSE, attempts |-> 0]
IdleWork == [step |-> "idle", batch |-> {}, job |-> None]

Init ==
    /\ ask = [a \in Ask |-> "READY"]
    /\ consumers = {}
    /\ window = [count |-> 0, orders |-> 0, circuit |-> "CLEAR"]
    /\ run = [d \in Dispatcher |-> IdleRun]
    /\ job = [j \in Job |-> NoJob]
    /\ work = [w \in Worker |-> IdleWork]
    /\ completions = {}
    /\ offered = {} /\ verified = {} /\ reported = {}
    /\ mishaps = 0

\* A LIMIT clause: as many of S as the limit allows.
Limited(S, limit) ==
    {T \in SUBSET S : \/ T = S /\ Cardinality(S) <= limit
                      \/ Cardinality(T) = limit}

May(kind) == kind \in Mishap /\ mishaps < MaxMishaps
Happens == mishaps' = mishaps + 1
Smooth == mishaps' = mishaps
-----------------------------------------------------------------------------
(* Dispatching: the plans of one invocation, or one refresh.               *)

At(d, s) == run[d].step = s
Go(d, s) == run' = [run EXCEPT ![d].step = s]

\* The invocation is through with the row a, and goes on with the next.
NextRow(d, a) ==
    LET rest == run[d].rows \ {a}
    IN  run' = [run EXCEPT ![d] = IF rest = {} THEN IdleRun
                                  ELSE [IdleRun EXCEPT !.step = "look", !.rows = rest]]

\* An event that wants a reprice arises when an offer expires that verified a
\* plan's candidate.
Events == IF verified = {} THEN {} ELSE {r \in Refresh : ask[r] = "READY"}

\* The SELECT of READY plans, or of an event that is still pending.
SelectAsks(d) ==
    /\ At(d, "idle")
    /\ \E S \in Limited({p \in Plan : ask[p] = "READY"}, DispatchLimit)
                \cup {{r} : r \in Events} :
          /\ S # {}
          /\ run' = [run EXCEPT ![d].step = "look", ![d].rows = S]
    /\ UNCHANGED <<ask, consumers, window, job, workVars, mishaps>>

\* The access checks of enqueueProviderSearch, and the look for the job. A
\* provider that is not ready defers a plan and fails a refresh; one without
\* the capability ends both.
LookForJob(d) ==
    /\ At(d, "look")
    /\ \E a \in run[d].rows :
          \/ run' = [run EXCEPT ![d].ask = a, ![d].step = "fail"]
          \/ run' = [run EXCEPT ![d].ask = a, ![d].step =
                       IF job[JobOf[a]] = NoJob THEN "read" ELSE "record"]
          \/ a \in Plan /\ NextRow(d, a)
    /\ UNCHANGED <<ask, consumers, window, job, workVars, mishaps>>

\* effectiveLimit
Limit(orders) ==
    LET ratio == (IF orders = 0 THEN 1 ELSE orders) * Threshold
    IN  IF ratio < Cap THEN ratio ELSE Cap

\* Fault: no provider is taken for the metered one.
ReadNothing(d) ==
    /\ At(d, "read")
    /\ Go(d, "insert")
    /\ UNCHANGED <<ask, consumers, window, job, workVars, mishaps>>

\* reserveProviderSearchBudget reads the window, and the limit with it.
ReadWindow(d) ==
    /\ At(d, "read")
    /\ IF window.circuit = "OPEN" \/ window.count >= Limit(window.orders)
       THEN Go(d, "open")
       ELSE run' = [run EXCEPT ![d].step = "count", ![d].limit = Limit(window.orders)]
    /\ UNCHANGED <<ask, consumers, window, job, workVars, mishaps>>

\* Fault: what was read is trusted, and the UPDATE counts unconditionally.
CountBlindly(d) ==
    /\ At(d, "count")
    /\ window' = [window EXCEPT !.count = @ + 1]
    /\ Go(d, "insert")
    /\ UNCHANGED <<ask, consumers, job, workVars, mishaps>>

\* UPDATE ... WHERE circuit_state='CLEAR' AND search_count<?
CountSearch(d) ==
    /\ At(d, "count")
    /\ IF window.circuit = "CLEAR" /\ window.count < run[d].limit
       THEN window' = [window EXCEPT !.count = @ + 1] /\ Go(d, "insert")
       ELSE window' = window /\ Go(d, "open")
    /\ UNCHANGED <<ask, consumers, job, workVars, mishaps>>

OpenCircuit(d) ==
    /\ At(d, "open")
    /\ window' = [window EXCEPT !.circuit = "OPEN"]
    /\ Go(d, "fail")
    /\ UNCHANGED <<ask, consumers, job, workVars, mishaps>>

\* INSERT OR IGNORE
InsertJob(d) ==
    /\ At(d, "insert")
    /\ job' = [job EXCEPT ![JobOf[run[d].ask]] =
                 IF @ = NoJob THEN [NoJob EXCEPT !.state = "PENDING"] ELSE @]
    /\ Go(d, "record")
    /\ UNCHANGED <<ask, consumers, window, workVars, mishaps>>

\* Fault: the plan is marked without its consumer.
RecordUnmatched(d) ==
    /\ At(d, "record")
    /\ ask' = [ask EXCEPT ![run[d].ask] = "DISPATCHED"]
    /\ NextRow(d, run[d].ask)
    /\ UNCHANGED <<consumers, window, job, workVars, mishaps>>

\* A plan and its consumer are one batch; a refresh records its consumer first.
Record(d) ==
    /\ At(d, "record")
    /\ consumers' = consumers \cup {run[d].ask}
    /\ IF run[d].ask \in Plan
       THEN /\ ask' = [ask EXCEPT ![run[d].ask] = IF @ = "READY" THEN "DISPATCHED" ELSE @]
            /\ NextRow(d, run[d].ask)
       ELSE ask' = ask /\ Go(d, "mark")
    /\ UNCHANGED <<window, job, workVars, mishaps>>

MarkRefresh(d) ==
    /\ At(d, "mark")
    /\ ask' = [ask EXCEPT ![run[d].ask] = "DISPATCHED"]
    /\ NextRow(d, run[d].ask)
    /\ UNCHANGED <<consumers, window, job, workVars, mishaps>>

\* The plan dies whatever another invocation has made of it meanwhile.
FailAsk(d) ==
    /\ At(d, "fail")
    /\ ask' = [ask EXCEPT ![run[d].ask] = "DEAD"]
    /\ NextRow(d, run[d].ask)
    /\ UNCHANGED <<consumers, window, job, workVars, mishaps>>

KillDispatch(d) ==
    /\ May("kill") /\ ~At(d, "idle")
    /\ run' = [run EXCEPT ![d] = IdleRun]
    /\ Happens
    /\ UNCHANGED <<ask, consumers, window, job, workVars>>

\* recordProviderConfirmedOrder
RecordOrder ==
    /\ window.orders < MaxOrders
    /\ window' = [window EXCEPT !.orders = @ + 1, !.circuit = "CLEAR"]
    /\ UNCHANGED <<ask, consumers, run, job, workVars, mishaps>>
-----------------------------------------------------------------------------
(* Leasing.                                                                *)

\* Fault: a lapsed lease is never reclaimed.
NothingLapsed == {}
Lapsed == {j \in Job : job[j].state = "LEASED" /\ job[j].lapsed}

\* The first statement of leaseProviderJobs, by any worker's poll. What it
\* misses because a lease lapses later, the next poll finds.
Reclaim ==
    /\ Lapsed # {}
    /\ job' = [j \in Job |-> IF j \in Lapsed
                             THEN [job[j] EXCEPT !.state = "PENDING", !.by = None,
                                                 !.lapsed = FALSE] ELSE job[j]]
    /\ UNCHANGED <<askVars, workVars, mishaps>>

\* The claiming UPDATE ... RETURNING. Nothing bounds the attempts here; those
\* past MaxAttempts decide alike. A lost response leaves the worker idle.
Claim(w) ==
    /\ work[w].step = "idle"
    /\ \E S \in Limited({j \in Job : job[j].state = "PENDING"}, LeaseLimit) :
          /\ S # {}
          /\ job' = [j \in Job |->
                       IF j \in S THEN [state |-> "LEASED", by |-> w, lapsed |-> FALSE,
                                        attempts |-> IF job[j].attempts < MaxAttempts
                                                     THEN job[j].attempts + 1
                                                     ELSE job[j].attempts]
                       ELSE job[j]]
          /\ \/ work' = [work EXCEPT ![w] = [step |-> "next", batch |-> S, job |-> None]]
                /\ Smooth
             \/ May("kill") /\ Happens /\ work' = work
    /\ UNCHANGED <<askVars, completions, results>>

Attended(j) == \/ \E w \in Worker : j \in work[w].batch
               \/ \E r \in completions : r.job = j

\* The lease time is over: for a job nobody works on any more, under a worker
\* that is slow, or under a completion that was checked and stalls.
Lapse(j) ==
    /\ job[j].state = "LEASED" /\ ~job[j].lapsed
    /\ \/ ~Attended(j) /\ Smooth
       \/ May("slow") /\ ~(\E r \in completions : r.job = j) /\ Attended(j) /\ Happens
       \/ May("stall") /\ (\E r \in completions : r.job = j) /\ Happens
    /\ job' = [job EXCEPT ![j].lapsed = TRUE]
    /\ UNCHANGED <<askVars, workVars>>
-----------------------------------------------------------------------------
(* provider_worker/worker.py: one leased job after the other.              *)

\* The provider may answer with offers, with none, or not at all.
Search(w) ==
    /\ work[w].step = "next"
    /\ \E j \in work[w].batch, outcome \in {"found", "success", "failure"} :
          work' = [work EXCEPT ![w].job = j, ![w].step = outcome]
    /\ UNCHANGED <<askVars, job, completions, results, mishaps>>

HoldsLease(w, j) == job[j].state = "LEASED" /\ job[j].by = w /\ ~job[j].lapsed

\* /offers/ingest, refused without a live lease.
IngestOffers(w) ==
    /\ work[w].step = "found"
    /\ IF HoldsLease(w, work[w].job)
       THEN /\ offered' = offered \cup {work[w].job}
            /\ work' = [work EXCEPT ![w].step = "success"]
       ELSE /\ offered' = offered
            /\ work' = [work EXCEPT ![w].step = "failure"]
    /\ UNCHANGED <<askVars, job, completions, verified, reported, mishaps>>

NextJob(w) ==
    LET rest == work[w].batch \ {work[w].job}
    IN  work' = [work EXCEPT ![w] = IF rest = {} THEN IdleWork
                                    ELSE [step |-> "next", batch |-> rest, job |-> None]]

\* A failed request: a success is reported as a failure instead; a failure to
\* report a failure ends run_once, and the process with it.
Failed(w, success) ==
    work' = [work EXCEPT ![w] = IF success THEN [@ EXCEPT !.step = "failure"] ELSE IdleWork]

Completion(w, success, step) ==
    [job |-> work[w].job, by |-> w, success |-> success, step |-> step,
     attempts |-> job[work[w].job].attempts, to |-> w]

\* Fault: a completion is taken from anyone, in any state of the job.
Acceptable(w, j) == TRUE
\* The row's checks of completeProviderJob.
MayComplete(w, j) == HoldsLease(w, j)

Complete(w) ==
    /\ work[w].step \in {"success", "failure"}
    /\ LET success == work[w].step = "success"
           j == work[w].job
       IN  CASE MayComplete(w, j) ->
                  /\ completions' = completions \cup {Completion(w, success, "write")}
                  /\ work' = [work EXCEPT ![w].step = "wait"]
             [] ~MayComplete(w, j) /\ job[j].state = "DONE" /\ success ->
                  /\ completions' = completions \cup {Completion(w, success, "project")}
                  /\ work' = [work EXCEPT ![w].step = "wait"]
             [] ~MayComplete(w, j) /\ job[j].state = "DONE" /\ ~success ->
                  completions' = completions /\ NextJob(w)
             [] OTHER -> completions' = completions /\ Failed(w, success)
    /\ UNCHANGED <<askVars, job, results, mishaps>>

CrashWorker(w) ==
    /\ May("kill") /\ work[w].step # "idle"
    /\ work' = [work EXCEPT ![w] = IdleWork]
    /\ completions' = {IF r.to = w THEN [r EXCEPT !.to = None] ELSE r : r \in completions}
    /\ Happens
    /\ UNCHANGED <<askVars, job, results>>
-----------------------------------------------------------------------------
(* completeProviderJob, from its UPDATE on.                                *)

Finished(r) ==
    /\ completions' = completions \ {r}
    /\ IF r.to # None THEN NextJob(r.to) ELSE work' = work

\* Fault: claimed_by survives.
SettleWithClaim(r, state) == job' = [job EXCEPT ![r.job].state = state]
Settle(r, state) ==
    job' = [job EXCEPT ![r.job] = 
                            [@ EXCEPT !.state = state, !.by = None, !.lapsed = FALSE]]

\* None of the UPDATEs looks at the row again. The attempts were read at some
\* time since the check.
WriteOutcome(r) ==
    /\ r.step = "write"
    /\ \/ /\ r.success
          /\ Settle(r, "DONE")
          /\ completions' = (completions \ {r}) \cup {[r EXCEPT !.step = "project"]}
          /\ work' = work
       \/ /\ ~r.success
          /\ \E n \in r.attempts .. job[r.job].attempts :
                IF n < MaxAttempts
                THEN Settle(r, "PENDING") /\ Finished(r)
                ELSE /\ Settle(r, "DEAD")
                     /\ completions' = (completions \ {r}) \cup {[r EXCEPT !.step = "report"]}
                     /\ work' = work
    /\ UNCHANGED <<askVars, results, mishaps>>

\* projectProviderJobResults links the offers to the consumers recorded now,
\* and recomputes them. Its loop over the consumers - links, recompute and
\* acknowledgement of one after the other - is taken together.
ProjectResults(r) ==
    /\ r.step = "project"
    /\ verified' = IF r.job \in offered
                   THEN verified \cup {a \in consumers : JobOf[a] = r.job} ELSE verified
    /\ Finished(r)
    /\ UNCHANGED <<askVars, job, offered, reported, mishaps>>

ReportDeath(r) ==
    /\ r.step = "report"
    /\ reported' = reported \cup {r.job}
    /\ Finished(r)
    /\ UNCHANGED <<askVars, job, offered, verified, mishaps>>

\* The Worker invocation ends early, or its caller stops waiting for it.
BreakCompletion(r) ==
    /\ \/ May("kill") /\ completions' = completions \ {r}
       \/ May("stall") /\ r.to # None
          /\ completions' = (completions \ {r}) \cup {[r EXCEPT !.to = None]}
    /\ IF r.to # None THEN Failed(r.to, r.success) ELSE work' = work
    /\ Happens
    /\ UNCHANGED <<askVars, job, results>>

DispatchStep(d) ==
    \/ LookForJob(d) \/ ReadWindow(d) \/ CountSearch(d) \/ OpenCircuit(d)
    \/ InsertJob(d) \/ Record(d) \/ MarkRefresh(d) \/ FailAsk(d)

WorkStep(w) == Search(w) \/ IngestOffers(w) \/ Complete(w)

CompletionStep(r) == WriteOutcome(r) \/ ProjectResults(r) \/ ReportDeath(r)

Next ==
    \/ \E d \in Dispatcher : SelectAsks(d) \/ DispatchStep(d) \/ KillDispatch(d)
    \/ RecordOrder
    \/ Reclaim
    \/ \E w \in Worker : Claim(w) \/ WorkStep(w) \/ CrashWorker(w)
    \/ \E j \in Job : Lapse(j)
    \/ \E r \in completions : CompletionStep(r) \/ BreakCompletion(r)

\* Workers poll every 30 seconds, requests run to their end, time passes.
Fairness ==
    /\ WF_vars(Reclaim)
    /\ \A w \in Worker : WF_vars(Claim(w)) /\ WF_vars(WorkStep(w))
    /\ \A j \in Job : WF_vars(Lapse(j))
    /\ WF_vars(\E r \in completions : CompletionStep(r))

Spec == Init /\ [][Next]_vars /\ Fairness
-----------------------------------------------------------------------------
(* Properties.                                                             *)

TypeOK ==
    /\ ask \in [Ask -> {"READY", "DISPATCHED", "DEAD"}]
    /\ consumers \subseteq Ask
    /\ window \in [count : Nat, orders : 0 .. MaxOrders, circuit : {"CLEAR", "OPEN"}]
    /\ run \in [Dispatcher ->
                  [step : {"idle", "look", "read", "count", "open", "insert", "record",
                           "mark", "fail"},
                   rows : SUBSET Ask, ask : Ask \cup {None}, limit : Nat]]
    /\ job \in [Job -> [state : {"absent", "PENDING", "LEASED", "DONE", "DEAD"},
                         by : Worker \cup {None}, lapsed : BOOLEAN,
                         attempts : 0 .. MaxAttempts]]
    /\ \A j \in Job : job[j].by # None <=> job[j].state = "LEASED"
    /\ work \in [Worker -> [step : {"idle", "next", "found", "success", "failure", "wait"},
                            batch : SUBSET Job, job : Job \cup {None}]]
    /\ completions \subseteq [job : Job, by : Worker, success : BOOLEAN,
                             step : {"write", "project", "report"},
                             attempts : 0 .. MaxAttempts, to : Worker \cup {None}]
    /\ {offered, reported} \subseteq SUBSET Job /\ verified \subseteq Ask
    /\ mishaps \in 0 .. MaxMishaps

\* However many dispatches read the window before any of them counts, the
\* searches reserved stay within what the confirmed orders allow.
BudgetHeld == window.count <= Limit(window.orders)

\* No job of a metered provider exists without a reservation of its own.
JobsArePaidFor == Cardinality({j \in Job : job[j] # NoJob}) <= window.count

\* Whatever was killed before, an ask that dispatching is through with - a
\* dispatched plan, an enqueued refresh - is recorded as a consumer of a job
\* that exists. It does not say that the job has still to complete: an ask that
\* joins a finished job is recorded too, and gets no offers
\* (ReturnedOffersAreVerified).
DispatchedIsJoined ==
    \A a \in Ask : ask[a] = "DISPATCHED" => a \in consumers /\ job[JobOf[a]] # NoJob

\* A job that is done is never searched again, although the completing UPDATE
\* names nothing but the job: the check before it suffices as long as no
\* completion outlives its lease or its caller.
DoneIsFinal == [][\A j \in Job : job[j].state = "DONE" => job'[j].state = "DONE"]_vars

\* Every job ends, over crashed workers, lost answers and lapsed leases.
EveryJobEnds == \A j \in Job : job[j] # NoJob ~> job[j].state \in {"DONE", "DEAD"}

\* When nothing is under way, the offers a reprice returned have reached the
\* verification of the candidate whose offer expired.
ReturnedOffersAreVerified ==
    (/\ \A d \in Dispatcher : At(d, "idle")
     /\ \A w \in Worker : work[w].step = "idle"
     /\ completions = {}) =>
    \A a \in consumers \cap Refresh : job[JobOf[a]].state = "DONE" /\ JobOf[a] \in offered
                                     => a \in verified
=============================================================================
