---------------------------- MODULE SearchPlanning ----------------------------
(***************************************************************************)
(* The optional part of the five-minute cron (src/worker.ts): behind the   *)
(* expiries, planDueCandidateSearches turns one pair of a queued promotion *)
(* and a search campaign into plans (src/search_planner.ts), and           *)
(* evaluateDuePromotionBursts looks at one promotion that many sources     *)
(* report (src/social_heat.ts). Plans are also made by requests to         *)
(* /search-planner/plan, in between. Every write is an action of its own;  *)
(* what evaluatePromotionBurst reads in front of its first write is one    *)
(* action with that write, as the later writes do not rest on it.          *)
(*                                                                         *)
(* An exact query is a number: the planner enumerates routes, dates and    *)
(* lengths in a fixed order, so only the order matters here. Whatever      *)
(* keeps the two functions from using a campaign for a promotion (sale     *)
(* window, market, entitlements of the profile) is in refused. Between the *)
(* two, the tick dispatches plans (ProviderSearch) and evaluates           *)
(* provisional offers; neither touches the state of this module.           *)
(***************************************************************************)
EXTENDS Naturals, FiniteSets

CONSTANTS
    Signals,        \* number of promotions; ids in the order of first report
    Campaign,
    Queries,        \* number of exact queries
    Routes,         \* pairs whose routes meet
    Window,         \* the queries inside the travel window of a promotion
    Cron,           \* five-minute invocations that may overlap
    Caller,         \* requests to /search-planner/plan
    None,
    SignalLimit,    \* eight in the code
    CampaignLimit,  \* four in the code
    MaxQueries,     \* at most eight in the code
    Listing,        \* the sets of queries that users give a campaign
    Offered,        \* the queries of each campaign at first
    Score,          \* scores of a report: 70 with a price, 50 without
    Heat,           \* whether a report finds enough sources: "yes", "no", or either
    MaxMoves,       \* kills, ticks that expire something, changes by users and workers
    MaxReports      \* reports of promotions by sources

Signal == 1 .. Signals
Query == 1 .. Queries
Pair == Campaign \X Signal
Pass == Cron \cup Caller

ASSUME PlanningAssumption ==
    /\ Signals \in Nat /\ Queries \in Nat /\ None \notin Campaign
    /\ Routes \subseteq Pair /\ Window \in [Signal -> SUBSET Query]
    /\ Cron \cap Caller = {}
    /\ SignalLimit \in Nat \ {0} /\ CampaignLimit \in Nat \ {0} /\ MaxQueries \in Nat \ {0}
    /\ Listing \subseteq SUBSET Query /\ Offered \in [Campaign -> Listing] /\ Score \subseteq {50, 70}
    /\ Heat \subseteq {"yes", "no"}
    /\ MaxMoves \in Nat /\ MaxReports \in Nat

VARIABLES
    signal,         \* promotions and their rows of candidate_priority_queue
    campaign,       \* search_campaigns
    refused,        \* pairs that planning and bursts pass over
    plans,          \* provider_search_plans
    heat,           \* promotion_social_heat
    announced,      \* promotions with a burst intent
    pass,           \* invocations and requests under way
    edited,         \* history: campaigns that have been changed
    torn,           \* history: pairs whose planner was killed between two plans
    moves,          \* disturbances so far
    reports         \* reports so far

vars == <<signal, campaign, refused, plans, heat, announced, pass, edited, torn,
          moves, reports>>
tables == <<signal, campaign, refused>>
results == <<plans, heat, announced>>
history == <<edited, torn, moves, reports>>

\* What an invocation remembers: the scores of the signals and the ages of the
\* campaigns it has listed (0 if not listed), the pair it plans, or the promotion
\* it looks at, and the queries still to be planned.
NoSignals == [q \in Signal |-> 0]
NoCampaigns == [c \in Campaign |-> 0]
Idle == [step |-> "idle", scores |-> NoSignals, ages |-> NoCampaigns,
         with |-> None, for |-> 0, todo |-> {}]

Init ==
    /\ signal = [q \in Signal |-> [state |-> "none", score |-> 0, last |-> 0, hot |-> "no"]]
    /\ campaign = [c \in Campaign |-> [on |-> "yes", updated |-> 1, queries |-> Offered[c]]]
    /\ refused = {}
    /\ plans = {}
    /\ heat = [q \in Signal |-> "none"]
    /\ announced = {}
    /\ pass = [i \in Pass |-> Idle]
    /\ edited = {} /\ torn = {}
    /\ moves = 0 /\ reports = 0

At(i, s) == pass[i].step = s
Move == moves < MaxMoves /\ moves' = moves + 1
Go(i, s) == pass' = [pass EXCEPT ![i] = IF s = "idle" THEN Idle ELSE [@ EXCEPT !.step = s]]
-----------------------------------------------------------------------------
(* What happens around the cron.                                           *)

Max(a, b) == IF a < b THEN b ELSE a
\* A source reports a promotion: the queue row keeps its state and the higher
\* score. Enough sources within the last minutes make the promotion hot.
Report(q, score, hot) ==
    /\ reports < MaxReports
    /\ \A r \in Signal : r < q => signal[r].state # "none"
    /\ signal' = [signal EXCEPT ![q] =
                     [state |-> IF @.state = "none" THEN "PENDING" ELSE @.state,
                      score |-> Max(@.score, score), last |-> reports + 1, hot |-> hot]]
    /\ reports' = reports + 1
    /\ UNCHANGED <<campaign, refused, results, pass, edited, torn, moves>>

Cools(q) ==
    /\ Move /\ signal[q].hot = "yes"
    /\ signal' = [signal EXCEPT ![q].hot = "no"]
    /\ UNCHANGED <<campaign, refused, results, pass, edited, torn, reports>>

\* Workers lease the row, give it back and settle it.
Handle(q) ==
    /\ Move
    /\ \E next \in {<<"PENDING", "LEASED">>, <<"LEASED", "PENDING">>, <<"LEASED", "DONE">>} :
          /\ signal[q].state = next[1]
          /\ signal' = [signal EXCEPT ![q].state = next[2]]
    /\ UNCHANGED <<campaign, refused, results, pass, edited, torn, reports>>

\* upsertSearchCampaign.
Upsert(c, on, queries) ==
    /\ Move
    /\ campaign' = [campaign EXCEPT ![c] =
                       [on |-> on, updated |-> moves + 2, queries |-> queries]]
    /\ edited' = edited \cup {c}
    /\ UNCHANGED <<signal, refused, results, pass, torn, reports>>

Expires(c) ==
    /\ Move /\ campaign[c].on = "yes"
    /\ campaign' = [campaign EXCEPT ![c].on = "no"]
    /\ UNCHANGED <<signal, refused, results, pass, edited, torn, reports>>

\* A sale begins or ends, an entitlement is granted or lapses.
Access(p) ==
    /\ Move
    /\ refused' = IF p \in refused THEN refused \ {p} ELSE refused \cup {p}
    /\ UNCHANGED <<signal, campaign, results, pass, edited, torn, reports>>
-----------------------------------------------------------------------------
(* The invocation: expiries, then the choice of a pair.                    *)

Start(i) ==
    /\ i \in Cron /\ At(i, "idle")
    /\ Go(i, "expiry")
    /\ UNCHANGED <<tables, results, history>>

\* An expired agency offer, or a live one, is all that this tick sees to.
Expiry(i) ==
    /\ At(i, "expiry")
    /\ \/ Move /\ Go(i, "idle")
       \/ Go(i, "signals") /\ UNCHANGED moves
    /\ UNCHANGED <<tables, results, edited, torn, reports>>

\* ORDER BY priority_score DESC, first_observed_at
Before(scores, q, r) == scores[q] > scores[r] \/ (scores[q] = scores[r] /\ q < r)

Pending == {q \in Signal : signal[q].state = "PENDING"}
Scores == [q \in Signal |-> signal[q].score]

\* Planned or not, a signal counts until a worker takes it.
Listed == {q \in Pending :
              Cardinality({r \in Pending : Before(Scores, r, q)}) < SignalLimit}

ReadSignals(i) ==
    /\ At(i, "signals")
    /\ pass' = [pass EXCEPT ![i] = [@ EXCEPT !.step = "campaigns",
                   !.scores = [q \in Signal |-> IF q \in Listed THEN signal[q].score ELSE 0]]]
    /\ UNCHANGED <<tables, results, history>>

Active == {c \in Campaign : campaign[c].on = "yes"}

\* ORDER BY updated_at LIMIT; SQL breaks ties as it likes.
Oldest == {C \in SUBSET Active :
              /\ Cardinality(C) <= CampaignLimit
              /\ C = Active \/ Cardinality(C) = CampaignLimit
              /\ \A c \in C, d \in Active \ C : campaign[c].updated <= campaign[d].updated}

ReadCampaigns(i) ==
    /\ At(i, "campaigns")
    /\ \E C \in Oldest :
          pass' = [pass EXCEPT ![i] = [@ EXCEPT !.step = "prior",
                      !.ages = [c \in Campaign |-> IF c \in C THEN campaign[c].updated ELSE 0]]]
    /\ UNCHANGED <<tables, results, history>>

PlansOf(c, q) == {x \in Query : <<c, q, x>> \in plans}

\* Fault: a pair that has been planned is not passed over.
AllPairs(i) == {p \in Routes : pass[i].scores[p[2]] # 0 /\ pass[i].ages[p[1]] # 0}
Candidates(i) ==
    {p \in Routes : pass[i].scores[p[2]] # 0 /\ pass[i].ages[p[1]] # 0 /\ PlansOf(p[1], p[2]) = {}}

Precedes(i, p, r) ==
    \/ Before(pass[i].scores, p[2], r[2])
    \/ (p[2] = r[2] /\ pass[i].ages[p[1]] < pass[i].ages[r[1]])

\* The first pair that has no plan is the only one this tick looks at.
Choose(i) ==
    /\ At(i, "prior")
    /\ \/ /\ Candidates(i) = {} /\ Go(i, "burst")
       \/ \E p \in Candidates(i) :
             /\ \A r \in Candidates(i) : ~Precedes(i, r, p)
             /\ pass' = [pass EXCEPT ![i] = [Idle EXCEPT !.step = "campaign",
                                                         !.with = p[1], !.for = p[2]]]
    /\ UNCHANGED <<tables, results, history>>
-----------------------------------------------------------------------------
(* planSearchesForQueue.                                                   *)

\* /search-planner/plan names the pair.
Call(i, p) ==
    /\ Move /\ i \in Caller /\ At(i, "idle") /\ signal[p[2]].state # "none"
    /\ pass' = [pass EXCEPT ![i] = [Idle EXCEPT !.step = "campaign", !.with = p[1], !.for = p[2]]]
    /\ UNCHANGED <<tables, results, edited, torn, reports>>

\* The request ends; the cron goes on with the bursts.
AfterPlanning(i) == IF i \in Cron THEN "burst" ELSE "idle"

\* An inactive campaign throws, and takes the rest of the invocation with it.
ReadCampaign(i) ==
    /\ At(i, "campaign")
    /\ \/ campaign[pass[i].with].on = "no" /\ Go(i, "idle")
       \/ /\ campaign[pass[i].with].on = "yes"
          /\ pass' = [pass EXCEPT ![i] = [@ EXCEPT !.step = "promotion",
                                                   !.todo = campaign[pass[i].with].queries]]
    /\ UNCHANGED <<tables, results, history>>

\* The first queries, in order, as many as the campaign allows.
Bounded(S) == {x \in S : Cardinality({y \in S : y < x}) < MaxQueries}

\* Fault: what is planned already does not count.
Topped(i) == Bounded((pass[i].todo \cap Window[pass[i].for])
                        \ PlansOf(pass[i].with, pass[i].for))
Chosen(i) == Bounded(pass[i].todo \cap Window[pass[i].for])

ReadPromotion(i) ==
    /\ At(i, "promotion")
    /\ \/ /\ <<pass[i].with, pass[i].for>> \notin Routes \ refused
          /\ Go(i, AfterPlanning(i))
       \/ /\ <<pass[i].with, pass[i].for>> \in Routes \ refused
          /\ pass' = [pass EXCEPT ![i] = [@ EXCEPT !.step = "insert", !.todo = Chosen(i)]]
    /\ UNCHANGED <<tables, results, history>>

\* INSERT OR IGNORE, one by one; then dispatch (ProviderSearch).
Insert(i) ==
    /\ At(i, "insert")
    /\ \/ \E x \in pass[i].todo :
             /\ \A y \in pass[i].todo : x <= y
             /\ plans' = plans \cup {<<pass[i].with, pass[i].for, x>>}
             /\ pass' = [pass EXCEPT ![i].todo = @ \ {x}]
       \/ /\ pass[i].todo = {} /\ Go(i, AfterPlanning(i))
          /\ UNCHANGED plans
    /\ UNCHANGED <<tables, heat, announced, history>>
-----------------------------------------------------------------------------
(* evaluateDuePromotionBursts.                                             *)

Open(q) == signal[q].state \in {"PENDING", "LEASED"}

\* Fault: those that have been announced stay in the way.
AnyOpen == {q \in Signal : Open(q)}
Untriggered == {q \in Signal : Open(q) /\ heat[q] # "triggered"}

\* ORDER BY last_observed_at DESC LIMIT 1
Newest == {q \in Untriggered : \A r \in Untriggered : signal[r].last <= signal[q].last}

ChooseBurst(i) ==
    /\ At(i, "burst")
    /\ \/ Untriggered = {} /\ Go(i, "idle")
       \/ \E q \in Newest :
             pass' = [pass EXCEPT ![i] = [Idle EXCEPT !.step = "evidence", !.for = q]]
    /\ UNCHANGED <<tables, results, history>>

Relevant(q) ==
    \E c \in Active : <<c, q>> \in Routes \ refused /\ campaign[c].queries \cap Window[q] # {}

\* The evidence of the last twenty minutes, the campaigns, and the heat row.
Evaluate(i) ==
    /\ At(i, "evidence")
    /\ LET q == pass[i].for
       IN  \/ /\ ~Open(q) /\ Go(i, "idle")
              /\ UNCHANGED heat
           \/ /\ Open(q)
              /\ heat' = [heat EXCEPT ![q] = IF @ = "none" THEN "seen" ELSE @]
              /\ Go(i, IF signal[q].hot = "yes" /\ Relevant(q) THEN "boost" ELSE "idle")
    /\ UNCHANGED <<tables, plans, announced, history>>

\* Fault: the score is raised again whenever the promotion is looked at again.
RaisedAgain(score) == score + 20
Raised(score) == Max(score, 90)

\* Fault: marked first.
MarkFirst(s) == CASE s = "boost" -> "mark" [] s = "mark" -> "announce" [] OTHER -> "idle"
After(s) == CASE s = "boost" -> "announce" [] s = "announce" -> "mark" [] OTHER -> "idle"

Boost(i) ==
    /\ At(i, "boost")
    /\ signal' = IF Open(pass[i].for)
                 THEN [signal EXCEPT ![pass[i].for].score = Raised(@)] ELSE signal
    /\ Go(i, After("boost"))
    /\ UNCHANGED <<campaign, refused, results, history>>

Announce(i) ==
    /\ At(i, "announce")
    /\ announced' = announced \cup {pass[i].for}
    /\ Go(i, After("announce"))
    /\ UNCHANGED <<tables, plans, heat, history>>

Mark(i) ==
    /\ At(i, "mark")
    /\ heat' = [heat EXCEPT ![pass[i].for] = "triggered"]
    /\ Go(i, After("mark"))
    /\ UNCHANGED <<tables, plans, announced, history>>

Kill(i) ==
    /\ Move /\ ~At(i, "idle")
    /\ torn' = IF At(i, "insert") THEN torn \cup {<<pass[i].with, pass[i].for>>} ELSE torn
    /\ Go(i, "idle")
    /\ UNCHANGED <<tables, results, edited, reports>>
-----------------------------------------------------------------------------
Work(i) ==
    \/ Expiry(i) \/ ReadSignals(i) \/ ReadCampaigns(i) \/ Choose(i)
    \/ ReadCampaign(i) \/ ReadPromotion(i) \/ Insert(i)
    \/ ChooseBurst(i) \/ Evaluate(i) \/ Boost(i) \/ Announce(i) \/ Mark(i)

Next ==
    \/ \E q \in Signal : Cools(q) \/ Handle(q)
    \/ \E q \in Signal, score \in Score, hot \in Heat : Report(q, score, hot)
    \/ \E c \in Campaign : Expires(c)
    \/ \E c \in Campaign, on \in {"yes", "no"}, queries \in Listing : Upsert(c, on, queries)
    \/ \E p \in Routes : Access(p)
    \/ \E i \in Caller, p \in Pair : Call(i, p)
    \/ \E i \in Pass : Start(i) \/ Work(i) \/ Kill(i)

\* The cron comes back, and an invocation that is not killed runs to its end.
Fairness == \A i \in Pass : WF_vars(Start(i)) /\ WF_vars(Work(i))

Spec == Init /\ [][Next]_vars
FairSpec == Spec /\ Fairness
-----------------------------------------------------------------------------
(* Properties.                                                             *)

TypeOK ==
    /\ signal \in [Signal -> [state : {"none", "PENDING", "LEASED", "DONE"},
                              score : {0, 50, 70, 90}, last : 0 .. MaxReports,
                              hot : {"yes", "no"}]]
    /\ campaign \in [Campaign -> [on : {"yes", "no"}, updated : 1 .. MaxMoves + 1,
                                  queries : SUBSET Query]]
    /\ refused \subseteq Routes /\ plans \subseteq Campaign \X Signal \X Query
    /\ heat \in [Signal -> {"none", "seen", "triggered"}] /\ announced \subseteq Signal
    /\ pass \in [Pass -> [step : {"idle", "expiry", "signals", "campaigns", "prior", "campaign",
                                  "promotion", "insert", "burst", "evidence", "boost",
                                  "announce", "mark"},
                          scores : [Signal -> {0, 50, 70, 90}],
                          ages : [Campaign -> 0 .. MaxMoves + 1],
                          with : Campaign \cup {None}, for : 0 .. Signals,
                          todo : SUBSET Query]]
    /\ edited \subseteq Campaign /\ torn \subseteq Pair
    /\ moves \in 0 .. MaxMoves /\ reports \in 0 .. MaxReports

Exact(c, q) == Bounded(campaign[c].queries \cap Window[q])
Planning(c, q) == \E i \in Pass : At(i, "insert") /\ pass[i].with = c /\ pass[i].for = q

\* However many invocations and requests plan the same pair, it gets the plans
\* that its campaign allows and no others; and it gets all of them, as a pair
\* that has one plan is passed over, unless its planner is killed in between.
PlansAreExact ==
    \A c \in Campaign \ edited, q \in Signal :
        /\ PlansOf(c, q) \subseteq Exact(c, q)
        /\ PlansOf(c, q) # {} /\ ~Planning(c, q) /\ <<c, q>> \notin torn =>
              PlansOf(c, q) = Exact(c, q)

\* A promotion that is marked as triggered has been announced, and its row goes
\* first unless it has been settled: the mark keeps it from being looked at again.
BurstIsRaised ==
    \A q \in Signal : heat[q] = "triggered" =>
        q \in announced /\ (signal[q].score = 90 \/ signal[q].state = "DONE")

\* A promotion is looked at only if it is the newest that has not triggered.
Bursting(q) ==
    /\ signal[q].hot = "yes" /\ Relevant(q) /\ Open(q) /\ heat[q] # "triggered"
    /\ \A r \in Signal : Open(r) /\ heat[r] # "triggered" => signal[r].last <= signal[q].last

\* The pairs before p in the order of the planner which it would try in vain.
Hopeless(p) == p \in refused \/ Exact(p[1], p[2]) = {}
InTheWay(p) ==
    \/ p[2] \notin Listed
    \/ Cardinality({c \in Active : campaign[c].updated <= campaign[p[1]].updated}) > CampaignLimit
    \/ \E r \in Routes :
          /\ r[2] \in Listed /\ r[1] \in Active /\ Hopeless(r) /\ PlansOf(r[1], r[2]) = {}
          /\ \/ Before(Scores, r[2], p[2])
             \/ (r[2] = p[2] /\ campaign[r[1]].updated <= campaign[p[1]].updated)

Waiting(p) ==
    /\ p \in Routes /\ signal[p[2]].state = "PENDING" /\ p[1] \in Active
    /\ ~Hopeless(p) /\ PlansOf(p[1], p[2]) = {}

\* A pair that can be planned and has nothing in its way does not wait for ever.
EveryPairIsPlanned == \A p \in Pair : []<>(~Waiting(p) \/ InTheWay(p))

\* The newest promotion, as long as it is hot, does not go unannounced.
NewestIsAnnounced == \A q \in Signal : []<>(~Bursting(q))
=============================================================================
