------------------------- MODULE SearchPlanning_proofs -------------------------
(***************************************************************************)
(* Proofs about SearchPlanning: its type invariant, that a pair gets the   *)
(* plans of its campaign and no others, and that a promotion is marked     *)
(* only when it has been raised and announced.                             *)
(***************************************************************************)
EXTENDS SearchPlanning, TLAPS

Step == {"idle", "expiry", "signals", "campaigns", "prior", "campaign", "promotion", "insert",
         "burst", "evidence", "boost", "announce", "mark"}
Points == {0, 50, 70, 90}
SignalType == [state : {"none", "PENDING", "LEASED", "DONE"}, score : Points,
               last : 0 .. MaxReports, hot : {"yes", "no"}]
CampaignType == [on : {"yes", "no"}, updated : 1 .. MaxMoves + 1, queries : SUBSET Query]
PassType == [step : Step, scores : [Signal -> Points], ages : [Campaign -> 0 .. MaxMoves + 1],
             with : Campaign \cup {None}, for : 0 .. Signals, todo : SUBSET Query]

LEMMA Constants ==
    /\ Signals \in Nat /\ Signal \subseteq Nat /\ Signal \subseteq 0 .. Signals
    /\ Routes \subseteq Pair /\ Window \in [Signal -> SUBSET Query]
    /\ Offered \in [Campaign -> SUBSET Query] /\ Listing \subseteq SUBSET Query
    /\ Score \subseteq {50, 70} /\ Heat \subseteq {"yes", "no"}
    /\ MaxMoves \in Nat /\ MaxReports \in Nat
BY PlanningAssumption DEF Signal

\* TypeOK with a name for each variable's type.
Types ==
    /\ signal \in [Signal -> SignalType]
    /\ campaign \in [Campaign -> CampaignType]
    /\ refused \subseteq Routes /\ plans \subseteq Campaign \X Signal \X Query
    /\ heat \in [Signal -> {"none", "seen", "triggered"}] /\ announced \subseteq Signal
    /\ pass \in [Pass -> PassType]
    /\ edited \subseteq Campaign /\ torn \subseteq Pair
    /\ moves \in 0 .. MaxMoves /\ reports \in 0 .. MaxReports

LEMMA SameTypes == (TypeOK <=> Types) /\ (TypeOK' <=> Types')
BY DEF TypeOK, Types, SignalType, CampaignType, PassType, Step, Points

-----------------------------------------------------------------------------
(* The inductive invariants.                                               *)

InPlanning == {"campaign", "promotion", "insert"}
InBurst == {"evidence", "boost", "announce", "mark"}

\* What plans has a pair in hand, what evaluates a burst has a promotion that
\* has been reported.
Aimed(i) ==
    /\ pass[i].step \in InPlanning => pass[i].with \in Campaign /\ pass[i].for \in Signal
    /\ pass[i].step \in InBurst => pass[i].for \in Signal /\ signal[pass[i].for].state # "none"

AimedInv == TypeOK /\ \A i \in Pass : Aimed(i)

\* A planner works from what its campaign offers, and what it has yet to insert
\* is all that is missing.
PlansFaithfully(i) ==
    \A c \in Campaign \ edited, q \in Signal :
        pass[i].with = c /\ pass[i].for = q =>
           /\ pass[i].step = "promotion" => pass[i].todo = campaign[c].queries
           /\ pass[i].step = "insert" =>
                 pass[i].todo \subseteq Exact(c, q) /\ Exact(c, q) \subseteq PlansOf(c, q) \cup pass[i].todo

IsExact(c, q) ==
    /\ PlansOf(c, q) \subseteq Exact(c, q)
    /\ PlansOf(c, q) # {} /\ ~Planning(c, q) /\ <<c, q>> \notin torn => PlansOf(c, q) = Exact(c, q)

ExactInv ==
    /\ \A i \in Pass : PlansFaithfully(i)
    /\ \A c \in Campaign \ edited, q \in Signal : IsExact(c, q)

IsRaised(q) == signal[q].score = 90 \/ signal[q].state = "DONE"

\* A burst is announced with the row raised, and marked with the intent in place.
RaisesFirst(i) ==
    /\ pass[i].step \in {"announce", "mark"} => IsRaised(pass[i].for)
    /\ pass[i].step = "mark" => pass[i].for \in announced

BurstInv == BurstIsRaised /\ \A i \in Pass : RaisesFirst(i)
-----------------------------------------------------------------------------
(* How passes change.                                                      *)

LEMMA IdleType == Idle \in PassType /\ Idle.step = "idle"
<1>1. /\ NoSignals \in [Signal -> Points] /\ NoCampaigns \in [Campaign -> 0 .. MaxMoves + 1]
      /\ 0 \in 0 .. Signals
  BY Constants DEF NoSignals, NoCampaigns, Points
<1> QED
  BY <1>1 DEF Idle, PassType, Step

\* One pass is given a new record, the others keep theirs.
LEMMA Replaced ==
    ASSUME pass \in [Pass -> PassType], NEW i \in Pass, NEW r \in PassType,
           pass' = [pass EXCEPT ![i] = r]
    PROVE  /\ pass' \in [Pass -> PassType] /\ pass'[i] = r
           /\ \A j \in Pass : j # i => pass'[j] = pass[j]
OBVIOUS

\* A pass that goes on changes its step, or forgets all when it ends.
LEMMA GoTypes ==
    ASSUME pass \in [Pass -> PassType], NEW i \in Pass, NEW s \in Step, Go(i, s)
    PROVE  /\ pass' \in [Pass -> PassType]
           /\ \A j \in Pass : j # i => pass'[j] = pass[j]
           /\ pass'[i].step = s
           /\ s # "idle" => /\ pass'[i].with = pass[i].with /\ pass'[i].for = pass[i].for
                            /\ pass'[i].todo = pass[i].todo
<1> DEFINE next == IF s = "idle" THEN Idle ELSE [pass[i] EXCEPT !.step = s]
<1>1. pass[i] \in PassType
  OBVIOUS
<1>2. [pass[i] EXCEPT !.step = s] \in PassType
  BY <1>1 DEF PassType
<1>3. next \in PassType /\ next.step = s
  BY <1>1, <1>2, IdleType DEF PassType
<1>4. pass' = [pass EXCEPT ![i] = next]
  BY DEF Go
<1>5. s # "idle" => next.with = pass[i].with /\ next.for = pass[i].for /\ next.todo = pass[i].todo
  BY <1>1 DEF PassType
<1> HIDE DEF next
<1> QED
  BY <1>1, <1>3, <1>4, <1>5, Replaced

\* The queries of a plan are queries.
LEMMA BoundedTypes == \A S \in SUBSET Query : Bounded(S) \subseteq S /\ Bounded(S) \in SUBSET Query
BY DEF Bounded

-----------------------------------------------------------------------------
(* Types.                                                                  *)

LEMMA InitAimed == Init => AimedInv
<1> SUFFICES ASSUME Init PROVE Types /\ \A i \in Pass : Aimed(i)
  BY SameTypes DEF AimedInv
<1>1. signal \in [Signal -> SignalType]
  <2>1. 0 \in 0 .. MaxReports /\ 0 \in Points
    BY Constants DEF Points
  <2> QED
    BY <2>1 DEF Init, SignalType
<1>2. campaign \in [Campaign -> CampaignType]
  <2>1. 1 \in 1 .. MaxMoves + 1
    BY Constants
  <2>2. \A c \in Campaign : Offered[c] \in SUBSET Query
    BY Constants
  <2> QED
    BY <2>1, <2>2 DEF Init, CampaignType
<1>3. pass \in [Pass -> PassType] /\ \A i \in Pass : pass[i].step = "idle"
  BY IdleType DEF Init
<1>4. moves \in 0 .. MaxMoves /\ reports \in 0 .. MaxReports
  BY Constants DEF Init
<1> QED
  BY <1>1, <1>2, <1>3, <1>4 DEF Init, Types, Aimed, InPlanning, InBurst

\* What a pass knows after its step, in terms of the rows before it.
Knows(i) ==
    /\ pass'[i].step \in InPlanning => pass'[i].with \in Campaign /\ pass'[i].for \in Signal
    /\ pass'[i].step \in InBurst => pass'[i].for \in Signal /\ signal[pass'[i].for].state # "none"

\* Only the reads and insertions of a planner lead to more of them, and only
\* what has raised a row goes on to announce it, and to mark it.
Follows(i) ==
    /\ pass'[i].step \in {"promotion", "insert"} => ReadCampaign(i) \/ ReadPromotion(i) \/ Insert(i)
    /\ pass'[i].step \in {"announce", "mark"} => Boost(i) \/ Announce(i)

LEMMA PassSteps ==
    ASSUME AimedInv, NEW i \in Pass, Start(i) \/ Work(i) \/ Kill(i)
    PROVE  /\ pass' \in [Pass -> PassType]
           /\ \A j \in Pass : j # i => pass'[j] = pass[j]
           /\ Knows(i) /\ Follows(i)
<1>0. Types /\ Aimed(i) /\ pass[i] \in PassType
  BY SameTypes DEF AimedInv, Types
<1>1. CASE Start(i) \/ Expiry(i) \/ Kill(i)
  <2>1. PICK s \in {"expiry", "signals", "idle"} : Go(i, s)
    BY <1>1 DEF Start, Expiry, Kill
  <2>2. s \in Step /\ s \notin InPlanning /\ s \notin InBurst
    BY DEF Step, InPlanning, InBurst
  <2>3. pass'[i].step = s
    BY <1>0, <2>1, <2>2, GoTypes DEF Types
  <2>4. Follows(i)
    BY <2>1, <2>3 DEF Follows
  <2> QED
    BY <1>0, <2>1, <2>2, <2>3, <2>4, GoTypes DEF Types, Knows
<1>2. CASE ReadSignals(i) \/ ReadCampaigns(i)
  <2>1. PICK r \in PassType : /\ pass' = [pass EXCEPT ![i] = r]
                              /\ r.step \in {"campaigns", "prior"}
    <3>1. CASE ReadSignals(i)
      <4> DEFINE f == [q \in Signal |-> IF q \in Listed THEN signal[q].score ELSE 0]
                 r == [pass[i] EXCEPT !.step = "campaigns", !.scores = f]
      <4>1. f \in [Signal -> Points]
        BY <1>0 DEF Types, SignalType, Points
      <4>2. pass' = [pass EXCEPT ![i] = r]
        BY <3>1 DEF ReadSignals
      <4> HIDE DEF f
      <4>3. r \in PassType /\ r.step = "campaigns"
        BY <1>0, <4>1 DEF PassType, Step
      <4> HIDE DEF r
      <4> QED
        BY <4>2, <4>3
    <3>2. CASE ReadCampaigns(i)
      <4>1. PICK C \in Oldest :
               pass' = [pass EXCEPT ![i] = [pass[i] EXCEPT !.step = "prior",
                        !.ages = [c \in Campaign |-> IF c \in C THEN campaign[c].updated ELSE 0]]]
        BY <3>2 DEF ReadCampaigns
      <4> DEFINE f == [c \in Campaign |-> IF c \in C THEN campaign[c].updated ELSE 0]
                 r == [pass[i] EXCEPT !.step = "prior", !.ages = f]
      <4>2. f \in [Campaign -> 0 .. MaxMoves + 1]
        <5>1. \A c \in Campaign : campaign[c].updated \in 0 .. MaxMoves + 1
          BY <1>0, Constants DEF Types, CampaignType
        <5>2. 0 \in 0 .. MaxMoves + 1
          BY Constants
        <5> QED
          BY <5>1, <5>2
      <4>3. pass' = [pass EXCEPT ![i] = r]
        BY <4>1
      <4> HIDE DEF f
      <4>4. r \in PassType /\ r.step = "prior"
        BY <1>0, <4>2 DEF PassType, Step
      <4> HIDE DEF r
      <4> QED
        BY <4>3, <4>4
    <3> QED
      BY <1>2, <3>1, <3>2
  <2> QED
    BY <1>0, <2>1, Replaced DEF Types, Knows, Follows, InPlanning, InBurst
<1>3. CASE Choose(i)
  <2>1. CASE Go(i, "burst")
    BY <1>0, <2>1, GoTypes DEF Types, Knows, Follows, Step, InPlanning, InBurst
  <2>2. CASE ~Go(i, "burst")
    <3>1. PICK p \in Candidates(i) : pass' = [pass EXCEPT ![i] =
             [Idle EXCEPT !.step = "campaign", !.with = p[1], !.for = p[2]]]
      BY <1>3, <2>2 DEF Choose
    <3>2. p[1] \in Campaign /\ p[2] \in Signal
      BY Constants DEF Candidates, Pair
    <3> DEFINE r == [Idle EXCEPT !.step = "campaign", !.with = p[1], !.for = p[2]]
    <3>3. r \in PassType /\ r.step = "campaign" /\ r.with = p[1] /\ r.for = p[2]
      BY <3>2, Constants, IdleType DEF PassType, Step
    <3> HIDE DEF r
    <3> QED
      BY <1>0, <3>1, <3>2, <3>3, Replaced DEF Types, Knows, Follows, InBurst, r
  <2> QED
    BY <2>1, <2>2
<1>4. CASE ReadCampaign(i)
  <2>1. CASE Go(i, "idle")
    BY <1>0, <2>1, GoTypes DEF Types, Knows, Follows, Step, InPlanning, InBurst
  <2>2. CASE ~Go(i, "idle")
    <3> DEFINE r == [pass[i] EXCEPT !.step = "promotion", !.todo = campaign[pass[i].with].queries]
    <3>1. At(i, "campaign") /\ pass' = [pass EXCEPT ![i] = r]
      BY <1>4, <2>2 DEF ReadCampaign
    <3>2. pass[i].with \in Campaign /\ pass[i].for \in Signal
      BY <1>0, <3>1 DEF At, Aimed, InPlanning
    <3>3. campaign[pass[i].with].queries \in SUBSET Query
      BY <1>0, <3>2 DEF Types, CampaignType
    <3>4. r \in PassType /\ r.step = "promotion" /\ r.with = pass[i].with /\ r.for = pass[i].for
      BY <1>0, <3>3 DEF PassType, Step
    <3> HIDE DEF r
    <3> QED
      BY <1>0, <1>4, <3>1, <3>2, <3>4, Replaced DEF Types, Knows, Follows, InBurst
  <2> QED
    BY <2>1, <2>2
<1>5. CASE ReadPromotion(i)
  <2>0. AfterPlanning(i) \in {"burst", "idle"}
    BY DEF AfterPlanning
  <2>1. CASE Go(i, AfterPlanning(i))
    BY <1>0, <2>0, <2>1, GoTypes DEF Types, Knows, Follows, Step, InPlanning, InBurst
  <2>2. CASE ~Go(i, AfterPlanning(i))
    <3> DEFINE r == [pass[i] EXCEPT !.step = "insert", !.todo = Chosen(i)]
    <3>1. At(i, "promotion") /\ pass' = [pass EXCEPT ![i] = r]
      BY <1>5, <2>2 DEF ReadPromotion
    <3>2. pass[i].with \in Campaign /\ pass[i].for \in Signal
      BY <1>0, <3>1 DEF At, Aimed, InPlanning
    <3>3. Chosen(i) \in SUBSET Query
      <4>1. pass[i].todo \cap Window[pass[i].for] \in SUBSET Query
        BY <1>0 DEF PassType
      <4> QED
        BY <4>1, BoundedTypes DEF Chosen
    <3>4. r \in PassType /\ r.step = "insert" /\ r.with = pass[i].with /\ r.for = pass[i].for
      BY <1>0, <3>3 DEF PassType, Step
    <3> HIDE DEF r
    <3> QED
      BY <1>0, <1>5, <3>1, <3>2, <3>4, Replaced DEF Types, Knows, Follows, InBurst
  <2> QED
    BY <2>1, <2>2
<1>6. CASE Insert(i)
  <2>0. AfterPlanning(i) \in {"burst", "idle"}
    BY DEF AfterPlanning
  <2>1. CASE Go(i, AfterPlanning(i))
    BY <1>0, <2>0, <2>1, GoTypes DEF Types, Knows, Follows, Step, InPlanning, InBurst
  <2>2. CASE ~Go(i, AfterPlanning(i))
    <3>1. PICK x \in pass[i].todo : pass' = [pass EXCEPT ![i].todo = @ \ {x}]
      BY <1>6, <2>2 DEF Insert
    <3> DEFINE r == [pass[i] EXCEPT !.todo = pass[i].todo \ {x}]
    <3>2. pass' = [pass EXCEPT ![i] = r]
      BY <3>1
    <3>3. r \in PassType /\ r.step = pass[i].step /\ r.with = pass[i].with /\ r.for = pass[i].for
      BY <1>0 DEF PassType
    <3>4. At(i, "insert")
      BY <1>6 DEF Insert
    <3>5. pass[i].with \in Campaign /\ pass[i].for \in Signal
      BY <1>0, <3>4 DEF At, Aimed, InPlanning
    <3> HIDE DEF r
    <3> QED
      BY <1>0, <1>6, <3>2, <3>3, <3>4, <3>5, Replaced DEF Types, Knows, Follows, InBurst, At
  <2> QED
    BY <2>1, <2>2
<1>7. CASE ChooseBurst(i)
  <2>1. CASE Go(i, "idle")
    BY <1>0, <2>1, GoTypes DEF Types, Knows, Follows, Step, InPlanning, InBurst
  <2>2. CASE ~Go(i, "idle")
    <3>1. PICK q \in Newest : pass' = [pass EXCEPT ![i] = [Idle EXCEPT !.step = "evidence", !.for = q]]
      BY <1>7, <2>2 DEF ChooseBurst
    <3>2. q \in Signal /\ signal[q].state # "none"
      BY DEF Newest, Untriggered, Open
    <3> DEFINE r == [Idle EXCEPT !.step = "evidence", !.for = q]
    <3>3. r \in PassType /\ r.step = "evidence" /\ r.for = q
      BY <3>2, Constants, IdleType DEF PassType, Step
    <3> HIDE DEF r
    <3> QED
      BY <1>0, <3>1, <3>2, <3>3, Replaced DEF Types, Knows, Follows, InPlanning, r
  <2> QED
    BY <2>1, <2>2
<1>8. CASE Evaluate(i) \/ Boost(i) \/ Announce(i) \/ Mark(i)
  <2>1. PICK s \in {"idle", "boost", "announce", "mark"} : Go(i, s)
    <3>1. CASE Evaluate(i)
      <4>1. PICK t \in {"boost", "idle"} : Go(i, t)
        BY <3>1 DEF Evaluate
      <4> QED
        BY <4>1
    <3>2. CASE Boost(i) \/ Announce(i) \/ Mark(i)
      BY <1>8, <3>2 DEF Boost, Announce, Mark, After
    <3> QED
      BY <1>8, <3>1, <3>2
  <2>2. pass[i].for \in Signal /\ signal[pass[i].for].state # "none"
    BY <1>0, <1>8 DEF Evaluate, Boost, Announce, Mark, At, Aimed, InBurst
  <2>3. s \in Step /\ s \notin InPlanning
    BY DEF Step, InPlanning
  <2>4. pass'[i].step = s /\ (s # "idle" => pass'[i].for = pass[i].for)
    BY <1>0, <2>1, <2>3, GoTypes DEF Types
  <2>5. Follows(i)
    <3>1. CASE Evaluate(i)
      <4>1. \A t \in {"boost", "idle"} : Go(i, t) => pass'[i].step = t
        BY <1>0, GoTypes DEF Types, Step
      <4>2. \E t \in {"boost", "idle"} : Go(i, t)
        BY <3>1 DEF Evaluate
      <4> QED
        BY <4>1, <4>2 DEF Follows
    <3>2. CASE Boost(i) \/ Announce(i) \/ Mark(i)
      <4>1. Mark(i) => pass'[i].step = "idle"
        BY <1>0, GoTypes DEF Types, Step, Mark, After
      <4> QED
        BY <2>3, <2>4, <3>2, <4>1 DEF Follows, InPlanning
    <3> QED
      BY <1>8, <3>1, <3>2
  <2> QED
    BY <1>0, <2>1, <2>2, <2>3, <2>4, <2>5, GoTypes DEF Types, Knows, InBurst
<1> QED
  BY <1>1, <1>2, <1>3, <1>4, <1>5, <1>6, <1>7, <1>8 DEF Work

LEMMA CallSteps ==
    ASSUME AimedInv, NEW i \in Caller, NEW p \in Pair, Call(i, p)
    PROVE  /\ pass' \in [Pass -> PassType] /\ i \in Pass
           /\ \A j \in Pass : j # i => pass'[j] = pass[j]
           /\ pass'[i].step = "campaign" /\ Knows(i)
<1>1. i \in Pass /\ p[1] \in Campaign /\ p[2] \in Signal
  BY DEF Pass, Pair
<1> DEFINE r == [Idle EXCEPT !.step = "campaign", !.with = p[1], !.for = p[2]]
<1>2. r \in PassType /\ r.step = "campaign" /\ r.with = p[1] /\ r.for = p[2]
  BY <1>1, Constants, IdleType DEF PassType, Step
<1>3. pass' = [pass EXCEPT ![i] = r]
  BY DEF Call
<1> HIDE DEF r
<1>4. pass' \in [Pass -> PassType] /\ pass'[i] = r /\ \A j \in Pass : j # i => pass'[j] = pass[j]
  BY <1>1, <1>2, <1>3, Replaced, SameTypes DEF AimedInv, Types
<1> QED
  BY <1>1, <1>2, <1>4 DEF Knows, InBurst

\* Rows of the queue: they keep their type, do not vanish, and stay settled.
SignalMoves ==
    /\ signal' \in [Signal -> SignalType]
    /\ \A q \in Signal : /\ signal[q].state # "none" => signal'[q].state # "none"
                         /\ IsRaised(q) => IsRaised(q)'

LEMMA Raising == \A a \in Points : Raised(a) \in Points /\ Raised(a) = 90
BY DEF Raised, Max, Points

LEMMA SignalSteps == Types /\ (\A i \in Pass : Aimed(i)) /\ [Next]_vars => SignalMoves
<1> SUFFICES ASSUME Types, \A i \in Pass : Aimed(i), [Next]_vars PROVE SignalMoves
  OBVIOUS
<1>0. signal \in [Signal -> SignalType]
  BY DEF Types
<1>1. ASSUME NEW q \in Signal, NEW score \in Score, NEW hot \in Heat, Report(q, score, hot)
      PROVE  SignalMoves
  <2> DEFINE r == [state |-> IF signal[q].state = "none" THEN "PENDING" ELSE signal[q].state,
                   score |-> Max(signal[q].score, score), last |-> reports + 1, hot |-> hot]
  <2>1. signal' = [signal EXCEPT ![q] = r]
    BY <1>1 DEF Report
  <2>2. Max(signal[q].score, score) \in Points /\ (signal[q].score = 90 => Max(signal[q].score, score) = 90)
    <3>1. signal[q].score \in Points /\ score \in {50, 70}
      BY <1>0, Constants DEF SignalType
    <3> QED
      BY <3>1 DEF Points, Max
  <2>3. reports + 1 \in 0 .. MaxReports
    BY <1>1, Constants DEF Report, Types
  <2>4. signal[q].state \in {"none", "PENDING", "LEASED", "DONE"} /\ hot \in {"yes", "no"}
    BY <1>0, Constants DEF SignalType
  <2>5. r \in SignalType
    BY <2>2, <2>3, <2>4 DEF SignalType
  <2>6. /\ signal[q].state # "none" => r.state = signal[q].state
        /\ r.state # "none"
        /\ signal[q].score = 90 => r.score = 90
    BY <2>2
  <2> HIDE DEF r
  <2> QED
    BY <1>0, <2>1, <2>5, <2>6 DEF SignalMoves, IsRaised
<1>2. ASSUME NEW q \in Signal, Cools(q) PROVE SignalMoves
  <2> DEFINE r == [signal[q] EXCEPT !.hot = "no"]
  <2>1. signal' = [signal EXCEPT ![q] = r]
    BY <1>2 DEF Cools
  <2>2. r \in SignalType /\ r.state = signal[q].state /\ r.score = signal[q].score
    BY <1>0 DEF SignalType
  <2> HIDE DEF r
  <2> QED
    BY <1>0, <2>1, <2>2 DEF SignalMoves, IsRaised
<1>3. ASSUME NEW q \in Signal, Handle(q) PROVE SignalMoves
  <2>1. PICK next \in {<<"PENDING", "LEASED">>, <<"LEASED", "PENDING">>, <<"LEASED", "DONE">>} :
           signal[q].state = next[1] /\ signal' = [signal EXCEPT ![q].state = next[2]]
    BY <1>3 DEF Handle
  <2> DEFINE r == [signal[q] EXCEPT !.state = next[2]]
  <2>2. signal' = [signal EXCEPT ![q] = r]
    BY <2>1
  <2>3. next[2] \in {"PENDING", "LEASED", "DONE"} /\ signal[q].state # "DONE"
    BY <2>1
  <2>4. r \in SignalType /\ r.state # "none" /\ r.score = signal[q].score
    BY <1>0, <2>3 DEF SignalType
  <2> HIDE DEF r
  <2> QED
    BY <1>0, <2>2, <2>3, <2>4 DEF SignalMoves, IsRaised
<1>4. ASSUME NEW i \in Pass, Boost(i) PROVE SignalMoves
  <2>1. CASE signal' = signal
    BY <1>0, <2>1 DEF SignalMoves, IsRaised
  <2>2. CASE signal' # signal
    <3> DEFINE q == pass[i].for
               r == [signal[q] EXCEPT !.score = Raised(signal[q].score)]
    <3>1. q \in Signal
      BY <1>4 DEF Boost, At, Aimed, InBurst
    <3>2. signal' = [signal EXCEPT ![q] = r]
      BY <1>4, <2>2 DEF Boost
    <3>3. Raised(signal[q].score) \in Points /\ Raised(signal[q].score) = 90
      BY <1>0, <3>1, Raising DEF SignalType
    <3>4. r \in SignalType /\ r.state = signal[q].state /\ r.score = 90
      BY <1>0, <3>1, <3>3 DEF SignalType
    <3> HIDE DEF r, q
    <3> QED
      BY <1>0, <3>1, <3>2, <3>4 DEF SignalMoves, IsRaised
  <2> QED
    BY <2>1, <2>2
<1>5. CASE signal' = signal
  BY <1>0, <1>5 DEF SignalMoves, IsRaised
<1>6. CASE signal' # signal
  <2>1. \/ \E q \in Signal, score \in Score, hot \in Heat : Report(q, score, hot)
        \/ \E q \in Signal : Cools(q) \/ Handle(q)
        \/ \E i \in Pass : Boost(i)
    BY <1>6 DEF Next, vars, Work, Expires, Upsert, Access, Call, Start, Expiry, ReadSignals,
                ReadCampaigns, Choose, ReadCampaign, ReadPromotion, Insert, ChooseBurst, Evaluate,
                Announce, Mark, Kill, tables
  <2> QED
    BY <1>1, <1>2, <1>3, <1>4, <2>1
<1> QED
  BY <1>5, <1>6

\* Campaigns keep their type, and those that nobody edits what they offer.
CampaignMoves ==
    /\ campaign' \in [Campaign -> CampaignType]
    /\ edited \subseteq edited'
    /\ \A c \in Campaign \ edited' : campaign'[c].queries = campaign[c].queries

LEMMA CampaignSteps == Types /\ [Next]_vars => CampaignMoves
<1> SUFFICES ASSUME Types, [Next]_vars PROVE CampaignMoves
  OBVIOUS
<1>0. campaign \in [Campaign -> CampaignType]
  BY DEF Types
<1>1. ASSUME NEW c \in Campaign, NEW on \in {"yes", "no"}, NEW queries \in Listing,
             Upsert(c, on, queries)
      PROVE  CampaignMoves
  <2> DEFINE r == [on |-> on, updated |-> moves + 2, queries |-> queries]
  <2>1. campaign' = [campaign EXCEPT ![c] = r] /\ edited' = edited \cup {c}
    BY <1>1 DEF Upsert
  <2>2. moves + 2 \in 1 .. MaxMoves + 1
    BY <1>1, Constants DEF Upsert, Move, Types
  <2>3. r \in CampaignType
    BY <2>2, Constants DEF CampaignType
  <2> HIDE DEF r
  <2> QED
    BY <1>0, <2>1, <2>3 DEF CampaignMoves
<1>2. ASSUME NEW c \in Campaign, Expires(c) PROVE CampaignMoves
  <2> DEFINE r == [campaign[c] EXCEPT !.on = "no"]
  <2>1. campaign' = [campaign EXCEPT ![c] = r] /\ edited' = edited
    BY <1>2 DEF Expires
  <2>2. r \in CampaignType /\ r.queries = campaign[c].queries
    BY <1>0 DEF CampaignType
  <2> HIDE DEF r
  <2> QED
    BY <1>0, <2>1, <2>2 DEF CampaignMoves
<1>3. CASE UNCHANGED <<campaign, edited>>
  BY <1>0, <1>3 DEF CampaignMoves
<1>4. CASE ~UNCHANGED <<campaign, edited>>
  <2>1. \/ \E c \in Campaign, on \in {"yes", "no"}, queries \in Listing : Upsert(c, on, queries)
        \/ \E c \in Campaign : Expires(c)
    BY <1>4 DEF Next, vars, Work, Report, Cools, Handle, Access, Call, Start, Expiry, ReadSignals,
                ReadCampaigns, Choose, ReadCampaign, ReadPromotion, Insert, ChooseBurst, Evaluate,
                Boost, Announce, Mark, Kill, tables, history
  <2> QED
    BY <1>1, <1>2, <2>1
<1> QED
  BY <1>3, <1>4

LEMMA NextAimed == AimedInv /\ [Next]_vars => AimedInv'
<1> SUFFICES ASSUME AimedInv, [Next]_vars PROVE AimedInv'
  OBVIOUS
<1>0. Types /\ (\A i \in Pass : Aimed(i)) /\ SignalMoves /\ CampaignMoves
  BY SameTypes, SignalSteps, CampaignSteps DEF AimedInv
<1>1. ASSUME NEW i \in Pass, pass'[i] = pass[i] PROVE Aimed(i)'
  BY <1>0, <1>1 DEF Aimed, SignalMoves
<1>2. ASSUME NEW i \in Pass, Knows(i) PROVE Aimed(i)'
  BY <1>0, <1>2 DEF Aimed, Knows, SignalMoves
<1>3. pass' \in [Pass -> PassType] /\ \A i \in Pass : Aimed(i)'
  <2>1. CASE \E i \in Pass : Start(i) \/ Work(i) \/ Kill(i)
    <3>1. PICK i \in Pass : Start(i) \/ Work(i) \/ Kill(i)
      BY <2>1
    <3>2. /\ pass' \in [Pass -> PassType] /\ Knows(i)
          /\ \A j \in Pass : j # i => pass'[j] = pass[j]
      BY <3>1, PassSteps
    <3> QED
      BY <1>1, <1>2, <3>2
  <2>2. CASE \E i \in Caller, p \in Pair : Call(i, p)
    <3>1. PICK i \in Caller, p \in Pair : Call(i, p)
      BY <2>2
    <3>2. /\ pass' \in [Pass -> PassType] /\ i \in Pass /\ Knows(i)
          /\ \A j \in Pass : j # i => pass'[j] = pass[j]
      BY <3>1, CallSteps
    <3> QED
      BY <1>1, <1>2, <3>2
  <2>3. CASE pass' = pass
    BY <1>0, <1>1, <2>3 DEF Types
  <2> QED
    BY <2>1, <2>2, <2>3 DEF Next, vars, Report, Cools, Handle, Upsert, Expires, Access
<1>4. refused' \subseteq Routes
  <2>1. CASE refused' = refused
    BY <1>0, <2>1 DEF Types
  <2>2. CASE \E p \in Routes : Access(p)
    BY <1>0, <2>2 DEF Types, Access
  <2> QED
    BY <2>1, <2>2 DEF Next, vars, Work, Report, Cools, Handle, Upsert, Expires, Call, Start, Expiry,
       ReadSignals, ReadCampaigns, Choose, ReadCampaign, ReadPromotion, Insert, ChooseBurst, Evaluate,
       Boost, Announce, Mark, Kill, tables
<1>5. plans' \subseteq Campaign \X Signal \X Query
  <2>1. CASE plans' = plans
    BY <1>0, <2>1 DEF Types
  <2>2. ASSUME NEW i \in Pass, Insert(i), plans' # plans
        PROVE  plans' \subseteq Campaign \X Signal \X Query
    <3>1. PICK x \in pass[i].todo : plans' = plans \cup {<<pass[i].with, pass[i].for, x>>}
      BY <2>2 DEF Insert
    <3>2. pass[i].todo \subseteq Query /\ pass[i].with \in Campaign /\ pass[i].for \in Signal
      BY <1>0, <2>2 DEF Insert, At, Types, PassType, Aimed, InPlanning
    <3> QED
      BY <1>0, <3>1, <3>2 DEF Types
  <2> QED
    BY <2>1, <2>2 DEF Next, vars, Work, Report, Cools, Handle, Upsert, Expires, Access, Call, Start,
       Expiry, ReadSignals, ReadCampaigns, Choose, ReadCampaign, ReadPromotion, ChooseBurst, Evaluate,
       Boost, Announce, Mark, Kill, results
<1>6. heat' \in [Signal -> {"none", "seen", "triggered"}] /\ announced' \subseteq Signal
  <2>1. CASE UNCHANGED <<heat, announced>>
    BY <1>0, <2>1 DEF Types
  <2>2. ASSUME NEW i \in Pass, Evaluate(i) \/ Announce(i) \/ Mark(i)
        PROVE  heat' \in [Signal -> {"none", "seen", "triggered"}] /\ announced' \subseteq Signal
    <3>1. pass[i].for \in Signal
      BY <1>0, <2>2 DEF Evaluate, Announce, Mark, At, Aimed, InBurst
    <3> QED
      BY <1>0, <2>2, <3>1 DEF Evaluate, Announce, Mark, Types
  <2> QED
    BY <2>1, <2>2 DEF Next, vars, Work, Report, Cools, Handle, Upsert, Expires, Access, Call, Start,
       Expiry, ReadSignals, ReadCampaigns, Choose, ReadCampaign, ReadPromotion, Insert, ChooseBurst,
       Boost, Kill, results
<1>7. edited' \subseteq Campaign /\ torn' \subseteq Pair
  <2>1. CASE \E c \in Campaign, on \in {"yes", "no"}, queries \in Listing : Upsert(c, on, queries)
    BY <1>0, <2>1 DEF Upsert, Types
  <2>2. CASE \E i \in Pass : Kill(i)
    BY <1>0, <2>2 DEF Kill, Types, Aimed, At, InPlanning, Pair
  <2>3. CASE UNCHANGED <<edited, torn>>
    BY <1>0, <2>3 DEF Types
  <2> QED
    BY <2>1, <2>2, <2>3 DEF Next, vars, Work, Report, Cools, Handle, Expires, Access, Call, Start,
       Expiry, ReadSignals, ReadCampaigns, Choose, ReadCampaign, ReadPromotion, Insert, ChooseBurst,
       Evaluate, Boost, Announce, Mark, history
<1>8. moves' \in 0 .. MaxMoves /\ reports' \in 0 .. MaxReports
  <2>1. moves' = moves \/ Move
    BY DEF Next, vars, Work, Report, Cools, Handle, Upsert, Expires, Access, Call, Start,
       Expiry, ReadSignals, ReadCampaigns, Choose, ReadCampaign, ReadPromotion, Insert, ChooseBurst,
       Evaluate, Boost, Announce, Mark, Kill, history
  <2>2. reports' = reports \/ (reports < MaxReports /\ reports' = reports + 1)
    BY DEF Next, vars, Work, Report, Cools, Handle, Upsert, Expires, Access, Call, Start,
       Expiry, ReadSignals, ReadCampaigns, Choose, ReadCampaign, ReadPromotion, Insert, ChooseBurst,
       Evaluate, Boost, Announce, Mark, Kill, history
  <2>3. moves' \in 0 .. MaxMoves
    BY <1>0, <2>1, Constants DEF Types, Move
  <2>4. reports' \in 0 .. MaxReports
    BY <1>0, <2>2, Constants DEF Types
  <2> QED
    BY <2>3, <2>4
<1>9. Types'
  BY <1>0, <1>3, <1>4, <1>5, <1>6, <1>7, <1>8 DEF Types, SignalMoves, CampaignMoves
<1> QED
  BY <1>3, <1>9, SameTypes DEF AimedInv

\* Whatever overlaps or is killed, the state of planning and bursts stays within
\* its types, and no step looks up a pair or a promotion that is not there.
THEOREM TypeCorrect == Spec => []TypeOK
<1>1. AimedInv => TypeOK
  BY DEF AimedInv
<1> QED
  BY InitAimed, NextAimed, <1>1, PTL DEF Spec

-----------------------------------------------------------------------------
(* Bursts.                                                                 *)

LEMMA InitBurst == Init => BurstInv
BY DEF Init, BurstInv, BurstIsRaised, RaisesFirst, Idle

LEMMA NextBurst == AimedInv /\ BurstInv /\ [Next]_vars => BurstInv'
<1> SUFFICES ASSUME AimedInv, BurstInv, [Next]_vars PROVE BurstInv'
  OBVIOUS
<1>0. Types /\ (\A i \in Pass : Aimed(i)) /\ SignalMoves
  BY SameTypes, SignalSteps DEF AimedInv
<1>1. announced \subseteq announced'
  BY DEF Next, vars, Work, Report, Cools, Handle, Upsert, Expires, Access, Call, Start, Expiry,
     ReadSignals, ReadCampaigns, Choose, ReadCampaign, ReadPromotion, Insert, ChooseBurst, Evaluate,
     Boost, Announce, Mark, Kill, results
<1>2. ASSUME NEW q \in Signal, heat'[q] = "triggered", heat[q] # "triggered"
      PROVE  q \in announced' /\ IsRaised(q)'
  <2>1. PICK i \in Pass : Mark(i) /\ pass[i].for = q
    <3>1. PICK i \in Pass : Evaluate(i) \/ Mark(i)
      BY <1>2 DEF Next, vars, Work, Report, Cools, Handle, Upsert, Expires, Access, Call, Start, Expiry,
         ReadSignals, ReadCampaigns, Choose, ReadCampaign, ReadPromotion, Insert, ChooseBurst,
         Boost, Announce, Kill, results
    <3>2. ~Evaluate(i)
      BY <1>0, <1>2 DEF Evaluate, Types
    <3>3. Mark(i)
      BY <3>1, <3>2
    <3> QED
      BY <1>0, <1>2, <3>3 DEF Mark, Types
  <2>2. IsRaised(q) /\ q \in announced
    BY <2>1 DEF BurstInv, RaisesFirst, Mark, At
  <2> QED
    BY <1>0, <1>1, <2>2 DEF SignalMoves
<1>3. BurstIsRaised'
  <2>1. ASSUME NEW q \in Signal, heat[q] = "triggered" PROVE q \in announced /\ IsRaised(q)
    BY <2>1 DEF BurstInv, BurstIsRaised, IsRaised
  <2> QED
    BY <1>0, <1>1, <1>2, <2>1 DEF BurstIsRaised, SignalMoves, IsRaised
<1>4. ASSUME NEW i \in Pass, pass'[i] = pass[i] PROVE RaisesFirst(i)'
  <2>1. pass[i].step \in {"announce", "mark"} => pass[i].for \in Signal
    BY <1>0 DEF Aimed, InBurst
  <2> QED
    BY <1>0, <1>1, <1>4, <2>1 DEF BurstInv, RaisesFirst, SignalMoves
<1>5. ASSUME NEW i \in Pass, pass'[i].step \notin {"announce", "mark"} PROVE RaisesFirst(i)'
  BY <1>5 DEF RaisesFirst
<1>6. ASSUME NEW i \in Pass, Boost(i) PROVE RaisesFirst(i)'
  <2>1. pass[i].for \in Signal /\ signal[pass[i].for].state # "none"
    BY <1>0, <1>6 DEF Boost, At, Aimed, InBurst
  <2>2. pass'[i].step = "announce" /\ pass'[i].for = pass[i].for
    BY <1>0, <1>6, GoTypes DEF Boost, After, Step, Types
  <2>3. signal'[pass[i].for].score = 90 \/ signal'[pass[i].for].state = "DONE"
    <3>1. CASE Open(pass[i].for)
      <4>1. signal' = [signal EXCEPT ![pass[i].for].score = Raised(signal[pass[i].for].score)]
        BY <1>6, <3>1 DEF Boost
      <4>2. signal[pass[i].for] \in SignalType /\ Raised(signal[pass[i].for].score) = 90
        BY <1>0, <2>1, Raising DEF Types, SignalType
      <4>3. signal'[pass[i].for].score = 90
        BY <1>0, <2>1, <4>1, <4>2 DEF Types, SignalType
      <4> QED
        BY <4>3
    <3>2. CASE ~Open(pass[i].for)
      <4>1. signal' = signal /\ signal[pass[i].for].state = "DONE"
        BY <1>0, <1>6, <2>1, <3>2 DEF Boost, Open, Types, SignalType
      <4> QED
        BY <4>1
    <3> QED
      BY <3>1, <3>2
  <2> QED
    BY <2>2, <2>3 DEF RaisesFirst, IsRaised
<1>7. ASSUME NEW i \in Pass, Announce(i) PROVE RaisesFirst(i)'
  <2>1. pass[i].for \in Signal /\ IsRaised(pass[i].for)
    BY <1>0, <1>7 DEF Announce, At, Aimed, InBurst, BurstInv, RaisesFirst
  <2>2. pass'[i].step = "mark" /\ pass'[i].for = pass[i].for
    BY <1>0, <1>7, GoTypes DEF Announce, After, Step, Types
  <2>3. signal' = signal /\ pass[i].for \in announced'
    BY <1>7 DEF Announce, tables
  <2> QED
    BY <2>1, <2>2, <2>3 DEF RaisesFirst, IsRaised
<1>8. ASSUME NEW i \in Pass PROVE RaisesFirst(i)'
  <2>1. CASE \E j \in Pass : Start(j) \/ Work(j) \/ Kill(j)
    <3>1. PICK j \in Pass : Start(j) \/ Work(j) \/ Kill(j)
      BY <2>1
    <3>2. CASE i # j
      BY <1>4, <3>1, <3>2, PassSteps
    <3>3. CASE i = j /\ ~Boost(i) /\ ~Announce(i)
      BY <1>5, <3>1, <3>3, PassSteps DEF Follows
    <3> QED
      BY <1>6, <1>7, <3>2, <3>3
  <2>2. CASE pass' = pass
    BY <1>4, <2>2
  <2>3. CASE \E j \in Caller, p \in Pair : Call(j, p)
    <3>1. PICK j \in Caller, p \in Pair : Call(j, p)
      BY <2>3
    <3>2. pass'[i] = pass[i] \/ pass'[i].step = "campaign"
      BY <1>0, <3>1, CallSteps
    <3> QED
      BY <1>4, <1>5, <3>2
  <2> QED
    BY <2>1, <2>2, <2>3 DEF Next, vars, Report, Cools, Handle, Upsert, Expires, Access
<1> QED
  BY <1>3, <1>8 DEF BurstInv

\* However passes overlap or are killed, a promotion marked as triggered has an
\* intent that announces it and, unless it is settled, the rank that goes first.
THEOREM BurstsAreRaised == Spec => []BurstIsRaised
<1>1. BurstInv => BurstIsRaised
  BY DEF BurstInv
<1> QED
  BY InitAimed, NextAimed, InitBurst, NextBurst, <1>1, PTL DEF Spec

-----------------------------------------------------------------------------
(* Plans.                                                                  *)

LEMMA InitExact == Init => ExactInv
BY DEF Init, ExactInv, PlansFaithfully, IsExact, PlansOf, Idle

\* One query is inserted, or there is none left and the planner is done.
LEMMA InsertSteps ==
    ASSUME AimedInv, NEW i \in Pass, Insert(i)
    PROVE  /\ pass[i].with \in Campaign /\ pass[i].for \in Signal /\ pass[i].step = "insert"
           /\ \/ /\ pass[i].todo = {} /\ plans' = plans
                 /\ pass'[i].step \in {"burst", "idle"}
              \/ \E x \in pass[i].todo :
                    /\ plans' = plans \cup {<<pass[i].with, pass[i].for, x>>}
                    /\ pass'[i] = [pass[i] EXCEPT !.todo = pass[i].todo \ {x}]
<1>0. pass \in [Pass -> PassType] /\ pass[i] \in PassType /\ Aimed(i)
  BY SameTypes DEF AimedInv, Types
<1>1. pass[i].with \in Campaign /\ pass[i].for \in Signal /\ pass[i].step = "insert"
  BY <1>0 DEF Insert, At, Aimed, InPlanning
<1>2. CASE pass[i].todo = {} /\ Go(i, AfterPlanning(i)) /\ plans' = plans
  <2>1. AfterPlanning(i) \in {"burst", "idle"} /\ AfterPlanning(i) \in Step
    BY DEF AfterPlanning, Step
  <2> QED
    BY <1>0, <1>1, <1>2, <2>1, GoTypes
<1>3. CASE \E x \in pass[i].todo : /\ plans' = plans \cup {<<pass[i].with, pass[i].for, x>>}
                                   /\ pass' = [pass EXCEPT ![i].todo = @ \ {x}]
  BY <1>0, <1>1, <1>3
<1> QED
  BY <1>2, <1>3 DEF Insert

\* A planner between two plans goes on with the next, or is killed.
LEMMA InsertOrKill ==
    ASSUME AimedInv, [Next]_vars, NEW i \in Pass, pass[i].step = "insert", pass'[i] # pass[i]
    PROVE  Insert(i) \/ Kill(i)
<1>1. CASE \E j \in Pass : Start(j) \/ Work(j) \/ Kill(j)
  <2>1. PICK j \in Pass : Start(j) \/ Work(j) \/ Kill(j)
    BY <1>1
  <2>2. i = j
    BY <2>1, PassSteps
  <2> QED
    BY <2>1, <2>2 DEF Start, Work, Expiry, ReadSignals, ReadCampaigns, Choose, ReadCampaign,
       ReadPromotion, ChooseBurst, Evaluate, Boost, Announce, Mark, At
<1>2. CASE \E j \in Caller, p \in Pair : Call(j, p)
  <2>1. PICK j \in Caller, p \in Pair : Call(j, p)
    BY <1>2
  <2>2. i = j
    BY <2>1, CallSteps
  <2> QED
    BY <2>1, <2>2 DEF Call, At
<1>3. CASE pass' = pass
  BY <1>3
<1> QED
  BY <1>1, <1>2, <1>3 DEF Next, vars, Report, Cools, Handle, Upsert, Expires, Access

\* Plans are not taken back, and appear only by an insertion.
LEMMA PlanSteps ==
    ASSUME AimedInv, [Next]_vars, NEW c \in Campaign, NEW q \in Signal
    PROVE  /\ PlansOf(c, q) \subseteq PlansOf(c, q)'
           /\ \/ PlansOf(c, q)' = PlansOf(c, q)
              \/ \E i \in Pass : /\ pass[i].step = "insert" /\ pass[i].with = c /\ pass[i].for = q
                                 /\ pass'[i].step = "insert"
                                 /\ pass'[i].with = c /\ pass'[i].for = q
                                 /\ \E x \in pass[i].todo : PlansOf(c, q)' = PlansOf(c, q) \cup {x}
<1>1. CASE plans' = plans
  BY <1>1 DEF PlansOf
<1>2. CASE plans' # plans
  <2>1. PICK i \in Pass : Insert(i)
    BY <1>2 DEF Next, vars, Work, Report, Cools, Handle, Upsert, Expires, Access, Call, Start,
       Expiry, ReadSignals, ReadCampaigns, Choose, ReadCampaign, ReadPromotion, ChooseBurst, Evaluate,
       Boost, Announce, Mark, Kill, results
  <2>2. PICK x \in pass[i].todo :
           /\ plans' = plans \cup {<<pass[i].with, pass[i].for, x>>}
           /\ pass'[i] = [pass[i] EXCEPT !.todo = pass[i].todo \ {x}]
    BY <1>2, <2>1, InsertSteps
  <2>3. pass[i] \in PassType /\ x \in Query /\ pass[i].step = "insert"
    BY <2>1, InsertSteps, SameTypes DEF AimedInv, Types, PassType
  <2>4. pass'[i].step = "insert" /\ pass'[i].with = pass[i].with /\ pass'[i].for = pass[i].for
    BY <2>2, <2>3 DEF PassType
  <2>5. CASE pass[i].with = c /\ pass[i].for = q
    BY <2>2, <2>3, <2>4, <2>5 DEF PlansOf
  <2>6. CASE ~(pass[i].with = c /\ pass[i].for = q)
    BY <2>2, <2>6 DEF PlansOf
  <2> QED
    BY <2>5, <2>6
<1> QED
  BY <1>1, <1>2

LEMMA NextFaithful ==
    ASSUME AimedInv, ExactInv, [Next]_vars, NEW i \in Pass
    PROVE  PlansFaithfully(i)'
<1>0. Types /\ CampaignMoves /\ pass[i] \in PassType
  BY SameTypes, CampaignSteps DEF AimedInv, Types
<1> SUFFICES ASSUME NEW c \in Campaign \ edited', NEW q \in Signal,
                    pass'[i].with = c, pass'[i].for = q
             PROVE  /\ pass'[i].step = "promotion" => pass'[i].todo = campaign'[c].queries
                    /\ pass'[i].step = "insert" =>
                          /\ pass'[i].todo \subseteq Exact(c, q)'
                          /\ Exact(c, q)' \subseteq PlansOf(c, q)' \cup pass'[i].todo
  BY DEF PlansFaithfully
<1>1. c \in Campaign \ edited /\ campaign'[c].queries = campaign[c].queries
  BY <1>0 DEF CampaignMoves
<1>2. Exact(c, q)' = Exact(c, q) /\ PlansOf(c, q) \subseteq PlansOf(c, q)'
  BY <1>1, PlanSteps DEF Exact
<1>3. pass[i].with = c /\ pass[i].for = q =>
         /\ pass[i].step = "promotion" => pass[i].todo = campaign[c].queries
         /\ pass[i].step = "insert" =>
               pass[i].todo \subseteq Exact(c, q) /\ Exact(c, q) \subseteq PlansOf(c, q) \cup pass[i].todo
  BY <1>1 DEF ExactInv, PlansFaithfully
<1>4. CASE pass'[i] = pass[i]
  BY <1>1, <1>2, <1>3, <1>4
<1>5. CASE pass'[i].step \notin {"promotion", "insert"}
  BY <1>5
<1>6. CASE ReadCampaign(i) /\ pass'[i].step \in {"promotion", "insert"}
  <2>1. ~Go(i, "idle")
    BY <1>0, <1>6, GoTypes DEF Types, Step
  <2>2. pass' = [pass EXCEPT ![i] = [pass[i] EXCEPT !.step = "promotion",
                                                    !.todo = campaign[pass[i].with].queries]]
    BY <1>6, <2>1 DEF ReadCampaign
  <2>3. /\ pass'[i].step = "promotion" /\ pass'[i].with = pass[i].with
        /\ pass'[i].todo = campaign[pass[i].with].queries
    BY <1>0, <2>2 DEF Types, PassType
  <2> QED
    BY <1>1, <2>3
<1>7. CASE ReadPromotion(i) /\ pass'[i].step \in {"promotion", "insert"}
  <2>1. AfterPlanning(i) \in {"burst", "idle"} /\ AfterPlanning(i) \in Step
    BY DEF AfterPlanning, Step
  <2>2. ~Go(i, AfterPlanning(i))
    BY <1>0, <1>7, <2>1, GoTypes DEF Types
  <2>3. /\ pass' = [pass EXCEPT ![i] = [pass[i] EXCEPT !.step = "insert", !.todo = Chosen(i)]]
        /\ pass[i].step = "promotion"
    BY <1>7, <2>2 DEF ReadPromotion, At
  <2>4. /\ pass'[i].step = "insert" /\ pass'[i].todo = Chosen(i)
        /\ pass'[i].with = pass[i].with /\ pass'[i].for = pass[i].for
    BY <1>0, <2>3 DEF Types, PassType
  <2>5. Chosen(i) = Exact(c, q)
    BY <1>3, <2>3, <2>4 DEF Chosen, Exact
  <2> QED
    BY <1>2, <2>4, <2>5
<1>8. CASE Insert(i) /\ pass'[i].step \in {"promotion", "insert"}
  <2>1. PICK x \in pass[i].todo :
           /\ plans' = plans \cup {<<pass[i].with, pass[i].for, x>>}
           /\ pass'[i] = [pass[i] EXCEPT !.todo = pass[i].todo \ {x}]
    BY <1>8, InsertSteps
  <2>2. /\ pass'[i].todo = pass[i].todo \ {x} /\ pass'[i].step = "insert" /\ pass[i].step = "insert"
        /\ pass[i].with = c /\ pass[i].for = q /\ x \in Query
    BY <1>0, <1>8, <2>1, InsertSteps DEF PassType
  <2>3. x \in PlansOf(c, q)'
    BY <2>1, <2>2 DEF PlansOf
  <2> QED
    BY <1>2, <1>3, <2>2, <2>3
<1>9. CASE pass'[i] # pass[i] /\ pass'[i].step \in {"promotion", "insert"}
  <2>1. CASE \E j \in Caller, p \in Pair : Call(j, p)
    BY <1>9, <2>1, CallSteps
  <2>2. CASE \E j \in Pass : Start(j) \/ Work(j) \/ Kill(j)
    <3>1. PICK j \in Pass : Start(j) \/ Work(j) \/ Kill(j)
      BY <2>2
    <3>2. i = j
      BY <1>9, <3>1, PassSteps
    <3> QED
      BY <1>6, <1>7, <1>8, <1>9, <3>1, <3>2, PassSteps DEF Follows
  <2>3. CASE pass' = pass
    BY <1>9, <2>3
  <2> QED
    BY <2>1, <2>2, <2>3 DEF Next, vars, Report, Cools, Handle, Upsert, Expires, Access
<1> QED
  BY <1>4, <1>5, <1>9

LEMMA NextExact == AimedInv /\ ExactInv /\ [Next]_vars => ExactInv'
<1> SUFFICES ASSUME AimedInv, ExactInv, [Next]_vars PROVE ExactInv'
  OBVIOUS
<1>0. Types /\ CampaignMoves
  BY SameTypes, CampaignSteps DEF AimedInv
<1>1. ASSUME NEW c \in Campaign \ edited', NEW q \in Signal PROVE IsExact(c, q)'
  <2>1. c \in Campaign \ edited /\ Exact(c, q)' = Exact(c, q) /\ IsExact(c, q)
    BY <1>0 DEF CampaignMoves, Exact, ExactInv
  <2>2. ASSUME NEW i \in Pass, pass[i].step = "insert", pass[i].with = c, pass[i].for = q
        PROVE  /\ pass[i].todo \subseteq Exact(c, q)
               /\ Exact(c, q) \subseteq PlansOf(c, q) \cup pass[i].todo
    BY <2>1, <2>2 DEF ExactInv, PlansFaithfully
  <2>3. PlansOf(c, q)' \subseteq Exact(c, q)
    BY <2>1, <2>2, PlanSteps DEF IsExact
  <2>4. ASSUME ~Planning(c, q)', PlansOf(c, q)' # {}, <<c, q>> \notin torn'
        PROVE  PlansOf(c, q)' = Exact(c, q)
    <3>1. PlansOf(c, q)' = PlansOf(c, q)
      BY <2>4, PlanSteps DEF Planning, At
    <3>2. <<c, q>> \notin torn
      BY <2>4 DEF Next, vars, Work, Report, Cools, Handle, Upsert, Expires, Access, Call, Start,
         Expiry, ReadSignals, ReadCampaigns, Choose, ReadCampaign, ReadPromotion, Insert, ChooseBurst,
         Evaluate, Boost, Announce, Mark, Kill, history
    <3>3. CASE ~Planning(c, q)
      BY <2>1, <2>4, <3>1, <3>2, <3>3 DEF IsExact
    <3>4. CASE Planning(c, q)
      <4>1. PICK i \in Pass : pass[i].step = "insert" /\ pass[i].with = c /\ pass[i].for = q
        BY <3>4 DEF Planning, At
      <4>2. pass'[i] # pass[i]
        BY <2>4, <4>1 DEF Planning, At
      <4>3. ~Kill(i)
        BY <2>4, <4>1 DEF Kill, At
      <4>4. Insert(i)
        BY <4>1, <4>2, <4>3, InsertOrKill
      <4>5. pass[i] \in PassType
        BY <1>0 DEF Types
      <4>6. ASSUME NEW x \in pass[i].todo, pass'[i] = [pass[i] EXCEPT !.todo = pass[i].todo \ {x}]
            PROVE  FALSE
        BY <2>4, <4>1, <4>5, <4>6 DEF Planning, At, PassType
      <4>7. pass[i].todo = {}
        BY <4>4, <4>6, InsertSteps
      <4> QED
        BY <2>2, <2>3, <3>1, <4>1, <4>7
    <3> QED
      BY <3>3, <3>4
  <2> QED
    BY <2>1, <2>3, <2>4 DEF IsExact
<1> QED
  BY <1>1, NextFaithful DEF ExactInv

\* However many invocations and requests plan the same pair, and whatever the
\* limits: the plans of a pair are those its campaign allows, and all of them once
\* nobody is planning it, unless a planner was killed between two of them.
THEOREM PlansExact == Spec => []PlansAreExact
<1>1. ExactInv => PlansAreExact
  BY DEF ExactInv, IsExact, PlansAreExact
<1> QED
  BY InitAimed, NextAimed, InitExact, NextExact, <1>1, PTL DEF Spec
================================================================================
