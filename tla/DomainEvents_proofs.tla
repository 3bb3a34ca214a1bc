-------------------------- MODULE DomainEvents_proofs --------------------------
(***************************************************************************)
(* Proofs about DomainEvents: its type invariant, that it implements       *)
(* EventContract, that a death is reported, and what a tick may rely on    *)
(* as long as no invocation outlives its minute.                           *)
(***************************************************************************)
EXTENDS DomainEvents, TLAPS

LEMMA Constants ==
    /\ Events \in Nat /\ Event \subseteq Nat /\ 0 \notin Event
    /\ MaxAttempts \in Nat \ {0} /\ MaxKills \in Nat /\ MaxOverlaps \in Nat
BY DomainAssumption DEF Event

RowType == [state : RowState, live : SUBSET Invocation, attempts : 0 .. MaxAttempts]
InvType == [step : Step, batch : SUBSET Event, at : Event \cup {0},
            ok : {"yes", "no"}, attempts : 0 .. MaxAttempts]

\* TypeOK with a name for each variable's type.
Types ==
    /\ row \in [Event -> RowType]
    /\ effects \in [Event -> SUBSET Effect]
    /\ reported \subseteq Event
    /\ inv \in [Invocation -> InvType]
    /\ before \in [Invocation -> SUBSET Invocation]
    /\ unreported \subseteq Event /\ skipped \in {"yes", "no"}
    /\ kills \in 0 .. MaxKills /\ overlaps \in 0 .. MaxOverlaps

LEMMA SameTypes == (TypeOK <=> Types) /\ (TypeOK' <=> Types')
BY DEF TypeOK, Types, RowType, InvType

-----------------------------------------------------------------------------
(* The inductive invariants.                                               *)

InLoop == {"signal", "queue", "check", "write", "report"}

\* What an invocation works on was ingested, and what it is about to
\* acknowledge as good is in place.
KnowsItsEvents(i) ==
    /\ inv[i].step \in InLoop => inv[i].at \in Event /\ row[inv[i].at].state # "none"
    /\ \A e \in inv[i].batch : row[e].state # "none"
    /\ inv[i].step = "queue" => "signal" \in effects[inv[i].at]
    /\ inv[i].step \in {"check", "write"} /\ inv[i].ok = "yes" => effects[inv[i].at] = Effect

ProjectionInv == TypeOK /\ \A i \in Invocation : KnowsItsEvents(i)

Reporting(e) == \E i \in Invocation : At(i, "report") /\ inv[i].at = e
Claims(i, e) == row[e].state = "CLAIMED" /\ i \in row[e].live

\* An invocation that is alone has the claims it works under, acknowledges a
\* good projection as good, and is not thrown out of its loop.
WorksAlone(i) ==
    /\ ~At(i, "abort")
    /\ inv[i].step \in {"idle", "reclaim", "claim"} => inv[i].batch = {}
    /\ \A e \in inv[i].batch : Claims(i, e)
    /\ inv[i].step \in {"signal", "queue", "check", "write"} =>
          Claims(i, inv[i].at) /\ inv[i].at \notin inv[i].batch
    /\ inv[i].step \in {"signal", "queue"} => inv[i].ok = "yes"
    /\ inv[i].step \in {"check", "write"} /\ inv[i].at \notin Faulty => inv[i].ok = "yes"
    /\ At(i, "report") => row[inv[i].at].state = "DEAD"

Alone ==
    /\ \A i, j \in Invocation : At(i, "idle") \/ At(j, "idle") \/ i = j
    /\ \A i \in Invocation : WorksAlone(i)

Undisturbed ==
    /\ \A e \in reported : row[e].state = "DEAD"
    /\ \A e \in Event \ Faulty : row[e].state # "DEAD"
    /\ skipped = "no"

AloneInv == overlaps = 0 => Alone /\ Undisturbed
-----------------------------------------------------------------------------
(* How invocations and rows change.                                        *)

LEMMA IdleType == Idle \in InvType /\ Idle.step = "idle" /\ Idle.batch = {}
BY Constants DEF Idle, InvType, Step

\* An invocation that goes on changes its step; the loop forgets its event.
LEMMA GoTypes ==
    ASSUME inv \in [Invocation -> InvType], NEW i \in Invocation, NEW s \in Step, Go(i, s)
    PROVE  /\ inv' \in [Invocation -> InvType]
           /\ \A j \in Invocation : j # i => inv'[j] = inv[j]
           /\ inv'[i].step = s /\ inv'[i].batch = inv[i].batch
           /\ s # "next" => inv'[i] = [inv[i] EXCEPT !.step = s]
<1> DEFINE next == IF s = "next" THEN [Idle EXCEPT !.step = s, !.batch = inv[i].batch]
                   ELSE [inv[i] EXCEPT !.step = s]
<1>1. inv[i] \in InvType
  OBVIOUS
<1>2. next \in InvType /\ next.step = s /\ next.batch = inv[i].batch
  <2>1. CASE s = "next"
    <3>1. next = [step |-> s, batch |-> inv[i].batch, at |-> 0, ok |-> "yes", attempts |-> 0]
      BY <2>1 DEF Idle
    <3>2. inv[i].batch \subseteq Event /\ 0 \in 0 .. MaxAttempts
      BY <1>1, Constants DEF InvType
    <3> HIDE DEF next
    <3> QED
      BY <3>1, <3>2 DEF InvType
  <2>2. CASE s # "next"
    BY <1>1, <2>2 DEF InvType
  <2> QED
    BY <2>1, <2>2
<1>3. inv' = [inv EXCEPT ![i] = next]
  BY DEF Go
<1>4. s # "next" => next = [inv[i] EXCEPT !.step = s]
  OBVIOUS
<1> HIDE DEF next
<1> QED
  BY <1>2, <1>3, <1>4

\* The ways in which a row changes yield rows and leave no event unknown.
LEMMA RowChanges ==
    ASSUME NEW q \in RowType
    PROVE  /\ \A s \in RowState : [q EXCEPT !.state = s] \in RowType
           /\ \A s \in RowState : [q EXCEPT !.state = s, !.live = {}] \in RowType
           /\ Reclaimed(q) \in RowType /\ Reclaimed(q).state = "PENDING"
           /\ \A i \in Invocation : [q EXCEPT !.live = @ \ {i}] \in RowType
BY Constants DEF RowType, Reclaimed, RowState

LEMMA ClaimedRow ==
    ASSUME NEW q \in RowType, NEW i \in Invocation, before \in [Invocation -> SUBSET Invocation]
    PROVE  Claimed(q, i) \in RowType /\ Claimed(q, i).state = "CLAIMED" /\ i \in Claimed(q, i).live
<1>1. q.attempts \in 0 .. MaxAttempts
  BY DEF RowType
<1>2. (IF q.attempts < MaxAttempts THEN q.attempts + 1 ELSE q.attempts) \in 0 .. MaxAttempts
  BY <1>1, Constants
<1>3. LiveFor(i) \subseteq Invocation /\ i \in LiveFor(i)
  BY DEF LiveFor
<1> QED
  BY <1>2, <1>3 DEF Claimed, RowType, RowState

LEMMA Verdicts == \A i \in Invocation : Verdict(i) \in {"DONE", "PENDING", "DEAD"}
BY DEF Verdict

-----------------------------------------------------------------------------
(* Types.                                                                  *)

LEMMA InitTypes == Init => TypeOK
<1> SUFFICES ASSUME Init PROVE Types
  BY SameTypes
<1>1. NoRow \in RowType
  BY Constants DEF NoRow, RowType, RowState
<1> QED
  BY <1>1, IdleType, Constants DEF Init, Types

\* An invocation that is over leaves rows and invocations.
LEMMA GoneTypes ==
    ASSUME Types, NEW i \in Invocation, Gone(i)
    PROVE  /\ row' \in [Event -> RowType] /\ inv' \in [Invocation -> InvType]
           /\ before' \in [Invocation -> SUBSET Invocation]
           /\ \A e \in Event : row'[e].state = row[e].state /\ row'[e].live = row[e].live \ {i}
           /\ inv'[i] = Idle /\ \A j \in Invocation : j # i => inv'[j] = inv[j]
<1>1. \A e \in Event : [row[e] EXCEPT !.live = @ \ {i}] \in RowType
  BY RowChanges DEF Types
<1>2. row' \in [Event -> RowType]
  BY <1>1 DEF Gone
<1>3. \A e \in Event : row'[e].state = row[e].state /\ row'[e].live = row[e].live \ {i}
  BY DEF Gone, Types, RowType
<1>4. inv' \in [Invocation -> InvType] /\ inv'[i] = Idle
      /\ \A j \in Invocation : j # i => inv'[j] = inv[j]
  BY IdleType DEF Gone, Types
<1>5. before' \in [Invocation -> SUBSET Invocation]
  BY DEF Gone, Types
<1> QED
  BY <1>2, <1>3, <1>4, <1>5

LEMMA NextTypes == ProjectionInv /\ [Next]_vars => TypeOK'
<1> SUFFICES ASSUME Types, \A i \in Invocation : KnowsItsEvents(i), [Next]_vars PROVE Types'
  BY SameTypes DEF ProjectionInv
<1> USE Constants
<1>1. ASSUME NEW e \in Event, Ingest(e) PROVE Types'
  <2>1. [row[e] EXCEPT !.state = "PENDING"] \in RowType
    BY RowChanges DEF Types, RowState
  <2>2. row' = [row EXCEPT ![e] = [row[e] EXCEPT !.state = "PENDING"]]
    BY <1>1 DEF Ingest
  <2>3. row' \in [Event -> RowType]
    BY <2>1, <2>2 DEF Types
  <2> QED
    BY <1>1, <2>3 DEF Ingest, Types, history
<1>2. ASSUME NEW i \in Invocation, Start(i) PROVE Types'
  <2>1. inv' \in [Invocation -> InvType]
    BY <1>2, GoTypes DEF Start, Types, Step
  <2>2. overlaps' \in 0 .. MaxOverlaps
    BY <1>2 DEF Start, Types
  <2> QED
    BY <1>2, <2>1, <2>2 DEF Start, Types, Running
<1>3. ASSUME NEW i \in Invocation, Reclaim(i) PROVE Types'
  <2>1. row' \in [Event -> RowType]
    BY <1>3, RowChanges DEF Reclaim, Types
  <2>2. inv' \in [Invocation -> InvType]
    BY <1>3, GoTypes DEF Reclaim, Types, Step
  <2> QED
    BY <1>3, <2>1, <2>2 DEF Reclaim, Types, history
<1>4. ASSUME NEW i \in Invocation, Claim(i) PROVE Types'
  <2>1. row' \in [Event -> RowType]
    BY <1>4, ClaimedRow DEF Claim, Types
  <2>2. Batch \subseteq Event
    BY DEF Batch
  <2>3. inv' \in [Invocation -> InvType]
    <3>1. [inv[i] EXCEPT !.step = "next", !.batch = Batch] \in InvType
      <4>1. inv[i] \in InvType /\ "next" \in Step
        BY DEF Types, Step
      <4> QED
        BY <2>2, <4>1 DEF InvType
    <3>2. inv' = [inv EXCEPT ![i] = [inv[i] EXCEPT !.step = "next", !.batch = Batch]]
      BY <1>4 DEF Claim
    <3> QED
      BY <3>1, <3>2 DEF Types
  <2> QED
    BY <1>4, <2>1, <2>3 DEF Claim, Types, history
<1>5. ASSUME NEW i \in Invocation, NEW e \in Event, Take(i, e) PROVE Types'
  <2>1. inv' \in [Invocation -> InvType]
    BY <1>5 DEF Take, Types, InvType, Step
  <2> QED
    BY <1>5, <2>1 DEF Take, Types, history
<1>6. ASSUME NEW i \in Invocation, Project(i) PROVE Types'
  <2>1. AfterEffect(inv[i].step) \in Step
    BY DEF AfterEffect, Step
  <2>2. inv' \in [Invocation -> InvType]
    BY <1>6, <2>1, GoTypes DEF Project, Types
  <2>3. effects' \in [Event -> SUBSET Effect]
    <3>1. inv[i].at \in Event /\ inv[i].step \in Effect
      BY <1>6 DEF Project, Effect, KnowsItsEvents, InLoop
    <3>2. effects[inv[i].at] \cup {inv[i].step} \in SUBSET Effect
      BY <3>1 DEF Types
    <3> QED
      BY <1>6, <3>2 DEF Project, Types
  <2>4. UNCHANGED <<row, reported, before, history>>
    BY <1>6 DEF Project
  <2> QED
    BY <2>2, <2>3, <2>4 DEF Types, history
<1>7. ASSUME NEW i \in Invocation, Throw(i) PROVE Types'
  <2>1. inv' \in [Invocation -> InvType]
    <3>1. [inv[i] EXCEPT !.step = "check", !.ok = "no"] \in InvType
      <4>1. inv[i] \in InvType /\ "check" \in Step
        BY DEF Types, Step
      <4> QED
        BY <4>1 DEF InvType
    <3> QED
      BY <1>7, <3>1 DEF Throw, Types
  <2> QED
    BY <1>7, <2>1 DEF Throw, Types, history
<1>8. ASSUME NEW i \in Invocation, Check(i) PROVE Types'
  <2>1. inv' \in [Invocation -> InvType]
    <3>1. CASE Go(i, "next")
      BY <3>1, GoTypes DEF Types, Step
    <3>2. CASE row[inv[i].at].state = "CLAIMED" /\ i \in row[inv[i].at].live
               /\ inv' = [inv EXCEPT ![i] = [@ EXCEPT !.step = "write", !.attempts = row[inv[i].at].attempts]]
      <4>1. row[inv[i].at].attempts \in 0 .. MaxAttempts
        BY <1>8 DEF Check, At, KnowsItsEvents, InLoop, Types, RowType
      <4>2. [inv[i] EXCEPT !.step = "write", !.attempts = row[inv[i].at].attempts] \in InvType
        <5>1. inv[i] \in InvType /\ "write" \in Step
          BY DEF Types, Step
        <5> QED
          BY <4>1, <5>1 DEF InvType
      <4>3. inv' = [inv EXCEPT ![i] =
                       [inv[i] EXCEPT !.step = "write", !.attempts = row[inv[i].at].attempts]]
        BY <3>2
      <4> QED
        BY <4>2, <4>3 DEF Types
    <3>3. CASE inv' = IF inv[i].ok = "yes" THEN [inv EXCEPT ![i].ok = "no"]
                      ELSE [inv EXCEPT ![i].step = "abort"]
      BY <3>3 DEF Types, InvType, Step
    <3> QED
      BY <1>8, <3>1, <3>2, <3>3 DEF Check
  <2> QED
    BY <1>8, <2>1 DEF Check, Types, history
<1>9. ASSUME NEW i \in Invocation, Write(i) PROVE Types'
  <2>1. inv' \in [Invocation -> InvType]
    <3>1. AfterWrite(i) \in Step
      BY DEF AfterWrite, Step
    <3> QED
      BY <1>9, <3>1, GoTypes DEF Write, Types
  <2>2. row' \in [Event -> RowType]
    <3>1. inv[i].at \in Event
      BY <1>9 DEF Write, At, KnowsItsEvents, InLoop
    <3>2. [row[inv[i].at] EXCEPT !.state = Verdict(i), !.live = {}] \in RowType
      BY <3>1, RowChanges, Verdicts DEF Types, RowState
    <3>3. row' = row \/ row' = [row EXCEPT ![inv[i].at] =
                                  [row[inv[i].at] EXCEPT !.state = Verdict(i), !.live = {}]]
      BY <1>9 DEF Write
    <3> QED
      BY <3>2, <3>3 DEF Types
  <2> QED
    BY <1>9, <2>1, <2>2 DEF Write, Types, history
<1>10. ASSUME NEW i \in Invocation, Report(i) PROVE Types'
  <2>1. inv' \in [Invocation -> InvType]
    BY <1>10, GoTypes DEF Report, Types, Step
  <2>2. inv[i].at \in Event
    BY <1>10 DEF Report, At, KnowsItsEvents, InLoop
  <2> QED
    BY <1>10, <2>1, <2>2 DEF Report, Types, history
<1>11. ASSUME NEW i \in Invocation, Finish(i) PROVE Types'
  BY <1>11, GoneTypes DEF Finish, Types
<1>12. ASSUME NEW i \in Invocation, Kill(i) PROVE Types'
  <2>1. unreported' \subseteq Event
    BY <1>12 DEF Kill, Types, At, KnowsItsEvents, InLoop
  <2> QED
    BY <1>12, <2>1, GoneTypes DEF Kill, Types
<1>13. CASE UNCHANGED vars
  BY <1>13 DEF vars, Types
<1> QED
  BY <1>1, <1>2, <1>3, <1>4, <1>5, <1>6, <1>7, <1>8, <1>9, <1>10, <1>11, <1>12, <1>13
  DEF Next, Work

-----------------------------------------------------------------------------
(* What an invocation knows of its events stays true.                      *)

\* An event does not become unknown, and no effect is taken back.
Kept ==
    /\ \A e \in Event : row[e].state # "none" => row'[e].state # "none"
    /\ \A e \in Event : effects[e] \subseteq effects'[e]

LEMMA NextKept == ProjectionInv /\ [Next]_vars => Kept
<1> SUFFICES ASSUME Types, \A i \in Invocation : KnowsItsEvents(i), [Next]_vars PROVE Kept
  BY SameTypes DEF ProjectionInv
<1>1. ASSUME NEW e \in Event, Ingest(e) PROVE Kept
  BY <1>1 DEF Ingest, Types, RowType, Kept
<1>2. ASSUME NEW i \in Invocation, Reclaim(i) PROVE Kept
  <2>1. \A e \in Event : row'[e] = row[e] \/ row'[e].state = "PENDING"
    BY <1>2, RowChanges DEF Reclaim, Types
  <2> QED
    BY <1>2, <2>1 DEF Reclaim, Kept
<1>3. ASSUME NEW i \in Invocation, Claim(i) PROVE Kept
  <2>1. \A e \in Event : row'[e] = row[e] \/ row'[e].state = "CLAIMED"
    BY <1>3, ClaimedRow DEF Claim, Types
  <2> QED
    BY <1>3, <2>1 DEF Claim, Kept
<1>4. ASSUME NEW i \in Invocation, Project(i) PROVE Kept
  <2>1. \A e \in Event : effects[e] \subseteq effects'[e]
    BY <1>4 DEF Project, Types
  <2> QED
    BY <1>4, <2>1 DEF Project, Kept
<1>5. ASSUME NEW i \in Invocation, Write(i) PROVE Kept
  <2>1. \A e \in Event : row'[e] = row[e] \/ row'[e].state = Verdict(i)
    BY <1>5 DEF Write, Types, RowType
  <2> QED
    BY <1>5, <2>1, Verdicts DEF Write, Kept
<1>6. ASSUME NEW i \in Invocation, Finish(i) \/ Kill(i) PROVE Kept
  BY <1>6, GoneTypes DEF Finish, Kill, Kept
<1>7. ASSUME UNCHANGED <<row, effects>> PROVE Kept
  BY <1>7 DEF Kept
<1>8. ASSUME NEW i \in Invocation,
             Start(i) \/ Throw(i) \/ Check(i) \/ Report(i) \/ \E e \in Event : Take(i, e)
      PROVE  Kept
  BY <1>7, <1>8 DEF Start, Throw, Check, Report, Take
<1>9. CASE UNCHANGED vars
  BY <1>7, <1>9 DEF vars
<1> QED
  BY <1>1, <1>2, <1>3, <1>4, <1>5, <1>6, <1>8, <1>9 DEF Next, Work

LEMMA StillKnows ==
    ASSUME Types, Types', Kept, NEW j \in Invocation, KnowsItsEvents(j), inv'[j] = inv[j]
    PROVE  KnowsItsEvents(j)'
<1>1. \A e \in inv'[j].batch : row'[e].state # "none"
  BY DEF KnowsItsEvents, Kept, Types, InvType
<1>2. CASE inv[j].step \in InLoop
  <2>1. inv[j].at \in Event /\ row[inv[j].at].state # "none"
    BY <1>2 DEF KnowsItsEvents
  <2>2. row'[inv[j].at].state # "none" /\ effects[inv[j].at] \subseteq effects'[inv[j].at]
    BY <2>1 DEF Kept
  <2>3. effects'[inv[j].at] \subseteq Effect
    BY <2>1 DEF Types
  <2>4. inv'[j].step = "queue" => "signal" \in effects'[inv[j].at]
    BY <2>2 DEF KnowsItsEvents
  <2>5. inv'[j].step \in {"check", "write"} /\ inv'[j].ok = "yes" => effects'[inv[j].at] = Effect
    BY <2>2, <2>3 DEF KnowsItsEvents
  <2> QED
    BY <1>1, <2>1, <2>2, <2>4, <2>5 DEF KnowsItsEvents
<1>3. CASE inv[j].step \notin InLoop
  BY <1>1, <1>3 DEF KnowsItsEvents, InLoop
<1> QED
  BY <1>2, <1>3

\* Outside the loop only the batch matters.
LEMMA KnowsItsBatch ==
    ASSUME Types, Types', Kept, NEW i \in Invocation, KnowsItsEvents(i),
           inv'[i].batch \subseteq inv[i].batch, inv'[i].step \notin InLoop
    PROVE  KnowsItsEvents(i)'
<1>1. \A e \in inv'[i].batch : row'[e].state # "none"
  BY DEF KnowsItsEvents, Kept, Types, InvType
<1> QED
  BY <1>1 DEF KnowsItsEvents, InLoop

\* A step of an invocation leaves the others.
LEMMA OthersStay ==
    ASSUME Types, NEW i \in Invocation, NEW j \in Invocation, i # j,
           Start(i) \/ Work(i) \/ Throw(i) \/ Kill(i)
    PROVE  inv'[j] = inv[j]
<1>1. CASE \E s \in Step : Go(i, s)
  BY <1>1, GoTypes DEF Types
<1>2. CASE Gone(i)
  BY <1>2, GoneTypes
<1>3. CASE \E q : inv' = [inv EXCEPT ![i] = q]
  BY <1>3 DEF Types
<1>4. AfterWrite(i) \in Step /\ AfterEffect(inv[i].step) \in Step
  BY DEF AfterWrite, AfterEffect, Step
<1>5. CASE Check(i)
  BY <1>1, <1>3, <1>5 DEF Check, Step
<1>6. CASE Claim(i) \/ Throw(i) \/ \E e \in Event : Take(i, e)
  BY <1>3, <1>6 DEF Claim, Throw, Take
<1>7. CASE Finish(i) \/ Kill(i)
  BY <1>2, <1>7 DEF Finish, Kill
<1>8. CASE Start(i) \/ Reclaim(i) \/ Project(i) \/ Write(i) \/ Report(i)
  BY <1>1, <1>4, <1>8 DEF Start, Reclaim, Project, Write, Report, Step
<1> QED
  BY <1>5, <1>6, <1>7, <1>8 DEF Work

LEMMA NextKnows == ProjectionInv /\ [Next]_vars => \A j \in Invocation : KnowsItsEvents(j)'
<1> SUFFICES ASSUME Types, \A i \in Invocation : KnowsItsEvents(i), [Next]_vars,
                    NEW j \in Invocation
             PROVE  KnowsItsEvents(j)'
  BY SameTypes DEF ProjectionInv
<1>0. Types' /\ Kept
  BY NextTypes, NextKept, SameTypes DEF ProjectionInv
<1>1. CASE inv'[j] = inv[j]
  BY <1>0, <1>1, StillKnows
<1>2. CASE \/ Start(j) \/ Reclaim(j) \/ Report(j) \/ Finish(j) \/ Kill(j) \/ Go(j, "next")
  <2>1. inv'[j].batch \subseteq inv[j].batch /\ inv'[j].step \notin InLoop
    BY <1>2, GoTypes, GoneTypes, IdleType
    DEF Start, Reclaim, Report, Finish, Kill, InLoop, Step, Types
  <2> QED
    BY <1>0, <2>1, KnowsItsBatch
<1>3. CASE Claim(j)
  <2>1. inv'[j].step = "next" /\ inv'[j].batch = Batch
    BY <1>3 DEF Claim, Types, InvType
  <2>2. \A e \in Batch : e \in Event /\ row[e].state # "none"
    BY DEF Batch
  <2> QED
    BY <1>0, <2>1, <2>2 DEF KnowsItsEvents, InLoop, Kept
<1>4. ASSUME NEW e \in Event, Take(j, e) PROVE KnowsItsEvents(j)'
  <2>1. inv'[j].step = "signal" /\ inv'[j].at = e /\ inv'[j].batch \subseteq inv[j].batch
    BY <1>4 DEF Take, Types
  <2>2. row'[e].state # "none" /\ \A d \in inv'[j].batch : row'[d].state # "none"
    BY <1>0, <1>4, <2>1 DEF Take, KnowsItsEvents, Types, InvType, Kept
  <2> QED
    BY <2>1, <2>2 DEF KnowsItsEvents
<1>5. CASE Project(j)
  <2>1. inv[j].at \in Event /\ inv[j].step \in Effect
    BY <1>5 DEF Project, Effect, KnowsItsEvents, InLoop
  <2>2. effects'[inv[j].at] = effects[inv[j].at] \cup {inv[j].step}
    BY <1>5, <2>1 DEF Project, Types
  <2>3. inv'[j] = [inv[j] EXCEPT !.step = AfterEffect(inv[j].step)]
    BY <1>5, GoTypes DEF Project, AfterEffect, Step, Types
  <2>4. /\ inv'[j].step = AfterEffect(inv[j].step) /\ inv'[j].at = inv[j].at
        /\ inv'[j].batch = inv[j].batch
    BY <2>3 DEF Types, InvType
  <2>5. /\ inv[j].step = "signal" => inv'[j].step = "queue"
        /\ inv[j].step = "queue" => inv'[j].step = "check" /\ effects'[inv[j].at] = Effect
    BY <2>1, <2>2, <2>4 DEF AfterEffect, Effect, KnowsItsEvents, Types
  <2>6. /\ row'[inv[j].at].state # "none"
        /\ \A e \in inv'[j].batch : row'[e].state # "none"
    BY <1>0, <1>5, <2>1, <2>4 DEF KnowsItsEvents, Kept, Types, InvType, InLoop, Effect
  <2> QED
    BY <2>1, <2>2, <2>4, <2>5, <2>6 DEF KnowsItsEvents, Effect
<1>6. CASE \E o \in {"yes", "no"}, s \in {"check", "write", "abort"}, n \in 0 .. MaxAttempts :
             /\ inv[j].step \in {"signal", "queue", "check"}
             /\ inv[j].step = "check" \/ o = "no"
             /\ o = "no" \/ o = inv[j].ok
             /\ inv' = [inv EXCEPT ![j] = [@ EXCEPT !.step = s, !.ok = o, !.attempts = n]]
  <2>1. PICK o \in {"yes", "no"}, s \in {"check", "write", "abort"}, n \in 0 .. MaxAttempts :
             /\ inv[j].step \in {"signal", "queue", "check"}
             /\ inv[j].step = "check" \/ o = "no"
             /\ o = "no" \/ o = inv[j].ok
             /\ inv' = [inv EXCEPT ![j] = [@ EXCEPT !.step = s, !.ok = o, !.attempts = n]]
    BY <1>6
  <2>2. /\ inv'[j].step = s /\ inv'[j].ok = o /\ inv'[j].at = inv[j].at
        /\ inv'[j].batch = inv[j].batch /\ s # "queue"
    BY <2>1 DEF Types, InvType
  <2>3. /\ inv[j].at \in Event /\ row'[inv[j].at].state # "none"
        /\ \A e \in inv'[j].batch : row'[e].state # "none"
    BY <1>0, <2>1, <2>2 DEF KnowsItsEvents, Kept, Types, InvType, InLoop
  <2>4. o = "yes" => effects'[inv[j].at] = Effect
    <3>1. o = "yes" => effects[inv[j].at] = Effect
      BY <2>1 DEF KnowsItsEvents
    <3>2. effects[inv[j].at] \subseteq effects'[inv[j].at] /\ effects'[inv[j].at] \subseteq Effect
      BY <1>0, <2>3 DEF Kept, Types
    <3> QED
      BY <3>1, <3>2
  <2> QED
    BY <2>2, <2>3, <2>4 DEF KnowsItsEvents
<1>7. CASE Throw(j)
  <2>1. /\ inv[j].step \in {"signal", "queue"} /\ inv[j].attempts \in 0 .. MaxAttempts
        /\ inv' = [inv EXCEPT ![j] = [@ EXCEPT !.step = "check", !.ok = "no",
                                                !.attempts = inv[j].attempts]]
    BY <1>7 DEF Throw, Effect, Types, InvType
  <2> QED
    BY <1>6, <2>1
<1>8. CASE Check(j)
  <2>1. inv[j].step = "check" /\ inv[j].at \in Event /\ inv[j] \in InvType
    BY <1>8 DEF Check, At, KnowsItsEvents, InLoop, Types
  <2>2. /\ row[inv[j].at].attempts \in 0 .. MaxAttempts /\ inv[j].attempts \in 0 .. MaxAttempts
        /\ inv[j].ok \in {"yes", "no"}
    BY <2>1 DEF Types, RowType, InvType
  <2>3. CASE inv' = [inv EXCEPT ![j] = [@ EXCEPT !.step = "write",
                                                 !.attempts = row[inv[j].at].attempts]]
    <3>1. inv' = [inv EXCEPT ![j] = [@ EXCEPT !.step = "write", !.ok = inv[j].ok,
                                              !.attempts = row[inv[j].at].attempts]]
      BY <2>1, <2>3 DEF Types, InvType
    <3> QED
      BY <1>6, <2>1, <2>2, <3>1
  <2>4. CASE inv[j].ok = "yes" /\ inv' = [inv EXCEPT ![j].ok = "no"]
    <3>1. inv' = [inv EXCEPT ![j] = [@ EXCEPT !.step = "check", !.ok = "no",
                                              !.attempts = inv[j].attempts]]
      BY <2>1, <2>4 DEF Types, InvType
    <3> QED
      BY <1>6, <2>1, <2>2, <3>1
  <2>5. CASE inv[j].ok # "yes" /\ inv' = [inv EXCEPT ![j].step = "abort"]
    <3>1. inv' = [inv EXCEPT ![j] = [@ EXCEPT !.step = "abort", !.ok = "no",
                                              !.attempts = inv[j].attempts]]
      BY <2>1, <2>2, <2>5 DEF Types, InvType
    <3> QED
      BY <1>6, <2>1, <2>2, <3>1
  <2> QED
    BY <1>2, <1>8, <2>3, <2>4, <2>5 DEF Check
<1>9. CASE Write(j)
  <2>1. CASE Go(j, "next")
    BY <1>2, <2>1
  <2>2. CASE Go(j, "report")
    <3>1. inv[j].at \in Event /\ inv[j].step = "write"
      BY <1>9 DEF Write, At, KnowsItsEvents, InLoop
    <3>2. inv'[j] = [inv[j] EXCEPT !.step = "report"] /\ inv[j] \in InvType
      BY <2>2, GoTypes DEF Types, Step
    <3>3. inv'[j].step = "report" /\ inv'[j].at = inv[j].at /\ inv'[j].batch = inv[j].batch
      BY <3>2 DEF InvType
    <3>4. /\ row'[inv[j].at].state # "none"
          /\ \A e \in inv'[j].batch : row'[e].state # "none"
      BY <1>0, <3>1, <3>3 DEF KnowsItsEvents, Kept, Types, InvType, InLoop
    <3> QED
      BY <3>1, <3>3, <3>4 DEF KnowsItsEvents
  <2> QED
    BY <1>9, <2>1, <2>2 DEF Write, AfterWrite
<1>10. ASSUME NEW i \in Invocation, i # j, Start(i) \/ Work(i) \/ Throw(i) \/ Kill(i)
       PROVE  inv'[j] = inv[j]
  BY <1>10, OthersStay
<1>11. CASE UNCHANGED vars \/ \E e \in Event : Ingest(e)
  BY <1>1, <1>11 DEF vars, Ingest
<1> QED
  BY <1>1, <1>2, <1>3, <1>4, <1>5, <1>7, <1>8, <1>9, <1>10, <1>11 DEF Next, Work

LEMMA InitKnows == Init => ProjectionInv
<1> SUFFICES ASSUME Init PROVE \A i \in Invocation : KnowsItsEvents(i)
  BY InitTypes DEF ProjectionInv
<1> QED
  BY IdleType DEF Init, KnowsItsEvents, InLoop

\* Every variable keeps its type: an invocation knows the rows it touches.
THEOREM TypeCorrect == Spec => []TypeOK
<1>1. ProjectionInv /\ [Next]_vars => ProjectionInv'
  BY NextTypes, NextKnows DEF ProjectionInv
<1>2. ProjectionInv => TypeOK
  BY DEF ProjectionInv
<1> QED
  BY InitKnows, <1>1, <1>2, PTL DEF Spec

-----------------------------------------------------------------------------
(* How the state of a row moves.                                           *)

\* Only a write whose row is still claimed settles an event.
LEMMA RowMoves ==
    ASSUME ProjectionInv, [Next]_vars, NEW e \in Event
    PROVE  \/ row'[e].state = row[e].state
           \/ row[e].state = "none" /\ row'[e].state = "PENDING"
           \/ row[e].state \in {"PENDING", "CLAIMED"} /\ row'[e].state \in {"PENDING", "CLAIMED"}
           \/ \E i \in Invocation : /\ Write(i) /\ inv[i].at = e
                                    /\ row[e].state = "CLAIMED" /\ row'[e].state = Verdict(i)
<1> DEFINE Moves ==
           \/ row'[e].state = row[e].state
           \/ row[e].state = "none" /\ row'[e].state = "PENDING"
           \/ row[e].state \in {"PENDING", "CLAIMED"} /\ row'[e].state \in {"PENDING", "CLAIMED"}
           \/ \E i \in Invocation : /\ Write(i) /\ inv[i].at = e
                                    /\ row[e].state = "CLAIMED" /\ row'[e].state = Verdict(i)
<1>0. Types /\ row[e] \in RowType
  BY SameTypes DEF ProjectionInv, Types
<1>1. ASSUME NEW d \in Event, Ingest(d) PROVE Moves
  BY <1>0, <1>1 DEF Ingest, Types, RowType
<1>2. ASSUME NEW i \in Invocation, Reclaim(i) PROVE Moves
  <2>1. CASE Lapsed(row[e], i)
    BY <1>0, <1>2, <2>1 DEF Reclaim, Reclaimed, Lapsed, RowType
  <2>2. CASE ~Lapsed(row[e], i)
    BY <1>2, <2>2 DEF Reclaim
  <2> QED
    BY <2>1, <2>2
<1>3. ASSUME NEW i \in Invocation, Claim(i) PROVE Moves
  <2>1. CASE e \in Batch
    BY <1>3, <2>1 DEF Claim, Claimed, Batch
  <2>2. CASE e \notin Batch
    BY <1>3, <2>2 DEF Claim
  <2> QED
    BY <2>1, <2>2
<1>4. ASSUME NEW i \in Invocation, Write(i) PROVE Moves
  <2>1. CASE StillClaimed(row[inv[i].at]) /\ inv[i].at = e
    <3>1. row'[e] = [row[e] EXCEPT !.state = Verdict(i), !.live = {}]
      BY <1>0, <1>4, <2>1 DEF Write, Types
    <3>2. row'[e].state = Verdict(i)
      BY <1>0, <3>1 DEF RowType
    <3> QED
      BY <1>4, <2>1, <3>2 DEF StillClaimed
  <2>2. CASE ~(StillClaimed(row[inv[i].at]) /\ inv[i].at = e)
    BY <1>0, <1>4, <2>2 DEF Write, Types
  <2> QED
    BY <2>1, <2>2
<1>5. ASSUME NEW i \in Invocation, Finish(i) \/ Kill(i) PROVE Moves
  BY <1>0, <1>5, GoneTypes DEF Finish, Kill
<1>6. CASE row' = row
  BY <1>6
<1>7. ASSUME NEW i \in Invocation,
             \/ Start(i) \/ Throw(i) \/ Check(i) \/ Report(i) \/ Project(i)
             \/ \E d \in Event : Take(i, d)
      PROVE  Moves
  BY <1>6, <1>7 DEF Start, Throw, Check, Report, Project, Take
<1> QED
  BY <1>1, <1>2, <1>3, <1>4, <1>5, <1>6, <1>7 DEF Next, Work, vars

-----------------------------------------------------------------------------
(* Deaths are reported.                                                    *)

LEMMA NextReported == ProjectionInv /\ DeadIsReported /\ [Next]_vars => DeadIsReported'
<1> SUFFICES ASSUME ProjectionInv, DeadIsReported, [Next]_vars,
                    NEW e \in Event, row'[e].state = "DEAD"
             PROVE  e \in reported' \cup unreported' \/ Reporting(e)'
  BY DEF DeadIsReported, Reporting
<1>1. Types
  BY SameTypes DEF ProjectionInv
<1>2. reported \subseteq reported' /\ unreported \subseteq unreported'
  BY DEF Next, Work, Ingest, Start, Reclaim, Claim, Take, Project, Throw, Check, Write, Report,
         Finish, Kill, vars, history
<1>3. ASSUME NEW i \in Invocation, Write(i), inv[i].at = e, Verdict(i) = "DEAD"
      PROVE  Reporting(e)'
  <2>1. Go(i, "report")
    BY <1>3 DEF Write, AfterWrite
  <2>2. inv'[i] = [inv[i] EXCEPT !.step = "report"]
    BY <1>1, <2>1, GoTypes DEF Types, Step
  <2>3. inv'[i].step = "report" /\ inv'[i].at = e
    BY <1>1, <1>3, <2>2 DEF Types, InvType
  <2> QED
    BY <2>3 DEF Reporting, At
<1>4. ASSUME NEW i \in Invocation, At(i, "report"), inv[i].at = e
      PROVE  e \in reported' \cup unreported' \/ Reporting(e)'
  <2>1. CASE inv'[i] = inv[i]
    BY <1>4, <2>1 DEF Reporting, At
  <2>2. CASE Report(i) \/ Kill(i)
    BY <1>4, <2>2 DEF Report, Kill
  <2>3. ~Start(i) /\ ~Throw(i) /\ (Work(i) => Report(i))
    BY <1>4 DEF Start, Throw, Work, Reclaim, Claim, Take, Project, Check, Write, Finish, At, Effect
  <2>4. CASE UNCHANGED vars \/ \E d \in Event : Ingest(d)
    BY <2>1, <2>4 DEF vars, Ingest
  <2> QED
    BY <1>1, <2>1, <2>2, <2>3, <2>4, OthersStay DEF Next
<1>5. CASE row[e].state = "DEAD"
  BY <1>2, <1>4, <1>5 DEF DeadIsReported
<1> QED
  BY <1>3, <1>5, RowMoves

\* No event dies unnoticed: its report is on its way unless the invocation that
\* would have written it was killed.
THEOREM DeathsAreReported == Spec => []DeadIsReported
<1>1. Init => DeadIsReported
  BY DEF Init, DeadIsReported, NoRow
<1>2. ProjectionInv /\ [Next]_vars => ProjectionInv'
  BY NextTypes, NextKnows DEF ProjectionInv
<1> QED
  BY InitKnows, NextReported, <1>1, <1>2, PTL DEF Spec

-----------------------------------------------------------------------------
(* The outbox implements EventContract.                                    *)

Statuses == [e \in Event |-> Status(e)]

LEMMA StatusIs ==
    ASSUME NEW e \in Event
    PROVE  /\ row[e].state = "none" => Status(e) = "none"
           /\ row[e].state \in {"PENDING", "CLAIMED"} => Status(e) = "owed"
           /\ row[e].state = "DONE" => Status(e) = "done"
           /\ row[e].state = "DEAD" => Status(e) = "dead"
BY DEF Status

LEMMA StatusIsNext ==
    ASSUME NEW e \in Event
    PROVE  /\ row'[e].state = "none" => Status(e)' = "none"
           /\ row'[e].state \in {"PENDING", "CLAIMED"} => Status(e)' = "owed"
           /\ row'[e].state = "DONE" => Status(e)' = "done"
           /\ row'[e].state = "DEAD" => Status(e)' = "dead"
BY DEF Status

LEMMA SameStatus ==
    ASSUME NEW e \in Event, row'[e].state = row[e].state
    PROVE  Status(e)' = Status(e)
BY DEF Status

LEMMA Stutter ==
    ASSUME \A e \in Event : Status(e)' = Status(e), effects' = effects
    PROVE  UNCHANGED Contract!vars
BY DEF Contract!vars

LEMMA InitContract == Init => Contract!Init
<1> SUFFICES ASSUME Init PROVE Contract!Init
  OBVIOUS
<1>1. \A e \in Event : Status(e) = "none"
  BY StatusIs DEF Init, NoRow
<1> QED
  BY <1>1 DEF Init, Contract!Init

LEMMA NextContract == ProjectionInv /\ [Next]_vars => [Contract!Next]_(Contract!vars)
<1> SUFFICES ASSUME ProjectionInv, [Next]_vars
             PROVE  Contract!Next \/ UNCHANGED Contract!vars
  OBVIOUS
<1>0. Types /\ \A i \in Invocation : KnowsItsEvents(i)
  BY SameTypes DEF ProjectionInv
<1>1. ASSUME NEW e \in Event, Ingest(e) PROVE Contract!Raise(e)
  <2>1. row[e].state = "none" /\ row'[e].state = "PENDING"
    BY <1>0, <1>1 DEF Ingest, Types, RowType
  <2>2. \A d \in Event : d # e => row'[d].state = row[d].state
    BY <1>0, <1>1 DEF Ingest, Types
  <2>3. Status(e) = "none" /\ Status(e)' = "owed"
    BY <2>1, StatusIs, StatusIsNext
  <2>4. \A d \in Event : d # e => Status(d)' = Status(d)
    BY <2>2, SameStatus
  <2>5. Statuses' = [Statuses EXCEPT ![e] = "owed"] /\ Statuses[e] = "none"
    BY <2>3, <2>4 DEF Statuses
  <2> QED
    BY <1>1, <2>5 DEF Ingest, Contract!Raise, Statuses
<1>2. ASSUME NEW i \in Invocation, Project(i) PROVE Contract!Next
  <2>1. inv[i].at \in Event /\ inv[i].step \in Effect /\ row[inv[i].at].state # "none"
    BY <1>0, <1>2 DEF Project, Effect, KnowsItsEvents, InLoop
  <2>2. Status(inv[i].at) # "none"
    BY <1>0, <2>1, StatusIs DEF Types, RowType, RowState
  <2>3. \A e \in Event : Status(e)' = Status(e)
    BY <1>2, SameStatus DEF Project
  <2>4. Statuses' = Statuses /\ Statuses[inv[i].at] # "none"
    BY <2>1, <2>2, <2>3 DEF Statuses
  <2>5. Contract!Apply(inv[i].at, inv[i].step)
    BY <1>2, <2>4 DEF Project, Contract!Apply, Statuses
  <2> QED
    BY <2>1, <2>5 DEF Contract!Next
<1>3. ASSUME NEW i \in Invocation, Write(i)
      PROVE  Contract!Next \/ UNCHANGED Contract!vars
  <2>1. inv[i].at \in Event /\ inv[i].step = "write" /\ effects' = effects
    BY <1>0, <1>3 DEF Write, At, KnowsItsEvents, InLoop
  <2>2. CASE ~StillClaimed(row[inv[i].at])
    BY <1>3, <2>1, <2>2, SameStatus, Stutter DEF Write
  <2>3. CASE StillClaimed(row[inv[i].at])
    <3>0. PICK e \in Event : e = inv[i].at
      BY <2>1
    <3>1. row'[e] = [row[e] EXCEPT !.state = Verdict(i), !.live = {}]
      BY <1>0, <1>3, <2>1, <3>0, <2>3 DEF Write, Types
    <3>2. row[e].state = "CLAIMED" /\ row'[e].state = Verdict(i)
      <4>1. row[e] \in RowType
        BY <1>0, <2>1 DEF Types
      <4> QED
        BY <2>3, <3>0, <3>1, <4>1 DEF RowType, StillClaimed
    <3>3. \A d \in Event : d # e => row'[d].state = row[d].state
      BY <1>0, <1>3, <2>3, <3>0 DEF Write, Types
    <3>4. /\ Status(e) = "owed"
          /\ Verdict(i) = "DONE" => Status(e)' = "done"
          /\ Verdict(i) = "PENDING" => Status(e)' = "owed"
          /\ Verdict(i) = "DEAD" => Status(e)' = "dead"
      BY <2>1, <3>0, <3>2, StatusIs, StatusIsNext
    <3>5. \A d \in Event : d # e => Status(d)' = Status(d)
      BY <3>3, SameStatus
    <3>6. CASE Verdict(i) = "DONE"
      <4>1. effects[e] = Effect
        BY <1>0, <2>1, <3>0, <3>6 DEF Verdict, KnowsItsEvents
      <4>2. Statuses' = [Statuses EXCEPT ![e] = "done"] /\ Statuses[e] = "owed"
        BY <2>1, <3>0, <3>4, <3>5, <3>6 DEF Statuses
      <4>3. Contract!Finish(e)
        BY <2>1, <3>0, <4>1, <4>2 DEF Contract!Finish, Statuses
      <4> QED
        BY <2>1, <3>0, <4>3 DEF Contract!Next
    <3>7. CASE Verdict(i) = "PENDING"
      BY <2>1, <3>0, <3>4, <3>5, <3>7, Stutter
    <3>8. CASE Verdict(i) = "DEAD"
      <4>1. Statuses' = [Statuses EXCEPT ![e] = "dead"] /\ Statuses[e] = "owed"
        BY <2>1, <3>0, <3>4, <3>5, <3>8 DEF Statuses
      <4>2. Contract!GiveUp(e)
        BY <2>1, <3>0, <4>1 DEF Contract!GiveUp, Statuses
      <4> QED
        BY <2>1, <3>0, <4>2 DEF Contract!Next
    <3> QED
      BY <3>6, <3>7, <3>8, Verdicts
  <2> QED
    BY <2>2, <2>3
<1>4. ASSUME \A e \in Event : ~\E i \in Invocation : Write(i) /\ inv[i].at = e,
             \A e \in Event : ~Ingest(e), \A i \in Invocation : ~Project(i)
      PROVE  UNCHANGED Contract!vars
  <2>1. effects' = effects
    <3>1. ASSUME NEW i \in Invocation, Write(i) PROVE FALSE
      BY <1>0, <1>4, <3>1 DEF Write, At, KnowsItsEvents, InLoop
    <3> QED
      BY <1>4, <3>1 DEF Next, Work, Start, Reclaim, Claim, Take, Throw, Check, Report, Finish, Kill,
                        vars
  <2>2. ASSUME NEW e \in Event PROVE Status(e)' = Status(e)
    <3>1. CASE row'[e].state = row[e].state
      BY <3>1, SameStatus
    <3>2. CASE row[e].state \in {"PENDING", "CLAIMED"} /\ row'[e].state \in {"PENDING", "CLAIMED"}
      BY <3>2, StatusIs, StatusIsNext
    <3>3. ~(row[e].state = "none" /\ row'[e].state = "PENDING")
      <4> SUFFICES ASSUME row[e].state = "none", row'[e].state = "PENDING" PROVE FALSE
        OBVIOUS
      <4>1. row' # row
        <5> SUFFICES ASSUME row' = row PROVE FALSE
          OBVIOUS
        <5> QED
          OBVIOUS
      <4>2. ASSUME NEW i \in Invocation, Reclaim(i) PROVE FALSE
        BY <1>0, <4>2 DEF Reclaim, Lapsed
      <4>3. ASSUME NEW i \in Invocation, Claim(i) PROVE FALSE
        BY <1>0, <4>3 DEF Claim, Claimed, Batch
      <4>4. ASSUME NEW i \in Invocation, Finish(i) \/ Kill(i) PROVE FALSE
        BY <1>0, <4>4, GoneTypes DEF Finish, Kill
      <4>5. ASSUME NEW i \in Invocation, Write(i) PROVE FALSE
        BY <1>0, <1>4, <4>5 DEF Write, At, KnowsItsEvents, InLoop
      <4> QED
        BY <1>4, <4>1, <4>2, <4>3, <4>4, <4>5
        DEF Next, Work, Start, Take, Throw, Check, Report, vars
    <3> QED
      BY <1>4, <3>1, <3>2, <3>3, RowMoves
  <2> QED
    BY <2>1, <2>2, Stutter
<1> QED
  BY <1>1, <1>2, <1>3, <1>4 DEF Contract!Next

\* Whatever overlaps, throws or is killed, an event is owed until it is settled,
\* settled once, and done only when its whole projection is in place.
THEOREM ContractKept == Spec => KeepsContract
<1>1. ProjectionInv /\ [Next]_vars => ProjectionInv'
  BY NextTypes, NextKnows DEF ProjectionInv
<1> QED
  BY InitKnows, InitContract, NextContract, <1>1, PTL DEF Spec, KeepsContract, Contract!Spec

-----------------------------------------------------------------------------
(* Without an overlap.                                                     *)

LEMMA InitAlone == Init => AloneInv
BY IdleType DEF Init, AloneInv, Alone, Undisturbed, WorksAlone, At, NoRow

\* An invocation that acts is the only one, also when it has just started.
LEMMA OnlyOne ==
    ASSUME ProjectionInv, Alone, overlaps = 0, overlaps' = 0, NEW i \in Invocation,
           Start(i) \/ Work(i) \/ Throw(i) \/ Kill(i), NEW j \in Invocation, j # i
    PROVE  At(j, "idle") /\ inv'[j] = inv[j] /\ WorksAlone(j)'
<1>1. Types
  BY SameTypes DEF ProjectionInv
<1>2. At(j, "idle")
  <2>1. CASE Start(i)
    BY <2>1 DEF Start, Running
  <2>2. CASE Work(i) \/ Throw(i) \/ Kill(i)
    <3>1. ~At(i, "idle")
      BY <2>2 DEF Work, Throw, Kill, Reclaim, Claim, Take, Project, Check, Write, Report, Finish,
                  At, Effect
    <3> QED
      BY <3>1 DEF Alone
  <2> QED
    BY <2>1, <2>2
<1>3. inv'[j] = inv[j]
  BY <1>1, OthersStay
<1>4. inv'[j].step = "idle" /\ inv'[j].batch = {}
  BY <1>2, <1>3 DEF At, Alone, WorksAlone
<1> QED
  BY <1>2, <1>3, <1>4 DEF WorksAlone, At

\* A step of another actor, or none, keeps the claims of an invocation.
LEMMA ClaimsStay ==
    ASSUME ProjectionInv, [Next]_vars, NEW i \in Invocation, WorksAlone(i), inv'[i] = inv[i],
           \A e \in Event : row'[e] = row[e] \/ row[e].state = "none"
    PROVE  WorksAlone(i)'
<1>1. Types /\ KnowsItsEvents(i)
  BY SameTypes DEF ProjectionInv
<1>2. \A e \in Event : Claims(i, e) => Claims(i, e)'
  BY DEF Claims
<1>3. inv[i].batch \subseteq Event
  BY <1>1 DEF Types, InvType
<1>4. inv[i].step \in InLoop => inv[i].at \in Event /\ row'[inv[i].at] = row[inv[i].at]
  BY <1>1 DEF KnowsItsEvents
<1> QED
  BY <1>2, <1>3, <1>4 DEF WorksAlone, At, InLoop, Claims

LEMMA OverlapsStay == ProjectionInv /\ [Next]_vars /\ overlaps' = 0 => overlaps = 0
<1> SUFFICES ASSUME Types, [Next]_vars, overlaps' = 0 PROVE overlaps = 0
  BY SameTypes DEF ProjectionInv
<1>1. \A i \in Invocation : ~Start(i) \/ overlaps = 0
  BY Constants DEF Start, Types
<1> QED
  BY <1>1 DEF Next, Work, Ingest, Reclaim, Claim, Take, Project, Throw, Check, Write, Report,
              Finish, Kill, vars, history

\* The invocation that acts keeps its claims and its word.
LEMMA ActsAlone ==
    ASSUME ProjectionInv, Alone, Undisturbed, overlaps = 0, NEW i \in Invocation,
           Start(i) \/ Work(i) \/ Throw(i) \/ Kill(i)
    PROVE  WorksAlone(i)'
<1>0. Types /\ KnowsItsEvents(i) /\ WorksAlone(i) /\ inv[i] \in InvType
  BY SameTypes DEF ProjectionInv, Alone, Types
<1>1. CASE Start(i) \/ Reclaim(i)
  <2>1. inv'[i].batch = {} /\ inv'[i].step \in {"reclaim", "claim"}
    BY <1>0, <1>1, GoTypes DEF Start, Reclaim, Types, Step, At, WorksAlone
  <2> QED
    BY <2>1 DEF WorksAlone, At
<1>2. CASE Claim(i)
  <2>1. inv'[i].step = "next" /\ inv'[i].batch = Batch
    BY <1>0, <1>2 DEF Claim, Types, InvType
  <2>2. \A e \in Batch : Claims(i, e)'
    <3>1. \A e \in Batch : e \in Event /\ row'[e] = Claimed(row[e], i)
      BY <1>2 DEF Claim, Batch
    <3> QED
      BY <1>0, <3>1, ClaimedRow DEF Types, Claims
  <2> QED
    BY <2>1, <2>2 DEF WorksAlone, At
<1>3. ASSUME NEW e \in Event, Take(i, e) PROVE WorksAlone(i)'
  <2>1. /\ inv'[i].step = "signal" /\ inv'[i].at = e /\ inv'[i].batch = inv[i].batch \ {e}
        /\ inv'[i].ok = "yes"
    BY <1>0, <1>3 DEF Take, Types
  <2>2. \A d \in inv[i].batch : Claims(i, d)'
    BY <1>0, <1>3 DEF WorksAlone, Take, Claims
  <2> QED
    BY <1>3, <2>1, <2>2 DEF WorksAlone, At, Take
<1>4. CASE inv[i].step \in {"signal", "queue", "check"} /\ row' = row
           /\ \E s \in {"queue", "check", "write"}, n \in 0 .. MaxAttempts, o \in {"yes", "no"} :
                 /\ inv' = [inv EXCEPT ![i] = [@ EXCEPT !.step = s, !.ok = o, !.attempts = n]]
                 /\ s = "queue" => o = "yes"
                 /\ o = "no" => inv[i].at \in Faulty \/ inv[i].ok = "no"
  <2>1. PICK s \in {"queue", "check", "write"}, n \in 0 .. MaxAttempts, o \in {"yes", "no"} :
                 /\ inv' = [inv EXCEPT ![i] = [@ EXCEPT !.step = s, !.ok = o, !.attempts = n]]
                 /\ s = "queue" => o = "yes"
                 /\ o = "no" => inv[i].at \in Faulty \/ inv[i].ok = "no"
    BY <1>4
  <2>2. /\ inv'[i].step = s /\ inv'[i].ok = o /\ inv'[i].at = inv[i].at
        /\ inv'[i].batch = inv[i].batch
    BY <1>0, <2>1 DEF Types, InvType
  <2>3. /\ Claims(i, inv[i].at) /\ inv[i].at \notin inv[i].batch
        /\ \A e \in inv[i].batch : Claims(i, e)
        /\ inv[i].at \notin Faulty => inv[i].ok = "yes"
    BY <1>0, <1>4 DEF WorksAlone
  <2>4. /\ row'[inv[i].at] = row[inv[i].at] /\ \A e \in inv[i].batch : row'[e] = row[e]
    BY <1>4
  <2>5. /\ row'[inv[i].at].state = "CLAIMED" /\ i \in row'[inv[i].at].live
        /\ \A e \in inv[i].batch : row'[e].state = "CLAIMED" /\ i \in row'[e].live
    BY <2>3, <2>4 DEF Claims
  <2> QED
    BY <2>1, <2>2, <2>3, <2>5 DEF WorksAlone, At, Claims
<1>5. CASE Project(i)
  <2>1. inv[i].step \in {"signal", "queue"} /\ inv[i].ok = "yes" /\ inv[i].attempts \in 0 .. MaxAttempts
    BY <1>0, <1>5 DEF Project, Effect, WorksAlone, InvType
  <2>2. AfterEffect(inv[i].step) \in {"queue", "check"}
    BY DEF AfterEffect
  <2>3. inv' = [inv EXCEPT ![i] = [inv[i] EXCEPT !.step = AfterEffect(inv[i].step)]]
    BY <1>5, <2>2 DEF Project, Go
  <2>4. [inv[i] EXCEPT !.step = AfterEffect(inv[i].step)] =
        [inv[i] EXCEPT !.step = AfterEffect(inv[i].step), !.ok = "yes", !.attempts = inv[i].attempts]
    BY <1>0, <2>1 DEF InvType
  <2>5. inv' = [inv EXCEPT ![i] = [@ EXCEPT !.step = AfterEffect(inv[i].step), !.ok = "yes",
                                            !.attempts = inv[i].attempts]]
    BY <2>3, <2>4
  <2>6. row' = row
    BY <1>5 DEF Project
  <2> QED
    BY <1>4, <2>1, <2>2, <2>5, <2>6
<1>6. CASE Throw(i)
  <2>1. inv[i].step \in {"signal", "queue"} /\ inv[i].attempts \in 0 .. MaxAttempts
        /\ inv[i].at \in Faulty /\ row' = row
    BY <1>0, <1>6 DEF Throw, Effect, InvType
  <2>2. [inv[i] EXCEPT !.step = "check", !.ok = "no"] =
        [inv[i] EXCEPT !.step = "check", !.ok = "no", !.attempts = inv[i].attempts]
    BY <1>0 DEF InvType
  <2>3. inv' = [inv EXCEPT ![i] = [@ EXCEPT !.step = "check", !.ok = "no",
                                            !.attempts = inv[i].attempts]]
    BY <1>6, <2>2 DEF Throw
  <2> QED
    BY <1>4, <2>1, <2>3
<1>7. CASE Check(i)
  <2>1. inv[i].step = "check" /\ Claims(i, inv[i].at) /\ inv[i].at \in Event
    BY <1>0, <1>7 DEF Check, At, WorksAlone, KnowsItsEvents, InLoop
  <2>2. inv' = [inv EXCEPT ![i] = [@ EXCEPT !.step = "write", !.attempts = row[inv[i].at].attempts]]
        /\ row' = row
    BY <1>7, <2>1 DEF Check, Claims
  <2>3. row[inv[i].at].attempts \in 0 .. MaxAttempts /\ inv[i].ok \in {"yes", "no"}
    BY <1>0, <2>1 DEF Types, RowType, InvType
  <2>4. [inv[i] EXCEPT !.step = "write", !.attempts = row[inv[i].at].attempts] =
        [inv[i] EXCEPT !.step = "write", !.ok = inv[i].ok, !.attempts = row[inv[i].at].attempts]
    BY <1>0 DEF InvType
  <2>5. inv' = [inv EXCEPT ![i] = [@ EXCEPT !.step = "write", !.ok = inv[i].ok,
                                            !.attempts = row[inv[i].at].attempts]]
    BY <2>2, <2>4
  <2> QED
    BY <1>4, <2>1, <2>2, <2>3, <2>5
<1>8. CASE Write(i)
  <2>1. /\ inv[i].step = "write" /\ inv[i].at \in Event /\ row[inv[i].at].state = "CLAIMED"
        /\ inv[i].at \notin inv[i].batch
    BY <1>0, <1>8 DEF Write, At, WorksAlone, KnowsItsEvents, InLoop, Claims
  <2>2. row' = [row EXCEPT ![inv[i].at] = [row[inv[i].at] EXCEPT !.state = Verdict(i), !.live = {}]]
    BY <1>8, <2>1 DEF Write, StillClaimed
  <2>3. row[inv[i].at] \in RowType /\ inv[i].batch \subseteq Event
    BY <1>0, <2>1 DEF Types, InvType
  <2>4. row'[inv[i].at].state = Verdict(i)
    BY <1>0, <2>1, <2>2, <2>3 DEF Types, RowType
  <2>5. \A e \in inv[i].batch : Claims(i, e) /\ row'[e] = row[e]
    BY <1>0, <2>1, <2>2, <2>3 DEF Types, WorksAlone
  <2>6. /\ inv'[i].step = AfterWrite(i) /\ inv'[i].batch = inv[i].batch
        /\ AfterWrite(i) = "report" => inv'[i] = [inv[i] EXCEPT !.step = "report"]
    BY <1>0, <1>8, GoTypes DEF Write, AfterWrite, Types, Step
  <2>7. AfterWrite(i) = "report" => inv'[i].at = inv[i].at
    BY <1>0, <2>6 DEF InvType
  <2> QED
    BY <2>4, <2>5, <2>6, <2>7 DEF WorksAlone, At, AfterWrite, Claims
<1>9. CASE Report(i)
  <2>1. inv'[i].step = "next" /\ inv'[i].batch = inv[i].batch /\ row' = row
    BY <1>0, <1>9, GoTypes DEF Report, Types, Step
  <2> QED
    BY <1>0, <2>1 DEF WorksAlone, At, Claims
<1>10. CASE Finish(i) \/ Kill(i)
  <2>1. inv'[i] = Idle
    BY <1>0, <1>10, GoneTypes DEF Finish, Kill
  <2> QED
    BY <2>1, IdleType DEF WorksAlone, At
<1> QED
  BY <1>1, <1>2, <1>3, <1>5, <1>6, <1>7, <1>8, <1>9, <1>10 DEF Work

LEMMA StaysUndisturbed ==
    ASSUME ProjectionInv, Alone, Undisturbed, [Next]_vars
    PROVE  Undisturbed'
<1>0. Types
  BY SameTypes DEF ProjectionInv
<1>1. ASSUME NEW e \in Event, row[e].state = "DEAD" PROVE row'[e].state = "DEAD"
  BY <1>1, RowMoves
<1>2. ASSUME NEW e \in reported' PROVE row'[e].state = "DEAD"
  <2>1. CASE e \in reported
    BY <1>0, <1>1, <2>1 DEF Undisturbed, Types
  <2>2. CASE e \notin reported
    <3>1. PICK i \in Invocation : Report(i) /\ inv[i].at = e
      BY <2>2 DEF Next, Work, Ingest, Start, Reclaim, Claim, Take, Project, Throw, Check, Write,
                  Report, Finish, Kill, vars, history
    <3>2. row[e].state = "DEAD" /\ row' = row
      BY <3>1 DEF Report, Alone, WorksAlone
    <3> QED
      BY <3>2
  <2> QED
    BY <2>1, <2>2
<1>3. ASSUME NEW e \in Event \ Faulty, row'[e].state = "DEAD" PROVE FALSE
  <2>1. row[e].state # "DEAD"
    BY DEF Undisturbed
  <2>2. PICK i \in Invocation : Write(i) /\ inv[i].at = e /\ Verdict(i) = "DEAD"
    BY <1>3, <2>1, RowMoves
  <2>3. inv[i].ok = "yes"
    BY <2>2 DEF Write, At, Alone, WorksAlone
  <2> QED
    BY <2>2, <2>3 DEF Verdict
<1>4. skipped' = "no"
  <2>1. \A i \in Invocation : ~At(i, "abort")
    BY DEF Alone, WorksAlone
  <2>2. skipped = "no"
    BY DEF Undisturbed
  <2> QED
    BY <2>1, <2>2 DEF Next, Work, Ingest, Start, Reclaim, Claim, Take, Project, Throw, Check, Write, Report,
                            Finish, Kill, vars, history
<1> QED
  BY <1>2, <1>3, <1>4 DEF Undisturbed

LEMMA NextAlone == ProjectionInv /\ AloneInv /\ [Next]_vars => AloneInv'
<1> SUFFICES ASSUME ProjectionInv, Alone, Undisturbed, [Next]_vars, overlaps = 0, overlaps' = 0
             PROVE  Alone' /\ Undisturbed'
  BY OverlapsStay DEF AloneInv
<1>0. Types
  BY SameTypes DEF ProjectionInv
<1>1. Undisturbed'
  BY StaysUndisturbed
<1>2. ASSUME NEW i \in Invocation, Start(i) \/ Work(i) \/ Throw(i) \/ Kill(i) PROVE Alone'
  <2>1. WorksAlone(i)'
    BY <1>2, ActsAlone
  <2>2. \A j \in Invocation : j # i => inv'[j].step = "idle" /\ WorksAlone(j)'
    BY <1>2, OnlyOne DEF At
  <2> QED
    BY <2>1, <2>2 DEF Alone, At
<1>3. CASE UNCHANGED vars \/ \E e \in Event : Ingest(e)
  <2>1. inv' = inv /\ \A e \in Event : row'[e] = row[e] \/ row[e].state = "none"
    BY <1>0, <1>3 DEF vars, Ingest, Types
  <2>2. \A i \in Invocation : WorksAlone(i)'
    BY <2>1, ClaimsStay DEF Alone
  <2>3. \A i, j \in Invocation : inv[i].step = "idle" \/ inv[j].step = "idle" \/ i = j
    BY DEF Alone, At
  <2>4. \A i, j \in Invocation : inv'[i].step = "idle" \/ inv'[j].step = "idle" \/ i = j
    BY <2>1, <2>3
  <2> QED
    BY <1>1, <2>2, <2>4 DEF Alone, At
<1> QED
  BY <1>1, <1>2, <1>3 DEF Next

\* As long as every invocation ends within its minute, killed or not, only the
\* dead are reported, a projection that can succeed is not given up, and no
\* tick fails before it reaches the sources.
THEOREM TicksAlone == Spec => []AloneTicksAreSound
<1>1. ProjectionInv /\ [Next]_vars => ProjectionInv'
  BY NextTypes, NextKnows DEF ProjectionInv
<1>2. AloneInv => AloneTicksAreSound
  BY DEF AloneInv, Undisturbed, AloneTicksAreSound
<1> QED
  BY InitKnows, InitAlone, NextAlone, <1>1, <1>2, PTL DEF Spec
===============================================================================
