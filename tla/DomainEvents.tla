----------------------------- MODULE DomainEvents -----------------------------
(***************************************************************************)
(* The domain outbox (src/outbox.ts: claimDomainEvents, ackDomainEvent)    *)
(* and its projection by the cron (src/ingest.ts: projectDomainEvents).    *)
(* Every awaited statement is an action of an invocation. All invocations  *)
(* claim under the one name "cron", so that claimed_by tells an invocation *)
(* nothing about whose claim it looks at: only the lease time does.        *)
(*                                                                         *)
(* A lease runs until 60 s after the tick of its claimant, the time that   *)
(* every check of an invocation goes by is the time of its own tick, and   *)
(* ticks are at least 60 s apart. A lease is therefore live for the        *)
(* invocations whose tick is not later than its claimant's, and lapsed for *)
(* every later one, however long the claimant takes.                       *)
(***************************************************************************)
EXTENDS Naturals, FiniteSets

CONSTANTS
    Events,         \* number of rows; their ids are in the order of arrival
    Faulty,         \* events whose projection may throw
    Invocation,     \* invocations of the cron that may overlap
    MaxAttempts,    \* five in the code
    ClaimLimit,     \* two in the code
    MaxKills,       \* invocations killed: the platform does not kill for ever
    MaxOverlaps     \* invocations still running at the next tick

Event == 1 .. Events

ASSUME DomainAssumption ==
    /\ Events \in Nat /\ Faulty \subseteq Event
    /\ MaxAttempts \in Nat \ {0} /\ ClaimLimit \in Nat \ {0}
    /\ MaxKills \in Nat /\ MaxOverlaps \in Nat

VARIABLES
    row,            \* domain_outbox
    effects,        \* what each projection has put in place
    reported,       \* events whose death raised an ADMIN alert
    inv,            \* invocations of projectDomainEvents
    before,         \* before[i]: those still running with an earlier tick
    unreported,     \* history: events whose report was killed
    skipped,        \* history: an invocation has thrown before scheduleDueSources
    kills,          \* invocations killed so far
    overlaps        \* overlapping starts so far

vars == <<row, effects, reported, inv, before, unreported, skipped, kills, overlaps>>
history == <<unreported, skipped, kills, overlaps>>

\* A promotion signal is written in one batch, its queue row in the next.
Effect == {"signal", "queue"}

NoRow == [state |-> "none", live |-> {}, attempts |-> 0]
Idle == [step |-> "idle", batch |-> {}, at |-> 0, ok |-> "yes", attempts |-> 0]

Init ==
    /\ row = [e \in Event |-> NoRow]
    /\ effects = [e \in Event |-> {}]
    /\ reported = {}
    /\ inv = [i \in Invocation |-> Idle]
    /\ before = [i \in Invocation |-> {}]
    /\ unreported = {} /\ skipped = "no"
    /\ kills = 0 /\ overlaps = 0

At(i, s) == inv[i].step = s
\* What the loop body knew is gone when the loop goes on.
Go(i, s) ==
    inv' = [inv EXCEPT ![i] = IF s = "next" THEN [Idle EXCEPT !.step = s, !.batch = inv[i].batch]
                              ELSE [inv[i] EXCEPT !.step = s]]
Running == {i \in Invocation : ~At(i, "idle")}

\* The observation, or what else the event is about, comes in the same batch.
\* A second report of it is ignored. AUTOINCREMENT numbers the rows.
Ingest(e) ==
    /\ row[e].state = "none" /\ \A d \in Event : d < e => row[d].state # "none"
    /\ row' = [row EXCEPT ![e].state = "PENDING"]
    /\ UNCHANGED <<effects, reported, inv, before, history>>

\* A later tick than that of any invocation under way.
Start(i) ==
    /\ At(i, "idle")
    /\ Running # {} => overlaps < MaxOverlaps
    /\ overlaps' = IF Running = {} THEN overlaps ELSE overlaps + 1
    /\ before' = [before EXCEPT ![i] = Running]
    /\ Go(i, "reclaim")
    /\ UNCHANGED <<row, effects, reported, unreported, skipped, kills>>

\* Fault: a lapsed lease counts as a failed attempt.
BuriedOrPending(q) ==
    [q EXCEPT !.state = IF q.attempts = MaxAttempts THEN "DEAD" ELSE "PENDING", !.live = {}]
Reclaimed(q) == [q EXCEPT !.state = "PENDING", !.live = {}]

\* Fault: an abandoned claim is never taken back.
NeverLapsed(q, i) == FALSE
Lapsed(q, i) == q.state = "CLAIMED" /\ i \notin q.live

Reclaim(i) ==
    /\ At(i, "reclaim")
    /\ row' = [e \in Event |-> IF Lapsed(row[e], i) THEN Reclaimed(row[e]) ELSE row[e]]
    /\ Go(i, "claim")
    /\ UNCHANGED <<effects, reported, before, history>>

\* ORDER BY id LIMIT
Batch ==
    LET pending == {e \in Event : row[e].state = "PENDING"}
    IN  {e \in pending : Cardinality({d \in pending : d < e}) < ClaimLimit}

LiveFor(i) == before[i] \cup {i}

Claimed(q, i) ==
    [state |-> "CLAIMED", live |-> LiveFor(i),
     attempts |-> IF q.attempts < MaxAttempts THEN q.attempts + 1 ELSE q.attempts]

Claim(i) ==
    /\ At(i, "claim")
    /\ row' = [e \in Event |-> IF e \in Batch THEN Claimed(row[e], i) ELSE row[e]]
    /\ inv' = [inv EXCEPT ![i] = [@ EXCEPT !.step = "next", !.batch = Batch]]
    /\ UNCHANGED <<effects, reported, before, history>>

\* The SELECTs of the next event; RETURNING has no order.
Take(i, e) ==
    /\ At(i, "next") /\ e \in inv[i].batch
    /\ inv' = [inv EXCEPT ![i] = [step |-> "signal", batch |-> @.batch \ {e}, at |-> e,
                                  ok |-> "yes", attempts |-> 0]]
    /\ UNCHANGED <<row, effects, reported, before, history>>

\* Fault: the queue row is left to the next observation.
SignalOnly(s) == IF s = "signal" THEN "check" ELSE s
AfterEffect(s) == IF s = "signal" THEN "queue" ELSE "check"

\* Both are upserts.
Project(i) ==
    /\ inv[i].step \in Effect
    /\ effects' = [effects EXCEPT ![inv[i].at] = @ \cup {inv[i].step}]
    /\ Go(i, AfterEffect(inv[i].step))
    /\ UNCHANGED <<row, reported, before, history>>

Throw(i) ==
    /\ inv[i].step \in Effect /\ inv[i].at \in Faulty
    /\ inv' = [inv EXCEPT ![i] = [@ EXCEPT !.step = "check", !.ok = "no"]]
    /\ UNCHANGED <<row, effects, reported, before, history>>

\* The SELECT of ackDomainEvent and its checks. The acknowledgement of a good
\* projection is inside the try: when it throws, the same event is acknowledged
\* as failed. When that throws, the invocation ends.
Check(i) ==
    /\ At(i, "check")
    /\ LET q == row[inv[i].at]
           mine == q.state = "CLAIMED" /\ i \in q.live
       IN  \/ q.state \in {"DONE", "DEAD"} /\ Go(i, "next")
           \/ /\ mine
              /\ inv' = [inv EXCEPT ![i] = [@ EXCEPT !.step = "write", !.attempts = q.attempts]]
           \/ /\ q.state \notin {"DONE", "DEAD"} /\ ~mine
              /\ inv' = IF inv[i].ok = "yes" THEN [inv EXCEPT ![i].ok = "no"]
                        ELSE [inv EXCEPT ![i].step = "abort"]
    /\ UNCHANGED <<row, effects, reported, before, history>>

\* Fault: what the caller is told is stored as the state.
Answer(i) ==
    IF inv[i].ok = "yes" THEN "DONE"
    ELSE IF inv[i].attempts < MaxAttempts THEN "RETRY" ELSE "DEAD"
Verdict(i) ==
    IF inv[i].ok = "yes" THEN "DONE"
    ELSE IF inv[i].attempts < MaxAttempts THEN "PENDING" ELSE "DEAD"

StillClaimed(q) == q.state = "CLAIMED"

\* Fault: only a first death is reported.
ReportsLast(i) == IF Verdict(i) = "DEAD" /\ inv[i].batch = {} THEN "report" ELSE "next"
AfterWrite(i) == IF Verdict(i) = "DEAD" THEN "report" ELSE "next"

\* The guarded UPDATE. What follows does not ask whether it changed the row.
Write(i) ==
    /\ At(i, "write")
    /\ row' = IF StillClaimed(row[inv[i].at])
              THEN [row EXCEPT ![inv[i].at].state = Verdict(i), ![inv[i].at].live = {}]
              ELSE row
    /\ Go(i, AfterWrite(i))
    /\ UNCHANGED <<effects, reported, before, history>>

Report(i) ==
    /\ At(i, "report")
    /\ reported' = reported \cup {inv[i].at}
    /\ Go(i, "next")
    /\ UNCHANGED <<row, effects, before, history>>

\* An invocation is over: no lease is live for it any more.
Gone(i) ==
    /\ inv' = [inv EXCEPT ![i] = Idle]
    /\ before' = [j \in Invocation |-> IF j = i THEN {} ELSE before[j] \ {i}]
    /\ row' = [e \in Event |-> [row[e] EXCEPT !.live = @ \ {i}]]

\* Either goes on to scheduleDueSources, or does not get there.
Finish(i) ==
    /\ \/ At(i, "next") /\ inv[i].batch = {}
       \/ At(i, "abort")
    /\ Gone(i)
    /\ skipped' = IF At(i, "abort") THEN "yes" ELSE skipped
    /\ UNCHANGED <<effects, reported, unreported, kills, overlaps>>

Kill(i) ==
    /\ ~At(i, "idle") /\ kills < MaxKills
    /\ Gone(i)
    /\ unreported' = IF At(i, "report") THEN unreported \cup {inv[i].at} ELSE unreported
    /\ kills' = kills + 1
    /\ UNCHANGED <<effects, reported, skipped, overlaps>>

Work(i) ==
    \/ Reclaim(i) \/ Claim(i) \/ Project(i) \/ Check(i) \/ Write(i) \/ Report(i) \/ Finish(i)
    \/ \E e \in Event : Take(i, e)

Next ==
    \/ \E e \in Event : Ingest(e)
    \/ \E i \in Invocation : Start(i) \/ Work(i) \/ Throw(i) \/ Kill(i)

\* The cron comes back every minute, and an invocation that is not killed runs
\* to its end.
Fairness == \A i \in Invocation : WF_vars(Start(i)) /\ WF_vars(Work(i))

Spec == Init /\ [][Next]_vars
FairSpec == Spec /\ Fairness
-----------------------------------------------------------------------------
(* Properties.                                                             *)

RowState == {"none", "PENDING", "CLAIMED", "DONE", "DEAD"}
Step == {"idle", "reclaim", "claim", "next", "signal", "queue", "check", "write", "report",
         "abort"}

TypeOK ==
    /\ row \in [Event -> [state : RowState, live : SUBSET Invocation,
                          attempts : 0 .. MaxAttempts]]
    /\ effects \in [Event -> SUBSET Effect]
    /\ reported \subseteq Event
    /\ inv \in [Invocation -> [step : Step, batch : SUBSET Event, at : Event \cup {0},
                               ok : {"yes", "no"}, attempts : 0 .. MaxAttempts]]
    /\ before \in [Invocation -> SUBSET Invocation]
    /\ unreported \subseteq Event /\ skipped \in {"yes", "no"}
    /\ kills \in 0 .. MaxKills /\ overlaps \in 0 .. MaxOverlaps

\* What the outbox looks like to those who raise events.
Status(e) ==
    CASE row[e].state = "none" -> "none"
      [] row[e].state \in {"PENDING", "CLAIMED"} -> "owed"
      [] row[e].state = "DONE" -> "done"
      [] row[e].state = "DEAD" -> "dead"

Contract == INSTANCE EventContract WITH status <- [e \in Event |-> Status(e)]

\* Whatever overlaps or is killed, an event is settled once, and as done only
\* when its projection is complete.
KeepsContract == Contract!Spec

\* A dead event has been reported, or is about to be, or the invocation that
\* would have done it was killed between the two statements.
DeadIsReported ==
    \A e \in Event : row[e].state = "DEAD" =>
        e \in reported \cup unreported \/ \E i \in Invocation : At(i, "report") /\ inv[i].at = e

\* As long as no invocation outlives its minute, what is reported is dead, an
\* event that can be projected does not die, however often its projection is
\* killed, and every tick that is not killed gets to the sources.
AloneTicksAreSound ==
    overlaps = 0 =>
        /\ \A e \in reported : row[e].state = "DEAD"
        /\ \A e \in Event \ Faulty : row[e].state # "DEAD"
        /\ skipped = "no"

\* Every event is projected in the end, or dead.
EveryEventSettles == \A e \in Event : row[e].state # "none" ~> row[e].state \in {"DONE", "DEAD"}
=============================================================================
