---------------------------- MODULE AlertContract ----------------------------
(***************************************************************************)
(* What the alert outbox of src/outbox.ts promises to the code that raises *)
(* an alert, with no leases, crons, handlers or retries: once accepted, an *)
(* alert is owed until it is settled, it is settled at most once, it is    *)
(* settled as delivered only after the webhook took it and as dead only    *)
(* after the webhook refused it or the attempts ran out, and an alert held *)
(* back in shadow mode never reaches the webhook at all.                   *)
(***************************************************************************)
CONSTANT Id          \* the alerts that can be raised

VARIABLES
    promise,         \* promise[i]: what the system owes for alert i
    taken,           \* the alerts the webhook has taken at least once
    hopeless         \* the alerts refused for good or out of attempts

Promise == {"none", "owed", "held", "delivered", "dead"}

vars == <<promise, taken, hopeless>>

Init ==
    /\ promise = [i \in Id |-> "none"]
    /\ taken = {}
    /\ hopeless = {}

Accept(i) ==
    /\ promise[i] = "none"
    /\ promise' = [promise EXCEPT ![i] = "owed"]
    /\ UNCHANGED <<taken, hopeless>>

\* A shadow projection withholds a whole batch of owed alerts in one step.
Hold(S) ==
    /\ \A i \in S : promise[i] = "owed"
    /\ promise' = [i \in Id |-> IF i \in S THEN "held" ELSE promise[i]]
    /\ UNCHANGED <<taken, hopeless>>

\* The webhook may see an alert again after it is settled: delivery is at
\* least once. It never sees one that was not accepted or that is held.
Post(i) ==
    /\ promise[i] \in {"owed", "delivered", "dead"}
    /\ \/ taken' = taken \cup {i} /\ hopeless' = hopeless
       \/ hopeless' = hopeless \cup {i} /\ taken' = taken
    /\ UNCHANGED promise

\* Attempts run out for a batch of alerts a worker takes up once more.
Exhaust(S) ==
    /\ \A i \in S : promise[i] = "owed"
    /\ hopeless' = hopeless \cup S
    /\ UNCHANGED <<promise, taken>>

Deliver(i) ==
    /\ promise[i] = "owed"
    /\ i \in taken
    /\ promise' = [promise EXCEPT ![i] = "delivered"]
    /\ UNCHANGED <<taken, hopeless>>

GiveUp(i) ==
    /\ promise[i] = "owed"
    /\ i \in hopeless
    /\ promise' = [promise EXCEPT ![i] = "dead"]
    /\ UNCHANGED <<taken, hopeless>>

Next ==
    \/ \E i \in Id : Accept(i) \/ Post(i) \/ Deliver(i) \/ GiveUp(i)
    \/ \E S \in SUBSET Id : Hold(S) \/ Exhaust(S)

Spec == Init /\ [][Next]_vars
=============================================================================
