---------------------------- MODULE EventContract ----------------------------
(***************************************************************************)
(* What the domain outbox of src/outbox.ts promises to the code that       *)
(* raises an event, with no leases, batches, retries or crons: an event is *)
(* owed until it is settled, it is settled once and for all, and it is     *)
(* settled as done only when everything it stands for is in place.         *)
(***************************************************************************)
CONSTANTS
    Event,
    Effect          \* what the projection of an event puts in place

VARIABLES
    status,         \* status[e]: what the system owes for event e
    effects         \* effects[e]: what is in place for event e

vars == <<status, effects>>

Init ==
    /\ status = [e \in Event |-> "none"]
    /\ effects = [e \in Event |-> {}]

Raise(e) ==
    /\ status[e] = "none"
    /\ status' = [status EXCEPT ![e] = "owed"]
    /\ UNCHANGED effects

\* An effect may come about more than once, and after the event was settled.
Apply(e, x) ==
    /\ status[e] # "none"
    /\ effects' = [effects EXCEPT ![e] = @ \cup {x}]
    /\ UNCHANGED status

Finish(e) ==
    /\ status[e] = "owed" /\ effects[e] = Effect
    /\ status' = [status EXCEPT ![e] = "done"]
    /\ UNCHANGED effects

GiveUp(e) ==
    /\ status[e] = "owed"
    /\ status' = [status EXCEPT ![e] = "dead"]
    /\ UNCHANGED effects

Next ==
    \E e \in Event : \/ Raise(e) \/ Finish(e) \/ GiveUp(e)
                     \/ \E x \in Effect : Apply(e, x)

Spec == Init /\ [][Next]_vars
==============================================================================
