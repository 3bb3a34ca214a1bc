------------------------------- MODULE MCOutbox -------------------------------
(* Instances of NotificationOutbox for TLC. *)
EXTENDS NotificationOutbox, TLC

\* A tick is the time of a lease (60 s). The backoff after attempt a, which
\* doubles with every attempt, is up to 2^(a-1) ticks: an upper bound, as
\* AckRetry leaves any part of it.
ScaledDelay == [a \in 1 .. MaxAttempts |-> 2 ^ (a - 1)]

Interchangeable == Permutations(Worker)
===============================================================================
