------------------------------ MODULE MCLifecycle ------------------------------
(* Instances of LiveOfferLifecycle for TLC. *)
EXTENDS LiveOfferLifecycle

\* Every offer is an airline's own, and confirms the fare alone.
Singly == {{o} : o \in Offer}

NoSteps == {}

\* Everywhere but between a verdict and the batch that belongs to it.
Recoverable == Step \ {"idle", "supports", "candidate", "look", "apply"}
================================================================================
