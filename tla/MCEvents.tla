------------------------------- MODULE MCEvents -------------------------------
(* Instances of DomainEvents for TLC. *)
EXTENDS DomainEvents
===============================================================================
