------------------------------- MODULE MCSearch -------------------------------
(* Instances of ProviderSearch for TLC. *)
EXTENDS ProviderSearch

CONSTANTS j1, j2

\* Plans with one query share its job; a refresh key makes a job of its own.
SharedQuery == [a \in Ask |-> IF a \in Plan THEN j1 ELSE j2]
===============================================================================
