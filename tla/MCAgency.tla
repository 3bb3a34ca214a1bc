------------------------------- MODULE MCAgency -------------------------------
(* Instances of AgencyClearance for TLC. *)
EXTENDS AgencyClearance, TLC

\* Beyond the first report of the offer: a second one, a kill or an overlap.
FewDisturbances == ingests + kills + Cardinality(disturbed) <= 2

\* Completions differ in nothing, and neither do the ids of rechecks. None of
\* the properties is a liveness property.
Symmetry == Permutations(Call) \cup Permutations(Recheck)
===============================================================================
