------------------------------ MODULE MCPlanning ------------------------------
EXTENDS SearchPlanning, TLC
CONSTANTS c1, c2

AllRoutes == (Campaign \X Signal) \ {<<c2, 1>>}
\* The first promotion is open to the first and the last query only.
Windows == [q \in Signal |-> IF q = 1 THEN {1, 3} ELSE Query]
Listings == {Query, {2}}
Offers == (c1 :> Query) @@ (c2 :> {2})
=============================================================================
