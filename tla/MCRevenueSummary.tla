-------------------------- MODULE MCRevenueSummary --------------------------
(* Small instances of RevenueSummary.  The second month earns nothing, which *)
(* leaves its costs to tell a stale summary by.                              *)
EXTENDS RevenueSummary, TLC

CONSTANTS h1, c1, c2

FirstMonthEarns == [k \in Keys |-> IF k[2] = 1 THEN {0, 1} ELSE {0}]
FirstMonthEarned == [k \in Keys |-> IF k[2] = 1 THEN {1} ELSE {0}]

ClerkSymmetry == Permutations(Clerks)
=============================================================================
