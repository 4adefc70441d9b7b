------------------------------ MODULE MCBackfill ------------------------------
(***************************************************************************)
(* Instances of Backfill for TLC: two monitors that share a token, and one *)
(* whose agent was never installed.                                        *)
(***************************************************************************)
EXTENDS Backfill, TLC

Allow(backfill, rollback, abort, die, pushes, detach) ==
  [backfill |-> backfill, rollback |-> rollback, abort |-> abort, die |-> die,
   push |-> pushes, detach |-> detach]

BudgetRoundTrip == Allow(2, 3, 1, 1, 1, 1)

Box == [m \in Monitors |-> IF m = 3 THEN "b" ELSE "a"]
Owners == <<2, 1, 2>>
=============================================================================
