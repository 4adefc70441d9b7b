----------------------------- MODULE MCHeartbeat -----------------------------
(***************************************************************************)
(* Instances of Heartbeat for TLC.  Budgets bound the pings, crashes,      *)
(* hand-made incidents and manual resolves of one behaviour.               *)
(***************************************************************************)
EXTENDS Heartbeat, TLC

Allow(ping, crash, report, resolve) ==
  [ping |-> ping, crash |-> crash, report |-> report, resolve |-> resolve,
   overlap |-> 1]

BudgetAll == Allow(2, 1, 1, 1)
BudgetWindow == Allow(0, 0, 0, 0)

\* A cadence of two instants.
EveryTwo == [b \in 1 .. MaxTime |-> b + 2]
=============================================================================
