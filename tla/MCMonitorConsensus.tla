-------------------------- MODULE MCMonitorConsensus --------------------------
(***************************************************************************)
(* Instances of MonitorConsensus for TLC.  Budgets bound the environment:  *)
(* results, legacy pushes, missed-push checks, crashes, manual resolves    *)
(* and pauses one behaviour may contain.                                   *)
(***************************************************************************)
EXTENDS MonitorConsensus, TLC

Allow(check, push, missed, crash, resolve, toggle) ==
  [check |-> check, push |-> push, missed |-> missed, crash |-> crash,
   resolve |-> resolve, toggle |-> toggle]

BudgetRace == Allow(3, 0, 1, 0, 1, 0)
BudgetRecover == Allow(4, 1, 0, 1, 0, 1)

EvaluatorSymmetry == Permutations(Evaluators)
=============================================================================
