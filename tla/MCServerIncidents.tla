-------------------------- MODULE MCServerIncidents --------------------------
(***************************************************************************)
(* Instances of ServerIncidents for TLC.  Budgets bound the environment:   *)
(* how many pushes, crashes, window edits, deletions and manual resolves   *)
(* one behaviour may contain.                                              *)
(***************************************************************************)
EXTENDS ServerIncidents, TLC

Allow(push, crash, save, delete, resolve) ==
  [push |-> push, crash |-> crash, save |-> save, delete |-> delete,
   resolve |-> resolve, overlap |-> 1]

BudgetRace == Allow(2, 0, 1, 0, 1)
BudgetLive == Allow(2, 1, 1, 1, 1)

HandlerSymmetry == Permutations(Handlers)
=============================================================================
