------------------------------ MODULE MCDispatch ------------------------------
(***************************************************************************)
(* Instances of Dispatch for TLC.  A budget says how often each event may  *)
(* happen in one behaviour, and how many of them together.                 *)
(***************************************************************************)
EXTENDS Dispatch

Allow(site, behind, late, crash, manual, edit, any) ==
  [site |-> site, behind |-> behind, late |-> late,
   crash |-> crash, manual |-> manual, edit |-> edit, any |-> any]

BudgetLoop == Allow(1, 1, 1, 1, 1, 1, 1)
=============================================================================
