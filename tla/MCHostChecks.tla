----------------------------- MODULE MCHostChecks -----------------------------
(***************************************************************************)
(* Instances of HostChecks for TLC: two record types and both findings.  A *)
(* budget says how many events of all sorts one behaviour may contain,     *)
(* whether checks may overlap, and how often each event may happen.        *)
(***************************************************************************)
EXTENDS HostChecks, TLC

Allow(any, overlap, edit, win, resolve, crash, manual) ==
  [any |-> any, overlap |-> overlap, edit |-> edit, window |-> win,
   resolve |-> resolve, crash |-> crash, manual |-> manual]

TwoTypes == <<"A", "NS">>

\* One check at a time through many events; two through one event, or through
\* a crash and an edit.
BudgetsAll == {Allow(3, 0, 3, 1, 1, 1, 1), Allow(1, 1, 1, 1, 1, 1, 0),
               Allow(2, 1, 1, 0, 0, 1, 0)}
=============================================================================
