---------------------------- MODULE MCInlineChecks ----------------------------
(***************************************************************************)
(* Instances of InlineChecks for TLC.  A budget says how many events of    *)
(* all sorts one behaviour may contain, whether checks may overlap, and    *)
(* how often each event may happen.                                        *)
(***************************************************************************)
EXTENDS InlineChecks, TLC

Allow(any, overlap, day, renew, change, win, resolve, crash, manual) ==
  [any |-> any, overlap |-> overlap, day |-> day, renew |-> renew,
   change |-> change, window |-> win, resolve |-> resolve, crash |-> crash,
   manual |-> manual]

\* The ladders of days and the levels one check at a time, what fails and
\* recovers with two.
Ladder == Allow(3, 0, 3, 1, 1, 0, 0, 1, 0)
Sites == Allow(4, 0, 0, 2, 1, 1, 1, 1, 0)
Handshakes == Allow(2, 1, 0, 1, 2, 0, 0, 1, 0)
Failures == Allow(3, 1, 0, 0, 2, 1, 1, 1, 1)
Assertions == Allow(2, 1, 0, 0, 2, 1, 1, 1, 0)

BudgetsAll == [k \in Kinds |->
  CASE k = "ssl" -> {Ladder, Handshakes}
    [] k = "domain" -> {Ladder}
    [] k \in Compared -> {Sites}
    [] k = "ai_check" -> {Assertions}
    [] OTHER -> {Failures}]
=============================================================================
