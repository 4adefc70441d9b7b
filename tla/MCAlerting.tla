------------------------------ MODULE MCAlerting ------------------------------
(***************************************************************************)
(* Instances of Alerting for TLC: what the operator types, and for each    *)
(* part of the system a choice of what may happen in one behaviour.        *)
(***************************************************************************)
EXTENDS Alerting, TLC

OneOff == [start |-> 1, end |-> 2, cron |-> {}]
Later == [start |-> 2, end |-> 3, cron |-> {}]
\* Its occurrences begin at 1 and at 3; the anchor only gives the length.
Repeating == [start |-> 2, end |-> 3, cron |-> {1, 3}]
AllSchedules == {OneOff, Later, Repeating}

Firing == {[c \in Channels |-> r] : r \in {"both", "down"}}

Allow(tick, any, create, save, attach, delete, notify, crash) ==
  [e \in Events |->
    CASE e = "tick" -> tick [] e = "any" -> any [] e = "create" -> create
      [] e = "save" -> save [] e = "attach" -> attach [] e = "delete" -> delete
      [] e = "announce" -> notify [] e = "crash" -> crash [] OTHER -> 0]
Under(windows, change, manual, ack, patch, routing, fail) ==
  [windows EXCEPT !["change"] = change, !["manual"] = manual, !["ack"] = ack,
                  !["patch"] = patch, !["route"] = routing, !["fail"] = fail]

\* The window's status and its mails; a window over failing checks; attempts
\* that fail; incidents and routing touched by people.
Windows == Allow(4, 5, 1, 2, 1, 1, 2, 1)
Planned == Under(Allow(3, 5, 1, 0, 2, 0, 0, 0), 2, 0, 0, 0, 0, 0)
Retrying == Under(Allow(0, 5, 0, 0, 0, 0, 0, 1), 2, 1, 0, 0, 0, 3)
Editing == Under(Allow(0, 4, 0, 0, 0, 0, 0, 0), 2, 1, 1, 1, 1, 0)
BudgetsAll == {Windows, Planned, Retrying, Editing}
=============================================================================
