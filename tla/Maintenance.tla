----------------------------- MODULE Maintenance -----------------------------
(***************************************************************************)
(* A maintenance window of one monitor: what the operator saves, the job   *)
(* that moves its status along with the clock, and the job that mails the  *)
(* subscribers of a status page ahead of each occurrence.                  *)
(*                                                                         *)
(* A schedule is [start, end, cron]; cron is the set of instants a repeat  *)
(* expression matches and {} for a one-off, whose occurrence is the anchor *)
(* itself.  A repeating window starts when the expression matches and      *)
(* lasts as long as its anchor.                                            *)
(*                                                                         *)
(* Both jobs read the row first and write it later; the operator can save, *)
(* detach or delete in between.                                            *)
(***************************************************************************)
EXTENDS Integers, FiniteSets, FiniteSetsExt

CONSTANTS
  Schedules,    \* what the operator may type
  Lead,         \* LEAD_MS
  Subscribers,  \* of the status page that shows the monitor
  MaxTime,      \* bound: last instant
  Budgets       \* bound: how often each event may happen, a set of choices

\* The operator's, the jobs' and the ones of Alerting; "any" bounds them
\* together, "tick" the clock.
Events == {"create", "save", "attach", "delete", "announce", "crash", "change",
           "manual", "ack", "patch", "route", "fail", "any", "tick"}
Statuses == {"scheduled", "active", "completed", "cancelled"}
Never == -1

ASSUME MaintenanceAssumption ==
  /\ Lead \in Nat /\ MaxTime \in Nat
  /\ \A s \in Schedules : s.start \in Nat /\ s.end \in Nat /\ s.start < s.end
                          /\ s.cron \subseteq Nat
  /\ \A b \in Budgets : b \in [Events -> Nat] /\ b["tick"] <= MaxTime /\ b["create"] <= 1

VARIABLES
  now,
  window,    \* the row: [status, plan, notified]; status "none": no row
  attached,  \* the window is linked to the monitor
  intent,    \* history: what the operator last saved, and when
  sync,      \* UpdateMaintenanceWindowStatus: the row it read, and when
  announce,  \* NotifyUpcomingMaintenance: the occurrence it mails, to whom yet
  mailed,    \* per subscriber and occurrence the mails sent
  left,      \* how often each event may still happen
  spent      \* and how often it has

job == <<sync, announce, mailed>>
maintenance == <<now, window, attached, intent, job>>

NoPlan == [start |-> 0, end |-> 0, cron |-> {}]
NoWindow == [status |-> "none", plan |-> NoPlan, notified |-> Never]
Resting == [row |-> NoWindow, at |-> Never]
Silent == [start |-> Never, todo |-> {}]
Exists == window.status # "none"
Starts == {s.start : s \in Schedules} \cup UNION {s.cron : s \in Schedules}

bounds == <<left, spent>>
Spend(e) ==
  /\ left[e] > 0 /\ left["any"] > 0
  /\ left' = [left EXCEPT ![e] = @ - 1, !["any"] = @ - 1]
  /\ spent' = [spent EXCEPT ![e] = @ + 1]

-----------------------------------------------------------------------------
(* lib/maintenance.ts                                                      *)

Occurrences(p) ==
  IF p.cron = {} THEN {[start |-> p.start, end |-> p.end]}
  ELSE {[start |-> s, end |-> s + (p.end - p.start)] : s \in p.cron}

Covers(p, t) == \E o \in Occurrences(p) : o.start <= t /\ t <= o.end

\* Mutant: the filter asks for the status the job maintains.
MutedWhenActive(t) == attached /\ window.status = "active" /\ Covers(window.plan, t)

\* isMonitorInMaintenance: any window that is not cancelled, whether or not
\* its status has caught up with the clock.
Muted(t) == attached /\ Exists /\ window.status # "cancelled" /\ Covers(window.plan, t)

-----------------------------------------------------------------------------
(* The operator's forms.  One window is created in a behaviour, so that a  *)
(* late write by id cannot meet another row.                               *)

Intends(s) == intent' = [status |-> s, at |-> now]

Create(p, s) ==
  /\ ~Exists /\ Spend("create")
  /\ window' = [status |-> s, plan |-> p, notified |-> Never]
  /\ Intends(s)
  /\ UNCHANGED <<now, attached, job>>

\* Every field but subscribers_notified_for is the operator's.
Save(p, s) ==
  /\ Exists /\ Spend("save")
  /\ window' = [window EXCEPT !.plan = p, !.status = s]
  /\ Intends(s)
  /\ UNCHANGED <<now, attached, job>>

\* Attaching what is attached does nothing, and detaching likewise.
Attach ==
  /\ Exists /\ ~attached /\ Spend("attach")
  /\ attached' = TRUE
  /\ Intends(intent.status)
  /\ UNCHANGED <<now, window, job>>

Remove ==
  /\ Exists /\ attached /\ Spend("attach")
  /\ attached' = FALSE
  /\ Intends(intent.status)
  /\ UNCHANGED <<now, window, job>>

\* The links go first; without them the row is the one Remove leaves.
Delete ==
  /\ Exists /\ Spend("delete")
  /\ window' = NoWindow
  /\ attached' = FALSE
  /\ Intends("none")
  /\ UNCHANGED <<now, job>>

-----------------------------------------------------------------------------
(* UpdateMaintenanceWindowStatus, every minute                             *)

\* Mutant: a one-off becomes active only while it lasts.
DesiredInside(row, t) ==
  IF row.plan.cron # {} THEN IF Covers(row.plan, t) THEN "active" ELSE "scheduled"
  ELSE IF row.status = "scheduled" /\ Covers(row.plan, t) THEN "active"
  ELSE IF row.status = "active" /\ t >= row.plan.end THEN "completed"
  ELSE row.status

\* A repeating window cycles; a one-off moves one step each time.
Desired(row, t) ==
  IF row.plan.cron # {} THEN IF Covers(row.plan, t) THEN "active" ELSE "scheduled"
  ELSE IF row.status = "scheduled" /\ t >= row.plan.start THEN "active"
  ELSE IF row.status = "active" /\ t >= row.plan.end THEN "completed"
  ELSE row.status

\* A completed or cancelled window is not read.
SyncRead ==
  /\ sync = Resting /\ window.status \in {"scheduled", "active"}
  /\ sync' = [row |-> window, at |-> now]
  /\ UNCHANGED <<now, window, attached, intent, announce, mailed, bounds>>

SyncWrite ==
  /\ sync # Resting
  /\ LET s == Desired(sync.row, sync.at)
     IN  window' = IF Exists /\ s # sync.row.status
                   THEN [window EXCEPT !.status = s] ELSE window
  /\ sync' = Resting
  /\ UNCHANGED <<now, attached, intent, announce, mailed, bounds>>

-----------------------------------------------------------------------------
(* NotifyUpcomingMaintenance, every five minutes                           *)

Upcoming(p, t) == {o.start : o \in {x \in Occurrences(p) : t <= x.start /\ x.start <= t + Lead}}

\* Mutant: what was announced before is announced again.
FreshOnceStamped(t) == Upcoming(window.plan, t)

\* The next occurrence that starts within the lead, unless it is the one the
\* stamp names.
Fresh(t) ==
  LET soon == Upcoming(window.plan, t)
  IN  IF soon = {} \/ Min(soon) = window.notified THEN {} ELSE {Min(soon)}

\* The audience is looked up with the row; a window linked to nothing has none.
AnnounceRead ==
  /\ announce = Silent
  /\ Exists /\ window.status # "cancelled"
  /\ Spend("announce")
  /\ \E s \in Fresh(now) :
       announce' = [start |-> s, todo |-> IF attached THEN Subscribers ELSE {}]
  /\ UNCHANGED <<now, window, attached, intent, sync, mailed>>

\* A mail that fails is not sent again.
Mail(u) ==
  /\ u \in announce.todo
  /\ announce' = [announce EXCEPT !.todo = @ \ {u}]
  /\ mailed' \in {mailed, [mailed EXCEPT ![u][announce.start] = @ + 1]}
  /\ UNCHANGED <<now, window, attached, intent, sync, bounds>>

Stamp ==
  /\ announce # Silent /\ announce.todo = {}
  /\ window' = IF Exists THEN [window EXCEPT !.notified = announce.start] ELSE window
  /\ announce' = Silent
  /\ UNCHANGED <<now, attached, intent, sync, mailed, bounds>>

\* The process of both jobs dies; the second try is a run like any other.
CrashJobs ==
  /\ sync # Resting \/ announce # Silent
  /\ Spend("crash")
  /\ sync' = Resting
  /\ announce' = Silent
  /\ UNCHANGED <<now, window, attached, intent, mailed>>

-----------------------------------------------------------------------------
Tick ==
  /\ left["tick"] > 0
  /\ left' = [left EXCEPT !["tick"] = @ - 1]
  /\ now' = now + 1
  /\ UNCHANGED <<window, attached, intent, job, spent>>

MaintenanceInit ==
  /\ now = 0
  /\ window = NoWindow
  /\ attached = FALSE
  /\ intent = [status |-> "none", at |-> Never]
  /\ sync = Resting
  /\ announce = Silent
  /\ mailed = [u \in Subscribers |-> [s \in Starts |-> 0]]
  /\ left \in Budgets
  /\ spent = [e \in Events |-> 0]

MaintenanceNext ==
  \/ Tick
  \/ \E p \in Schedules, s \in Statuses : Create(p, s) \/ Save(p, s)
  \/ Attach \/ Remove \/ Delete
  \/ SyncRead \/ SyncWrite
  \/ AnnounceRead \/ Stamp \/ CrashJobs
  \/ \E u \in Subscribers : Mail(u)

\* The scheduler starts the status job every minute and the queue runs it.
MaintenanceFairness == WF_<<maintenance, bounds>>(SyncRead \/ SyncWrite)

-----------------------------------------------------------------------------
Rows == [status : Statuses \cup {"none"}, plan : Schedules \cup {NoPlan},
         notified : Starts \cup {Never}]

WindowTypeOK ==
  /\ now \in 0..MaxTime
  /\ window \in Rows /\ attached \in BOOLEAN
  /\ intent.status \in Statuses \cup {"none"} /\ intent.at \in Never..MaxTime
  /\ sync.row \in Rows /\ sync.at \in Never..MaxTime
  /\ announce.start \in Starts \cup {Never} /\ announce.todo \subseteq Subscribers
  /\ mailed \in [Subscribers -> [Starts -> Nat]]
  /\ left \in [Events -> Nat] /\ spent \in [Events -> Nat]

\* A subscriber hears of an occurrence once: again only when the job died
\* before it stamped the occurrence (the comment at
\* NotifyUpcomingMaintenance.ts:72 knows of the retry), or when an operator's
\* save made the stamp, which names one occurrence only, forget it.
MailedOnce ==
  \A u \in Subscribers, s \in Starts :
    mailed[u][s] <= 1 + spent["crash"] + spent["save"]

\* The status the pages filter by catches up with the clock and stays there,
\* whatever was saved while the job held an older row: a one-off that has
\* ended is over even if nothing ran while it lasted, one that has begun is
\* not "scheduled", a repeating one is "active" inside an occurrence only.
StatusCatchesUp ==
  <>[](window.status \in {"scheduled", "active"} =>
         IF window.plan.cron = {}
         THEN now < window.plan.end /\ (now >= window.plan.start => window.status = "active")
         ELSE window.status = "active" <=> Covers(window.plan, now))
=============================================================================
