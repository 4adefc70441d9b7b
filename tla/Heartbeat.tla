------------------------------- MODULE Heartbeat -------------------------------
(***************************************************************************)
(* One scheduled-task monitor: the pings its job sends, the deadline it is *)
(* watched against, its status and its incidents.                          *)
(*                                                                         *)
(*   - ReceivePingAction, in the web process, one request per ping:        *)
(*     'start' arms the overrun deadline, 'fail' takes the monitor down,   *)
(*     'success' stamps the row and recovers the monitor if it was down.   *)
(*   - CheckOverdueHeartbeats, in the worker, once a minute: reads every   *)
(*     heartbeat row at once, and takes an overdue monitor down.           *)
(*   - openIncident, shared by both: silent inside a maintenance window,   *)
(*     and while an incident with the same cause is open.                  *)
(*                                                                         *)
(* Every statement another process can fall between is an action.          *)
(***************************************************************************)
EXTENDS Integers, FiniteSets

CONSTANTS
  Pings,         \* ping requests that may be in flight at once
  Ticks,         \* CheckOverdueHeartbeats jobs that may be in flight at once
  NextExpected,  \* per baseline the next expected ping: cron slot or interval
  Grace,         \* graceSeconds
  Maintenance,   \* instants at which the monitor is inside a window
  MaxTime,       \* bound: the clock
  Budget         \* bound: how often each environment event may happen

Never == 0
CreatedAt == 1
Kinds == {"start", "fail", "success"}
Causes == {"failed", "missed", "overran", "reported"}
Events == {"ping", "crash", "report", "resolve", "overlap"}
PCs == {"idle", "load", "stamp", "monitor", "down", "look", "create",
        "up", "find", "resolve"}
Procs == Pings \cup Ticks

ASSUME HeartbeatAssumption ==
  /\ Pings \cap Ticks = {}
  /\ MaxTime \in Nat \ {0}
  /\ NextExpected \in [1 .. MaxTime -> Nat]
  /\ \A b \in 1 .. MaxTime : NextExpected[b] > b
  /\ Grace \in Nat
  /\ Budget \in [Events -> Nat]

VARIABLES
  now,        \* the clock
  heartbeat,  \* the heartbeat_monitors row
  status,     \* monitors.status
  incidents,  \* unresolved incidents of the monitor: [id, cause]
  nextId,     \* incidents.id AUTOINCREMENT
  proc,       \* per process: where it is and what it holds
  left        \* how many of each environment event may still happen

vars == <<now, heartbeat, status, incidents, nextId, proc, left>>

Row == [last_ping_at: Nat, last_started_at: Nat, last_fail_at: Nat]
Incident == [id: Nat, cause: Causes]

\* at: the request's now, or the job's; cause: of the incident it may open.
ProcState == [pc: PCs, kind: Kinds, at: Nat, cause: Causes,
              status: {"unknown", "up", "down"}, todo: SUBSET Nat]
Idle == [pc |-> "idle", kind |-> "success", at |-> 0, cause |-> "missed",
         status |-> "up", todo |-> {}]

Go(p, st) == proc' = [proc EXCEPT ![p] = st]
Done(p) == Go(p, Idle)
At(st, pc) == [st EXCEPT !.pc = pc]
Spend(e) == left[e] > 0 /\ left' = [left EXCEPT ![e] = @ - 1]
\* "overlap" is not spent: requests and jobs interleave, or they do not (and
\* then people touch incidents).
Overlap == left["overlap"] > 0
MayStart(p) == proc[p].pc = "idle"
               /\ (Overlap \/ \A q \in Procs : proc[q].pc = "idle")
Newest(S) == CHOOSE i \in S : \A j \in S : j.id <= i.id

-----------------------------------------------------------------------------
(* The deadlines: lib/heartbeat.ts                                         *)

InFlight(row) == row.last_started_at # Never
                 /\ row.last_started_at > row.last_ping_at

Overran(row, t) == InFlight(row) /\ t >= row.last_started_at + Grace

Baseline(row) == IF row.last_ping_at = Never THEN CreatedAt ELSE row.last_ping_at

Missed(row, t) == t >= NextExpected[Baseline(row)] + Grace

\* evaluateHeartbeat: overrun is looked at first.
IsDown(row, t) == Overran(row, t) \/ Missed(row, t)
Reason(row, t) == IF Overran(row, t) THEN "overran" ELSE "missed"

-----------------------------------------------------------------------------
(* openIncident: lib/maintenance.ts                                        *)

\* Mutant: no dedup.
SameCauseNone(cause) == {}

SameCause(cause) == {i \in incidents : i.cause = cause}

\* The window is asked about st.at, when the incident starts.
LookForIncident(p) ==
  LET st == proc[p]
  IN  /\ st.pc = "look"
      /\ IF st.at \in Maintenance \/ SameCause(st.cause) # {}
         THEN Done(p)
         ELSE Go(p, At(st, "create"))
      /\ UNCHANGED <<now, heartbeat, status, incidents, nextId, left>>

CreateIncident(p) ==
  /\ proc[p].pc = "create"
  /\ incidents' = incidents \cup {[id |-> nextId, cause |-> proc[p].cause]}
  /\ nextId' = nextId + 1
  /\ Done(p)
  /\ UNCHANGED <<now, heartbeat, status, left>>

\* monitor.update({ status: 'down' }), in the request and in the job.
WriteDown(p) ==
  /\ proc[p].pc = "down"
  /\ status' = "down"
  /\ Go(p, At(proc[p], "look"))
  /\ UNCHANGED <<now, heartbeat, incidents, nextId, left>>

-----------------------------------------------------------------------------
(* Actions/Heartbeats/ReceivePingAction.ts                                 *)

\* The token found the row; the ping is dated.
StartPing(p, kind) ==
  /\ MayStart(p)
  /\ Spend("ping")
  /\ Go(p, [Idle EXCEPT !.pc = IF kind = "start" THEN "stamp" ELSE "load",
                        !.kind = kind, !.at = now])
  /\ UNCHANGED <<now, heartbeat, status, incidents, nextId>>

\* The monitor is read before the stamp is written, and not again.
LoadMonitor(p) ==
  /\ proc[p].pc = "load"
  /\ Go(p, [proc[p] EXCEPT !.pc = "stamp", !.status = status])
  /\ UNCHANGED <<now, heartbeat, status, incidents, nextId, left>>

Stamped(row, kind, at) ==
  CASE kind = "start"   -> [row EXCEPT !.last_started_at = at]
    [] kind = "fail"    -> [row EXCEPT !.last_fail_at = at]
    [] kind = "success" -> [row EXCEPT !.last_ping_at = at]

\* Mutant: a success ping is only recorded.
AfterStampNoRecovery(st) ==
  IF st.kind = "fail" /\ st.status # "down"
  THEN [st EXCEPT !.pc = "down", !.cause = "failed"] ELSE Idle

\* A start changes no status; a fail of a monitor already down, and a success
\* of one that is not, are only recorded.
AfterStamp(st) ==
  CASE st.kind = "fail" /\ st.status # "down"
         -> [st EXCEPT !.pc = "down", !.cause = "failed"]
    [] st.kind = "success" /\ st.status = "down" -> At(st, "up")
    [] OTHER -> Idle

StampRow(p) ==
  LET st == proc[p]
  IN  /\ st.pc = "stamp"
      /\ heartbeat' = Stamped(heartbeat, st.kind, st.at)
      /\ Go(p, AfterStamp(st))
      /\ UNCHANGED <<now, status, incidents, nextId, left>>

WriteUp(p) ==
  /\ proc[p].pc = "up"
  /\ status' = "up"
  /\ Go(p, At(proc[p], "find"))
  /\ UNCHANGED <<now, heartbeat, incidents, nextId, left>>

\* Mutant: nothing is looked for.
AfterFindNothing(st) == Idle

\* The newest open incident, whatever opened it, and only that one.
AfterFind(st) ==
  IF incidents = {} THEN Idle
  ELSE [st EXCEPT !.pc = "resolve", !.todo = {Newest(incidents).id}]

FindIncident(p) ==
  /\ proc[p].pc = "find"
  /\ Go(p, AfterFind(proc[p]))
  /\ UNCHANGED <<now, heartbeat, status, incidents, nextId, left>>

ResolveIncident(p) ==
  /\ proc[p].pc = "resolve"
  /\ incidents' = {i \in incidents : i.id \notin proc[p].todo}
  /\ Done(p)
  /\ UNCHANGED <<now, heartbeat, status, nextId, left>>

PingStep(p) ==
  \/ LoadMonitor(p) \/ StampRow(p) \/ WriteDown(p) \/ LookForIncident(p)
  \/ CreateIncident(p) \/ WriteUp(p) \/ FindIncident(p) \/ ResolveIncident(p)

-----------------------------------------------------------------------------
(* Jobs/CheckOverdueHeartbeats.ts                                          *)

\* Mutant: the deadline is only looked at once a first ping has arrived.
OverdueOncePinged(row, t) == row.last_ping_at # Never /\ IsDown(row, t)

Overdue(row, t) == IsDown(row, t)

\* All rows are read at once: the verdict is taken on what they say then.
StartTick(p) ==
  /\ MayStart(p)
  /\ IF Overdue(heartbeat, now)
     THEN Go(p, [Idle EXCEPT !.pc = "monitor", !.at = now,
                             !.cause = Reason(heartbeat, now)])
     ELSE Done(p)
  /\ UNCHANGED <<now, heartbeat, status, incidents, nextId, left>>

\* The monitor is read afresh for its status; the verdict is not taken again.
LoadOverdueMonitor(p) ==
  /\ proc[p].pc = "monitor"
  /\ IF status = "down" THEN Done(p)
     ELSE Go(p, [proc[p] EXCEPT !.pc = "down", !.at = now])
  /\ UNCHANGED <<now, heartbeat, status, incidents, nextId, left>>

TickStep(p) ==
  \/ StartTick(p) \/ LoadOverdueMonitor(p) \/ WriteDown(p)
  \/ LookForIncident(p) \/ CreateIncident(p)

-----------------------------------------------------------------------------
(* The environment                                                         *)

Advance ==
  /\ now < MaxTime
  /\ now' = now + 1
  /\ UNCHANGED <<heartbeat, status, incidents, nextId, proc, left>>

\* The job has one try, and a ping is not repeated by the server.
Crash(p) ==
  /\ proc[p].pc # "idle"
  /\ Spend("crash")
  /\ Done(p)
  /\ UNCHANGED <<now, heartbeat, status, incidents, nextId>>

\* CreateIncidentAction: a person reports an incident on the monitor.
ReportByHand ==
  /\ Spend("report")
  /\ incidents' = incidents \cup {[id |-> nextId, cause |-> "reported"]}
  /\ nextId' = nextId + 1
  /\ UNCHANGED <<now, heartbeat, status, proc>>

\* UpdateIncidentAction with status 'resolved'.
ResolveByHand(i) ==
  /\ Spend("resolve")
  /\ incidents' = incidents \ {i}
  /\ UNCHANGED <<now, heartbeat, status, nextId, proc>>

Init ==
  /\ now = CreatedAt
  /\ heartbeat = [last_ping_at |-> Never, last_started_at |-> Never,
                  last_fail_at |-> Never]
  /\ status = "unknown"
  /\ incidents = {}
  /\ nextId = 1
  /\ proc = [p \in Procs |-> Idle]
  /\ left \in {[Budget EXCEPT !["overlap"] = 0],
              [Budget EXCEPT !["report"] = 0, !["resolve"] = 0]}

Next ==
  \/ \E p \in Pings : (\E k \in Kinds : StartPing(p, k)) \/ PingStep(p)
  \/ \E p \in Ticks : TickStep(p)
  \/ \E p \in Procs : Crash(p)
  \/ Advance
  \/ ReportByHand
  \/ \E i \in incidents : ResolveByHand(i)

Spec == Init /\ [][Next]_vars

\* The scheduler runs the job every minute; a job or request that started ends
\* unless it crashes.  Pings are the customer's and need not come.
Fairness ==
  /\ \A p \in Pings : WF_vars(PingStep(p))
  /\ \A p \in Ticks : WF_vars(TickStep(p))
  /\ WF_vars(Advance)

FairSpec == Spec /\ Fairness

-----------------------------------------------------------------------------
(* Properties                                                              *)

\* The types of the variables.
TypeOK ==
  /\ now \in Nat \ {0}
  /\ heartbeat \in Row
  /\ status \in {"unknown", "up", "down"}
  /\ incidents \in SUBSET Incident
  /\ nextId \in Nat
  /\ proc \in [Procs -> ProcState]
  /\ left \in [Events -> Nat]

AtRest == \A p \in Procs : proc[p].pc = "idle"
Untouched(events) == \A e \in events : left[e] = Budget[e]
Opened == {i \in incidents : i.cause # "reported"}

\* Between requests and jobs, if none was cut short, a monitor is down only for
\* a reason its row still shows: it is overdue, a run it began has not
\* succeeded, or it failed and has not succeeded since.  A success ping leaves
\* none of them behind without bringing the monitor up.
DownHasAReason ==
  ~Overlap /\ AtRest /\ Untouched({"crash"}) /\ status = "down" =>
    \/ IsDown(heartbeat, now)
    \/ InFlight(heartbeat)
    \/ heartbeat.last_fail_at >= heartbeat.last_ping_at

\* Between requests and jobs, if no run was cut short and no person touched an
\* incident, what is open says what the status says: exactly one incident
\* while the monitor is down, and none otherwise.
IncidentMatchesStatus ==
  ~Overlap /\ AtRest /\ Untouched({"crash", "report", "resolve"}) =>
    IF status = "down" THEN Cardinality(incidents) = 1 ELSE incidents = {}

\* One cause never has two incidents open, even when a crash left one open on
\* a monitor that has since recovered and failed again.
OneIncidentPerCause ==
  ~Overlap => \A i, j \in Opened : i.cause = j.cause => i = j

\* A job that stays overdue takes the monitor down and keeps it down, whatever
\* was in flight or crashed when the deadline passed.
OverdueEndsDown ==
  <>[]IsDown(heartbeat, now) => <>[](status = "down")

\* Once the window has closed, a monitor that is still overdue has an incident.
StillFailingOpensIncident ==
  <>[](IsDown(heartbeat, now) /\ now \notin Maintenance) => <>(incidents # {})
=============================================================================
