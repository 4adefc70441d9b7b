------------------------------- MODULE Alerting -------------------------------
(***************************************************************************)
(* From a failing check to a page: the incidents of one monitor under a    *)
(* maintenance window, the listeners that incident:created and             *)
(* incident:updated start, and the queue of notifications with its         *)
(* retries.                                                                *)
(*                                                                         *)
(* Listeners are started and not awaited: an event lives in the memory of  *)
(* the process that wrote the incident, is handled in any order, and is    *)
(* gone when that process dies, which may be halfway through its fan-out.  *)
(* The jobs are in the queue and survive.                                  *)
(***************************************************************************)
EXTENDS Maintenance, Sequences, Bags

CONSTANTS
  Channels,      \* notification channels of the team
  Kind,          \* what an automatic incident of this monitor type is
  Routings,      \* how they may be attached to the monitor at first
  MaxIncidents   \* bound

Severities == {"down", "issue"}
Routes == {"none", "both"} \cup Severities
Notices == {"opened", "resolved"}
Tries == 3

ASSUME AlertingAssumption ==
  /\ Kind \in Severities /\ MaxIncidents \in Nat
  /\ Routings \subseteq [Channels -> Routes]

VARIABLES
  failing,    \* what the monitor's check sees
  look,       \* openIncident: the instant it found to be outside every window
  incidents,  \* in order of creation: [status, severity, started, since]
  events,     \* bag of emitted events: [kind, id, status, severity, started]
  route,      \* per channel what its attachment fires on, "none": no attachment
  enabled,    \* per channel
  jobs,       \* bag of [to, notice, id, try]
  heard       \* history: per channel, notice and incident what arrived

vars == <<maintenance, bounds, failing, look, incidents, events, route, enabled, jobs, heard>>
alerting == <<failing, look, incidents, events, route, enabled, jobs, heard>>

Ids == 1..MaxIncidents
Open(i) == i \in DOMAIN incidents /\ incidents[i].status # "resolved"
Emit(kind, i, row) ==
  events' = events (+) SetToBag({[kind |-> kind, id |-> i, status |-> row.status,
                                  severity |-> row.severity, started |-> row.started]})

-----------------------------------------------------------------------------
(* Incidents                                                               *)

\* since: when the row took its status.
Add(severity, t) ==
  /\ Len(incidents) < MaxIncidents
  /\ LET row == [status |-> "investigating", severity |-> severity,
                 started |-> t, since |-> now]
     IN  /\ incidents' = Append(incidents, row)
         /\ Emit("created", Len(incidents) + 1, row)

Put(i, status, severity) ==
  LET row == [incidents[i] EXCEPT !.status = status, !.severity = severity, !.since = now]
  IN  /\ incidents' = [incidents EXCEPT ![i] = row]
      /\ Emit("updated", i, row)

\* The target goes down or comes back.
Change ==
  /\ Spend("change")
  /\ failing' = ~failing
  /\ UNCHANGED <<maintenance, look, incidents, events, route, enabled, jobs, heard>>

\* openIncident: the window is asked for the instant the incident starts ...
CheckLook ==
  /\ failing /\ look = Never /\ ~Muted(now)
  /\ look' = now
  /\ UNCHANGED <<maintenance, bounds, failing, incidents, events, route, enabled, jobs, heard>>

\* ... and an unresolved incident of the same cause afterwards.
CheckOpen ==
  /\ look # Never
  /\ IF \E i \in Ids : Open(i) THEN UNCHANGED <<incidents, events>> ELSE Add(Kind, look)
  /\ look' = Never
  /\ UNCHANGED <<maintenance, bounds, failing, route, enabled, jobs, heard>>

\* A check that passes resolves what is open.
CheckPass ==
  /\ ~failing /\ look = Never
  /\ \E i \in Ids : Open(i) /\ Put(i, "resolved", incidents[i].severity)
  /\ UNCHANGED <<maintenance, bounds, failing, look, route, enabled, jobs, heard>>

\* POST /api/incidents asks neither for a window nor for a duplicate.
CreateIncident(severity) ==
  /\ Spend("manual")
  /\ Add(severity, now)
  /\ UNCHANGED <<maintenance, failing, look, route, enabled, jobs, heard>>

Acknowledge(i) ==
  /\ i \in DOMAIN incidents /\ incidents[i].status = "investigating"
  /\ Spend("ack")
  /\ Put(i, "identified", incidents[i].severity)
  /\ UNCHANGED <<maintenance, failing, look, route, enabled, jobs, heard>>

\* PATCH /api/incidents/{id}: any status, any marker, resolved or not.
UpdateIncident(i, status, severity) ==
  /\ i \in DOMAIN incidents
  /\ Spend("patch")
  /\ Put(i, status, severity)
  /\ UNCHANGED <<maintenance, failing, look, route, enabled, jobs, heard>>

-----------------------------------------------------------------------------
(* Listeners                                                               *)

FiresFor(firesOn, severity) == firesOn \in {"both", severity}

Fanout(severity) == {c \in Channels : FiresFor(route[c], severity)}

\* Mutant: every update of an incident is taken for its recovery.
ToldOnUpdate(e) ==
  IF Muted(IF e.kind = "created" THEN e.started ELSE now) THEN {} ELSE Fanout(e.severity)

\* SendIncidentNotification asks for the instant the incident started,
\* SendIncidentResolvedNotification for the present.
Told(e) ==
  IF \/ e.kind = "created" /\ Muted(e.started)
     \/ e.kind = "updated" /\ (e.status # "resolved" \/ Muted(now))
  THEN {}
  ELSE Fanout(e.severity)

NoticeOf(e) == IF e.kind = "created" THEN "opened" ELSE "resolved"
Dispatch(e, told) ==
  jobs' = jobs (+) SetToBag({[to |-> c, notice |-> NoticeOf(e), id |-> e.id, try |-> 1] : c \in told})

Listen(e) ==
  /\ BagIn(e, events)
  /\ Dispatch(e, Told(e))
  /\ events' = events (-) SetToBag({e})
  /\ UNCHANGED <<maintenance, bounds, failing, look, incidents, route, enabled, heard>>

\* The process dies with its events, one of them perhaps fanned out in part.
CrashListening ==
  /\ Spend("crash")
  /\ events' = EmptyBag
  /\ look' = Never
  /\ \/ look # Never /\ UNCHANGED jobs
     \/ \E e \in BagToSet(events) : \E part \in SUBSET Told(e) : Dispatch(e, part)
  /\ UNCHANGED <<maintenance, failing, incidents, route, enabled, heard>>

-----------------------------------------------------------------------------
(* Routing and delivery                                                    *)

\* The routing form writes the whole grid.
SaveRouting(r) ==
  /\ Spend("route")
  /\ route' = r
  /\ UNCHANGED <<maintenance, failing, look, incidents, events, enabled, jobs, heard>>

Enable(c) ==
  /\ Spend("route")
  /\ enabled' = [enabled EXCEPT ![c] = ~@]
  /\ UNCHANGED <<maintenance, failing, look, incidents, events, route, jobs, heard>>

Hear(j) == heard' = [heard EXCEPT ![j.to][j.notice][j.id] = @ + 1]

\* Mutant: one attempt too few.
AgainOnce(j) == j.try < Tries - 1

\* SendNotification throws and the queue tries it again.
Again(j) == j.try < Tries

Taken(j) == jobs (-) SetToBag({j})

\* A channel disabled meanwhile is skipped.
Send(j) ==
  /\ BagIn(j, jobs)
  /\ jobs' = Taken(j)
  /\ IF enabled[j.to] THEN Hear(j) ELSE UNCHANGED heard
  /\ UNCHANGED <<maintenance, bounds, failing, look, incidents, events, route, enabled>>

\* The answer is an error or does not come; the notice may have arrived.
SendFails(j) ==
  /\ BagIn(j, jobs) /\ enabled[j.to]
  /\ Spend("fail")
  /\ jobs' = IF Again(j) THEN Taken(j) (+) SetToBag({[j EXCEPT !.try = @ + 1]}) ELSE Taken(j)
  /\ UNCHANGED heard \/ Hear(j)
  /\ UNCHANGED <<maintenance, failing, look, incidents, events, route, enabled>>

-----------------------------------------------------------------------------
Init ==
  /\ MaintenanceInit
  /\ failing = FALSE /\ look = Never
  /\ incidents = <<>>
  /\ events = EmptyBag /\ jobs = EmptyBag
  /\ route \in Routings
  /\ enabled = [c \in Channels |-> TRUE]
  /\ heard = [c \in Channels |-> [n \in Notices |-> [i \in Ids |-> 0]]]

Next ==
  \/ MaintenanceNext /\ UNCHANGED alerting
  \/ Change \/ CheckLook \/ CheckOpen \/ CheckPass \/ CrashListening
  \/ \E s \in Severities : CreateIncident(s)
  \/ \E i \in Ids : Acknowledge(i)
  \/ \E i \in Ids, st \in {"investigating", "identified", "resolved"}, s \in Severities :
       UpdateIncident(i, st, s)
  \/ \E e \in BagToSet(events) : Listen(e)
  \/ \E r \in [Channels -> Routes] : SaveRouting(r)
  \/ \E c \in Channels : Enable(c)
  \/ \E j \in BagToSet(jobs) : Send(j) \/ SendFails(j)

Spec == Init /\ [][Next]_vars

\* Every minute's jobs run; a listener that was started and a job that was
\* queued are worked off.  Nothing is assumed of the clock or of the checks.
FairSpec ==
  /\ Spec
  /\ WF_vars((SyncRead \/ SyncWrite) /\ UNCHANGED alerting)
  /\ WF_vars(\E e \in BagToSet(events) : Listen(e))
  /\ WF_vars(\E j \in BagToSet(jobs) : Send(j) \/ SendFails(j))

-----------------------------------------------------------------------------
TypeOK ==
  /\ WindowTypeOK
  /\ failing \in BOOLEAN /\ look \in Never..MaxTime
  /\ Len(incidents) <= MaxIncidents
  /\ \A i \in DOMAIN incidents :
       incidents[i].started <= incidents[i].since /\ incidents[i].since <= now
  /\ \A e \in BagToSet(events) : e.id \in DOMAIN incidents
  /\ \A j \in BagToSet(jobs) : j.to \in Channels /\ j.id \in DOMAIN incidents /\ j.try \in 1..Tries
  /\ route \in [Channels -> Routes] /\ enabled \in [Channels -> BOOLEAN]

\* No page for planned work (docs/operate/maintenance.md:14): as long as the
\* operator has left the window alone since before an incident started inside
\* it, nobody has been told of that incident, however late its status, the
\* check or the listener was.
QuietInWindow ==
  \A i \in DOMAIN incidents, c \in Channels :
    heard[c]["opened"][i] > 0 =>
      ~( /\ intent.status \notin {"none", "cancelled"}
         /\ attached /\ intent.at < incidents[i].started
         /\ Covers(window.plan, incidents[i].started) )

\* An incident is announced on its creation and on its recovery and on no
\* other update (SendIncidentNotification.ts:18): more notices than that come
\* only from an attempt that failed after it had arrived, or from a person
\* who writes a resolved incident again.
OncePerTurn ==
  \A i \in DOMAIN incidents, c \in Channels :
    /\ heard[c]["opened"][i] <= 1 + spent["fail"]
    /\ heard[c]["resolved"][i] <= 1 + spent["fail"] + spent["patch"]
    /\ heard[c]["resolved"][i] > 0 /\ spent["patch"] = 0 => incidents[i].status = "resolved"

\* What this channel should be told: the routing is as it was, no process
\* died, at most two attempts failed, and from the moment concerned no window
\* mutes the monitor.
Undisturbed == spent["crash"] = 0 /\ spent["route"] = 0 /\ spent["patch"] = 0
               /\ spent["fail"] < Tries
Owed(c, n, i) ==
  LET row == incidents[i]
      from == IF n = "opened" THEN row.started ELSE row.since
      to == IF n = "opened" THEN row.started ELSE MaxTime
  IN  /\ n = "resolved" => row.status = "resolved"
      /\ FiresFor(route[c], row.severity)
      /\ intent.at < from
      /\ \A t \in from..to : ~Muted(t)

\* Every incident that opens reaches each channel that fires for it, and so
\* does its recovery, though listeners are not awaited and attempts fail.
EveryNoticeArrives ==
  []<>(Undisturbed =>
         \A i \in DOMAIN incidents, c \in Channels, n \in Notices :
           Owed(c, n, i) => heard[c][n][i] > 0)
=============================================================================
