--------------------------- MODULE ServerIncidents ---------------------------
(***************************************************************************)
(* A Server (the box an agent reports for), its status, and the two        *)
(* incidents the box can raise about itself: "server_hot" and              *)
(* "server_silent".                                                        *)
(*                                                                         *)
(* Two kinds of process write that state, and nothing orders them:         *)
(*                                                                         *)
(*   - the web process, once per pushed sample (ReceiveMetricsAction):     *)
(*     one transaction stores the sample and writes the status, and after  *)
(*     the commit the incidents are reconciled statement by statement;     *)
(*   - the queue worker, once a minute (CheckStaleServers): it reads the   *)
(*     row, recomputes the verdict, writes it by compare-and-set on        *)
(*     last_sample_at, and reconciles the incidents the same way.          *)
(*                                                                         *)
(* Every database statement that another process can fall between is an    *)
(* action.  One Server is modelled: no statement relates two of them.      *)
(* Instants are the program's millisecond clock, coarsened.                *)
(***************************************************************************)
EXTENDS Integers, FiniteSets

CONSTANTS
  Handlers,     \* web requests that may be in flight at once
  Ticks,        \* CheckStaleServers jobs that may be in flight at once
  Hosts,        \* machines pushing to this Server
  Metrics,      \* what a host can breach: cpu, ram, disk
  Windows,      \* values of servers.metrics_window_seconds
  Maintenance,  \* instants at which every monitor of the box is in a window
  MaxTime,      \* bound: the clock
  Budget        \* bound: how often each environment event may happen

Procs == Handlers \cup Ticks
Never == 0      \* servers.last_sample_at IS NULL
Kinds == {"server_hot", "server_silent"}
Status == {"unknown", "healthy", "hot", "quiet"}
PCs == {"idle", "commit", "row", "fleet", "claim",
        "list", "close", "find", "create", "update"}
Events == {"push", "crash", "save", "delete", "resolve", "overlap"}

ASSUME ServerAssumption ==
  /\ Handlers \cap Ticks = {}
  /\ IsFiniteSet(Handlers) /\ IsFiniteSet(Ticks)
  /\ Hosts # {}
  /\ Windows \subseteq Nat \ {0} /\ Windows # {}
  /\ Maintenance \subseteq Nat
  /\ MaxTime \in Nat
  /\ Budget \in [Events -> Nat]

VARIABLES
  now,        \* the clock; 1 at the start, so that Never is before it
  server,     \* the servers row: [exists, status, last_sample_at, window]
  samples,    \* per host the newest row of server_metric_samples
  incidents,  \* the unresolved incidents of the box: [id, kind, hosts]
  nextId,     \* incidents.id AUTOINCREMENT
  proc,       \* per process: where it is and the values it carries
  left        \* how many of each environment event may still happen

vars == <<now, server, samples, incidents, nextId, proc, left>>

Breach == [host: Hosts, breaches: SUBSET Metrics]
Sample == [at: Nat, breaches: SUBSET Metrics]
Incident == [id: Nat, kind: Kinds, hosts: SUBSET Breach]

(***************************************************************************)
(* A process's local values.  at: the instant its verdict speaks for       *)
(* (sampledAt of a push, now of a tick); baseline: the last_sample_at the  *)
(* tick read; status, breaching: the verdict it holds; kind, todo: the     *)
(* incident kind and ids it is working on.                                 *)
(***************************************************************************)
ProcState == [pc: PCs, at: Nat, window: Windows, baseline: Nat,
              host: Hosts, breaches: SUBSET Metrics,
              status: Status, breaching: SUBSET Breach,
              kind: Kinds, todo: SUBSET Nat]

\* Values a process no longer needs are put back, so that idle is one state.
Idle == [pc |-> "idle", at |-> 0,
         window |-> CHOOSE w \in Windows : TRUE, baseline |-> Never,
         host |-> CHOOSE h \in Hosts : TRUE, breaches |-> {},
         status |-> "unknown", breaching |-> {},
         kind |-> "server_hot", todo |-> {}]

-----------------------------------------------------------------------------
(* The fleet verdict: app/lib/agentHosts.ts                                *)

\* The table read through latestPerHost: an equal instant goes to the later
\* insert, because the query orders by sampled_at and then id, newest first.
Stored(s, h, at, breaches) ==
  IF at >= s[h].at THEN [s EXCEPT ![h] = [at |-> at, breaches |-> breaches]]
                   ELSE s

\* aggregateHostStatus(...).breaching: hosts whose newest sample is inside
\* the window and breached.  The window has no upper end.
Fleet(s, t, w) ==
  {[host |-> h, breaches |-> s[h].breaches] :
     h \in {g \in Hosts : /\ s[g].at # Never
                          /\ t - s[g].at <= w
                          /\ s[g].breaches # {}}}

StatusFromFleet(fleet) == IF fleet # {} THEN "hot" ELSE "healthy"

-----------------------------------------------------------------------------
(* Incidents: app/lib/serverIncidents.ts                                   *)

OpenOfKind(k) == {i \in incidents : i.kind = k}
IdsOfKind(k) == {i.id : i \in OpenOfKind(k)}
Oldest(S) == CHOOSE i \in S : \A j \in S : i.id <= j.id

Go(p, st) == proc' = [proc EXCEPT ![p] = st]
Done(p) == Go(p, Idle)

\* Where reconcileServerIncidents starts for the verdict p holds.
\* A quiet box resolves nothing; any other proves that the agent is alive.
Reconcile(st) ==
  IF st.status = "quiet"
  THEN [st EXCEPT !.pc = "find", !.kind = "server_silent", !.todo = {}]
  ELSE [st EXCEPT !.pc = "list", !.kind = "server_silent", !.todo = {}]

\* Mutant: a healthy verdict closes the silence incident and forgets the heat.
AfterCloseSilentOnly(st) == Idle

\* Where it goes once every listed incident of st.kind is resolved.
AfterClose(st) ==
  CASE st.kind = "server_hot" -> Idle
    [] st.kind = "server_silent" /\ st.status = "healthy"
         -> [st EXCEPT !.pc = "list", !.kind = "server_hot", !.todo = {}]
    [] st.kind = "server_silent" /\ st.status # "healthy" /\ st.breaching = {}
         -> Idle
    [] OTHER
         -> [st EXCEPT !.pc = "find", !.kind = "server_hot", !.todo = {}]

\* resolveServerIncidents reads the unresolved incidents of one kind ...
ListOpen(p) ==
  LET st == proc[p]
  IN  /\ st.pc = "list"
      /\ IF OpenOfKind(st.kind) = {}
         THEN Go(p, AfterClose(st))
         ELSE Go(p, [st EXCEPT !.pc = "close", !.todo = IdsOfKind(st.kind)])
      /\ UNCHANGED <<now, server, samples, incidents, nextId, left>>

\* ... and then resolves them by id, one statement each.
CloseOne(p) ==
  LET st == proc[p]
  IN  /\ st.pc = "close"
      /\ \E id \in st.todo :
           LET rest == st.todo \ {id}
           IN  /\ \A other \in st.todo : id <= other
               /\ incidents' = {i \in incidents : i.id # id}
               /\ Go(p, IF rest = {} THEN AfterClose(st)
                                     ELSE [st EXCEPT !.todo = rest])
      /\ UNCHANGED <<now, server, samples, nextId, left>>

\* Mutants: dedup by cause, as openIncident does for monitors; no dedup.
OpenWithSameCause(st) == {i \in OpenOfKind(st.kind) : i.hosts = st.breaching}
OpenNotLookedUp(st) == {}

\* The incidents a new one would duplicate: the same kind, whatever the cause.
OpenFor(st) == OpenOfKind(st.kind)

\* openServerIncidentOfKind: the read the decision to open is taken on.
FindOpen(p) ==
  LET st == proc[p]
      open == OpenFor(st)
  IN  /\ st.pc = "find"
      /\ CASE open = {}
                -> Go(p, [st EXCEPT !.pc = "create"])
           [] open # {} /\ st.kind = "server_hot"
                        /\ Oldest(open).hosts # st.breaching
                -> Go(p, [st EXCEPT !.pc = "update",
                                    !.todo = {Oldest(open).id}])
           [] OTHER -> Done(p)
      /\ UNCHANGED <<now, server, samples, incidents, nextId, left>>

\* createServerIncident: suppressed when the box is in maintenance at st.at.
CreateIncident(p) ==
  LET st == proc[p]
  IN  /\ st.pc = "create"
      /\ IF server.exists /\ st.at \in Maintenance
         THEN UNCHANGED <<incidents, nextId>>
         ELSE /\ incidents' = incidents \cup
                   {[id |-> nextId, kind |-> st.kind, hosts |-> st.breaching]}
              /\ nextId' = nextId + 1
      /\ Done(p)
      /\ UNCHANGED <<now, server, samples, left>>

\* The breach set of the open hot incident changed: rewritten in place.
UpdateIncident(p) ==
  LET st == proc[p]
  IN  /\ st.pc = "update"
      /\ incidents' = {IF i.id \in st.todo THEN [i EXCEPT !.hosts = st.breaching]
                                           ELSE i : i \in incidents}
      /\ Done(p)
      /\ UNCHANGED <<now, server, samples, nextId, left>>

-----------------------------------------------------------------------------
(* The ingest: app/Actions/Agents/ReceiveMetricsAction.ts                  *)

Spend(e) == left[e] > 0 /\ left' = [left EXCEPT ![e] = @ - 1]
\* "overlap" is not spent: reconciles interleave, or a queue with one worker
\* and no request meanwhile runs them one after another.
Overlap == left["overlap"] > 0
MayStart(p) == proc[p].pc = "idle"
               /\ (Overlap \/ \A q \in Procs : proc[q].pc = "idle")

\* The token resolves the row and the thresholds; the sample is evaluated
\* and stamped, before the transaction begins.
StartPush(p, h, breaches) ==
  /\ MayStart(p)
  /\ server.exists
  /\ Spend("push")
  /\ Go(p, [Idle EXCEPT !.pc = "commit", !.at = now, !.window = server.window,
                        !.host = h, !.breaches = breaches])
  /\ UNCHANGED <<now, server, samples, incidents, nextId>>

\* One transaction: insert, fleet read, status and baseline.  The UPDATE
\* matches no row once the Server is deleted; the insert still succeeds.
CommitPush(p) ==
  LET st == proc[p]
      stored == Stored(samples, st.host, st.at, st.breaches)
      fleet == Fleet(stored, st.at, st.window)
      status == StatusFromFleet(fleet)
  IN  /\ st.pc = "commit"
      /\ samples' = stored
      /\ server' = IF server.exists
                   THEN [server EXCEPT !.status = status, !.last_sample_at = st.at]
                   ELSE server
      /\ Go(p, Reconcile([st EXCEPT !.status = status, !.breaching = fleet,
                                    !.host = Idle.host, !.breaches = {}]))
      /\ UNCHANGED <<now, incidents, nextId, left>>

-----------------------------------------------------------------------------
(* The tick: app/Jobs/CheckStaleServers.ts                                 *)

StartTick(p) ==
  /\ MayStart(p)
  /\ Go(p, [Idle EXCEPT !.pc = "row", !.at = now])
  /\ UNCHANGED <<now, server, samples, incidents, nextId, left>>

Overdue(t, baseline, w) == t >= baseline + w

\* Never heard from is not went quiet.
NeverHeardFrom ==
  ~server.exists \/ server.status = "unknown" \/ server.last_sample_at = Never

\* The row is read once, at the start of the job's loop.
TickReadRow(p) ==
  LET st == proc[p]
      read == [st EXCEPT !.baseline = server.last_sample_at,
                         !.window = server.window, !.status = server.status]
  IN  /\ st.pc = "row"
      /\ IF NeverHeardFrom
         THEN Done(p)
         ELSE Go(p, CASE ~Overdue(st.at, read.baseline, read.window)
                           -> [read EXCEPT !.pc = "fleet"]
                      [] Overdue(st.at, read.baseline, read.window)
                           /\ read.status = "quiet"
                           -> Reconcile(read)
                      [] OTHER
                           -> [read EXCEPT !.pc = "claim", !.status = "quiet"])
      /\ UNCHANGED <<now, server, samples, incidents, nextId, left>>

\* Mutant: only a change of verdict is acted on.
ReconcileEdgeOnly(st) == Idle

\* A verdict equal to the row's is reconciled without another look at the row.
ReconcileUnchanged(st) == Reconcile(st)

\* Inside the window the samples are the truth.
TickReadFleet(p) ==
  LET st == proc[p]
      fleet == Fleet(samples, st.at, st.window)
      status == StatusFromFleet(fleet)
      verdict == [st EXCEPT !.status = status, !.breaching = fleet]
  IN  /\ st.pc = "fleet"
      /\ Go(p, IF status # st.status THEN [verdict EXCEPT !.pc = "claim"]
                                     ELSE ReconcileUnchanged(verdict))
      /\ UNCHANGED <<now, server, samples, incidents, nextId, left>>

\* Mutant: the status is written without the compare.
BaselineIgnored(st) == server.exists

\* No push has moved the baseline since the tick read it.
BaselineStands(st) == server.exists /\ server.last_sample_at = st.baseline

\* claimServerStatus: compare-and-set on the baseline the tick read.
TickClaim(p) ==
  LET st == proc[p]
  IN  /\ st.pc = "claim"
      /\ IF BaselineStands(st)
         THEN /\ server' = [server EXCEPT !.status = st.status]
              /\ Go(p, Reconcile(st))
         ELSE Done(p) /\ UNCHANGED server
      /\ UNCHANGED <<now, samples, incidents, nextId, left>>

-----------------------------------------------------------------------------
(* The environment                                                         *)

Advance ==
  /\ now < MaxTime
  /\ now' = now + 1
  /\ UNCHANGED <<server, samples, incidents, nextId, proc, left>>

\* A process dies, or a statement throws: the rest of its work is lost.
Crash(p) ==
  /\ proc[p].pc # "idle"
  /\ Spend("crash")
  /\ Done(p)
  /\ UNCHANGED <<now, server, samples, incidents, nextId>>

\* DashboardUpdateServerAction: the operator saves another window.
SaveWindow(w) ==
  /\ server.exists /\ server.window # w
  /\ Spend("save")
  /\ server' = [server EXCEPT !.window = w]
  /\ UNCHANGED <<now, samples, incidents, nextId, proc>>

\* UpdateIncidentAction with status 'resolved': a person closes an incident.
ResolveByHand(i) ==
  /\ Spend("resolve")
  /\ incidents' = incidents \ {i}
  /\ UNCHANGED <<now, server, samples, nextId, proc>>

\* DashboardDeleteServerAction: one transaction.
DeleteServer ==
  /\ server.exists
  /\ Spend("delete")
  /\ server' = [server EXCEPT !.exists = FALSE]
  /\ samples' = [h \in Hosts |-> [at |-> Never, breaches |-> {}]]
  /\ incidents' = {}
  /\ UNCHANGED <<now, nextId, proc>>

-----------------------------------------------------------------------------
Init ==
  /\ now = 1
  /\ \E w \in Windows : server = [exists |-> TRUE, status |-> "unknown",
                                  last_sample_at |-> Never, window |-> w]
  /\ samples = [h \in Hosts |-> [at |-> Never, breaches |-> {}]]
  /\ incidents = {}
  /\ nextId = 1
  /\ proc = [p \in Procs |-> Idle]
  /\ left \in {Budget, [Budget EXCEPT !["overlap"] = 0]}

ReconcileStep(p) ==
  \/ ListOpen(p) \/ CloseOne(p) \/ FindOpen(p)
  \/ CreateIncident(p) \/ UpdateIncident(p)

PushStep(p) == CommitPush(p) \/ ReconcileStep(p)

TickStep(p) ==
  \/ StartTick(p) \/ TickReadRow(p) \/ TickReadFleet(p) \/ TickClaim(p)
  \/ ReconcileStep(p)

Next ==
  \/ \E p \in Handlers :
       \/ \E h \in Hosts, breaches \in SUBSET Metrics : StartPush(p, h, breaches)
       \/ PushStep(p)
  \/ \E p \in Ticks : TickStep(p)
  \/ \E p \in Procs : Crash(p)
  \/ Advance
  \/ \E w \in Windows : SaveWindow(w)
  \/ \E i \in incidents : ResolveByHand(i)
  \/ DeleteServer

Spec == Init /\ [][Next]_vars

\* The scheduler runs the job every minute, and a request or job that has
\* started runs to its end unless it crashes.  Pushes, saves, deletions and
\* crashes are the environment's and need not happen.
Fairness ==
  /\ \A p \in Handlers : WF_vars(PushStep(p))
  /\ \A p \in Ticks : WF_vars(TickStep(p))
  /\ WF_vars(Advance)

FairSpec == Spec /\ Fairness
-----------------------------------------------------------------------------
(* Properties                                                              *)

\* The types of the variables.
TypeOK ==
  /\ now \in Nat \ {0}
  /\ server \in [exists: BOOLEAN, status: Status, last_sample_at: Nat,
                 window: Windows]
  /\ samples \in [Hosts -> Sample]
  /\ incidents \in SUBSET Incident
  /\ nextId \in Nat
  /\ proc \in [Procs -> ProcState]
  /\ left \in [Events -> Nat]

\* A box that was never heard from pages nobody: while last_sample_at is null
\* neither the tick nor a request in flight can open an incident.
NoIncidentBeforeFirstSample ==
  server.exists /\ server.last_sample_at = Never => incidents = {}

\* The row turns 'quiet' only for a baseline that is overdue at that very
\* step, however late the tick's write comes and whatever landed in between:
\* the compare-and-set never lets a tick silence a box that has just pushed.
QuietOnlyWhenOverdue ==
  [][server.status # "quiet" /\ server'.status = "quiet"
       => \E p \in Ticks : Overdue(now, server.last_sample_at, proc[p].window)]_vars

\* Incidents of a kind do not pile up from tick to tick or from push to push:
\* a race can duplicate one, but never beyond one per reconcile in flight,
\* because nothing is opened by a process that saw one open.
IncidentsNeverStack ==
  \A k \in Kinds : Cardinality(OpenOfKind(k)) <= Cardinality(Procs)

\* At most one unresolved incident of each kind, while reconciles do not
\* overlap: crashes between any two statements, retries of the tick and manual
\* resolves do not break it.
AtMostOneOfAKind ==
  ~Overlap => \A i, j \in incidents : i.kind = j.kind => i = j

Undisturbed ==
  /\ ~Overlap
  /\ \A t \in Maintenance : now < t
  /\ \A p \in Procs : proc[p].pc = "idle"
  /\ \A e \in {"crash", "resolve", "delete"} : left[e] = Budget[e]

HasOpen(k) == OpenOfKind(k) # {}

\* When none is in flight, none overlapped, none was cut short and no window has
\* begun, the open incidents say what the status says.  (A quiet box keeps the
\* heat incident it had.)
ReconciledAtRest ==
  Undisturbed =>
    /\ server.status = "healthy" => incidents = {}
    /\ server.status = "hot" => ~HasOpen("server_silent") /\ HasOpen("server_hot")
    /\ server.status = "quiet" => HasOpen("server_silent")

\* The verdict the samples call for at this instant.
DueStatus ==
  CASE server.last_sample_at = Never -> "unknown"
    [] server.last_sample_at # Never
         /\ Overdue(now, server.last_sample_at, server.window) -> "quiet"
    [] OTHER -> StatusFromFleet(Fleet(samples, now, server.window))

Settled ==
  /\ server.status = DueStatus
  /\ server.status = "healthy" => incidents = {}
  /\ server.status = "hot" => ~HasOpen("server_silent") /\ HasOpen("server_hot")
  /\ server.status = "quiet" => HasOpen("server_silent")

\* Whatever was interleaved, crashed or resolved by hand, once the
\* environment stops disturbing it the tick brings status and incidents to
\* what the samples say, and keeps them there, while the row exists.
EventuallySettled == []server.exists => <>[]Settled

\* The status column behaves as ServerStatus promises its readers, although a
\* push and a tick write it from two processes, and while the row exists.
StatusOfTheBox == INSTANCE ServerStatus
  WITH status <- server.status, last_sample_at <- server.last_sample_at

StatusPromise == StatusOfTheBox!Spec
=============================================================================
