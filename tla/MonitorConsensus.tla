--------------------------- MODULE MonitorConsensus ---------------------------
(***************************************************************************)
(* One monitor of a consensus type (uptime, ping, tcp_port, health), its   *)
(* status, and every automatic incident that can be open against it.       *)
(*                                                                         *)
(*   - Check jobs and remote regions only record results, late or early.   *)
(*   - EvaluateMonitorConsensus, once a minute, folds the newest fresh     *)
(*     result of each region into the verdict, writes it, closes its own   *)
(*     incident on 'up' and opens one on an edge to 'down'.  It reads the  *)
(*     monitor rows once, when the job starts.                             *)
(*   - The pre-Server metrics path writes the same row and the same table: *)
(*     legacyReceiveMetrics per pushed sample, CheckStaleMetrics per tick. *)
(*                                                                         *)
(* Every statement of the consensus job is an action.  In the metrics path *)
(* a lookup and the write it decides on are one action: no property here   *)
(* is about two of its own runs racing.                                    *)
(***************************************************************************)
EXTENDS Consensus

CONSTANTS
  Evaluators,     \* EvaluateMonitorConsensus jobs that may be in flight
  Agents,         \* legacy metrics pushes that may be in flight
  Regions,        \* values of check_results.region
  Configured,     \* regionsConfig.regions
  PrimaryRegion,  \* WORKER_REGION of the primary, or 'default'
  AgentRegion,    \* the region legacy metrics samples are filed under
  MinRegions,     \* CONSENSUS_MIN_REGIONS
  Freshness,      \* CONSENSUS_FRESHNESS_SECONDS
  MetricsWindow,  \* metricsWindowSeconds of the monitor's config
  Maintenance,    \* instants at which the monitor is inside a window
  Overlap,        \* TRUE: evaluations may interleave
  MaxLag,         \* bound: how late a result may arrive
  FailureCap,     \* bound: consecutive_failures stops counting here
  MaxTime,        \* bound: the clock
  Budget          \* bound: how often each environment event may happen

Never == 0
Owners == {"consensus", "missed_push", "server_metrics"}
Events == {"check", "push", "missed", "crash", "resolve", "toggle"}
EvalPCs == {"idle", "votes", "maintenance", "write", "find", "resolve", "open"}
AgentPCs == {"idle", "write", "clear", "edge"}

ASSUME ConsensusAssumption ==
  /\ Configured \subseteq Regions /\ AgentRegion \in Regions
  /\ IsFiniteSet(Regions)
  /\ MinRegions \in Int /\ Freshness \in Nat /\ MetricsWindow \in Nat
  /\ Overlap \in BOOLEAN
  /\ MaxLag \in Nat /\ FailureCap \in Nat \ {0} /\ MaxTime \in Nat
  /\ Budget \in [Events -> Nat]

VARIABLES
  now,        \* the clock, 1 at the start
  monitor,    \* the monitors row: [enabled, status, failures]
  results,    \* per region the newest row of check_results: [at, status]
  incidents,  \* unresolved incidents of the monitor
  nextId,     \* incidents.id AUTOINCREMENT
  eval,       \* per evaluation: where it is and what it holds
  agent,      \* per legacy push: where it is and what it holds
  left        \* how many of each environment event may still happen

vars == <<now, monitor, results, incidents, nextId, eval, agent, left>>

Result == [at: Nat, status: Cast]

\* down, voters: impacted_checks.regions and the count its cause quotes.
Incident == [id: Nat, owner: Owners, down: SUBSET Regions, voters: Nat]

EvalState == [pc: EvalPCs, at: Nat, prev: Verdicts, failures: 0 .. FailureCap,
              next: Verdicts, down: SUBSET Regions, voters: Nat,
              todo: SUBSET Nat]
AgentState == [pc: AgentPCs, at: Nat, prev: Verdicts, failures: 0 .. FailureCap,
               fleet: {"up", "degraded"}]

EvalIdle == [pc |-> "idle", at |-> 0, prev |-> "unknown", failures |-> 0,
             next |-> "unknown", down |-> {}, voters |-> 0, todo |-> {}]
AgentIdle == [pc |-> "idle", at |-> 0, prev |-> "unknown", failures |-> 0,
              fleet |-> "up"]

OpenOf(owner) == {i \in incidents : i.owner = owner}
NewestOf(S) == CHOOSE i \in S : \A j \in S : j.id <= i.id
Spend(e) == left[e] > 0 /\ left' = [left EXCEPT ![e] = @ - 1]
Bump(failures) == IF failures < FailureCap THEN failures + 1 ELSE failures

Create(owner, down, voters) ==
  /\ incidents' = incidents \cup {[id |-> nextId, owner |-> owner,
                                   down |-> down, voters |-> voters]}
  /\ nextId' = nextId + 1

\* check_results read newest first by checked_at and then id.
Recorded(r, at, status) ==
  IF at >= results[r].at
  THEN [results EXCEPT ![r] = [at |-> at, status |-> status]]
  ELSE results

-----------------------------------------------------------------------------
(* Results: the check jobs and Actions/Regions/IngestRegionResultsAction   *)

\* A result stamped when the check was made and inserted up to MaxLag later.
File(r, status) ==
  /\ Spend("check")
  /\ \E at \in {t \in 1 .. now : now - t <= MaxLag} :
       results' = Recorded(r, at, status)
  /\ UNCHANGED <<now, monitor, incidents, nextId, eval, agent>>

\* A check job of a worker, whose WORKER_REGION nobody compares with the
\* configured ones.  It writes the status it saw and decides nothing.
RecordCheck(r, status) == r # AgentRegion /\ File(r, status)

\* VALID_STATUS
Accepted == {"up", "down", "degraded"}

\* A remote region posts a batch, here of one.  What is not accepted is
\* skipped, and the primary's own region is not taken from outside.
IngestResult(r, status) ==
  /\ r \in Configured /\ r # PrimaryRegion
  /\ status \in Accepted
  /\ File(r, status)

-----------------------------------------------------------------------------
(* Jobs/EvaluateMonitorConsensus.ts                                        *)

Go(e, st) == eval' = [eval EXCEPT ![e] = st]
Done(e) == Go(e, EvalIdle)

\* The enabled rows are read once, before the loop over them.
StartEvaluation(e) ==
  /\ eval[e].pc = "idle"
  /\ Overlap \/ \A f \in Evaluators : eval[f].pc = "idle"
  /\ IF monitor.enabled
     THEN Go(e, [EvalIdle EXCEPT !.pc = "votes", !.at = now,
                                 !.prev = monitor.status,
                                 !.failures = monitor.failures])
     ELSE Done(e)
  /\ UNCHANGED <<now, monitor, results, incidents, nextId, agent, left>>

\* Mutants: a configured 'default' used to disable the filter; no cutoff.
VotersUnfiltered(at) ==
  {r \in Regions : results[r].at # Never /\ results[r].at >= at - Freshness}
VotersEverSeen(at) == Electorate({r \in Regions : results[r].at # Never},
                                 Configured)

\* The regions whose newest result is fresh enough to vote.
Voters(at) ==
  Electorate({r \in Regions : /\ results[r].at # Never
                              /\ results[r].at >= at - Freshness},
             Configured)

Votes(at) == [r \in Voters(at) |-> results[r].status]

\* Silence leaves everything as it is.
ReadVotes(e) ==
  LET st == eval[e]
      votes == Votes(st.at)
  IN  /\ st.pc = "votes"
      /\ IF DOMAIN votes = {}
         THEN Done(e)
         ELSE Go(e, [st EXCEPT !.pc = "maintenance",
                               !.next = ConsensusStatus(votes, MinRegions),
                               !.down = Saw(votes, "down"),
                               !.voters = Cardinality(DOMAIN votes)])
      /\ UNCHANGED <<now, monitor, results, incidents, nextId, agent, left>>

\* A covered monitor's verdict is dropped whole.
CheckMaintenance(e) ==
  LET st == eval[e]
  IN  /\ st.pc = "maintenance"
      /\ IF now \in Maintenance THEN Done(e) ELSE Go(e, [st EXCEPT !.pc = "write"])
      /\ UNCHANGED <<now, monitor, results, incidents, nextId, agent, left>>

NextFailures(st) == IF st.next = "up" THEN 0 ELSE Bump(st.failures)

ToFind(st) == [EvalIdle EXCEPT !.pc = "find", !.at = st.at]
ToOpen(st) == [EvalIdle EXCEPT !.pc = "open", !.at = st.at, !.down = st.down,
                               !.voters = st.voters]

\* Mutants: recovery hung off the edge, as it once was; an edge only from 'up'.
AfterWriteOnEdge(st) ==
  CASE st.next = "up" /\ st.prev = "down" -> ToFind(st)
    [] st.next = "down" /\ st.prev # "down" -> ToOpen(st)
    [] OTHER -> EvalIdle
AfterWriteFromUp(st) ==
  CASE st.next = "up" -> ToFind(st)
    [] st.next = "down" /\ st.prev = "up" -> ToOpen(st)
    [] OTHER -> EvalIdle

\* Recovery is reconciled from the state; an incident opens on the edge.
AfterWrite(st) ==
  CASE st.next = "up" -> ToFind(st)
    [] st.next = "down" /\ st.prev # "down" -> ToOpen(st)
    [] OTHER -> EvalIdle

\* Unchanged rows are not written.  The comparison is with the row as read.
WriteVerdict(e) ==
  LET st == eval[e]
  IN  /\ st.pc = "write"
      /\ monitor' = IF st.next # st.prev \/ st.next # "up" \/ st.failures # 0
                    THEN [monitor EXCEPT !.status = st.next,
                                         !.failures = NextFailures(st)]
                    ELSE monitor
      /\ Go(e, AfterWrite(st))
      /\ UNCHANGED <<now, results, incidents, nextId, agent, left>>

\* Mutant: whatever is open, as it was before the ownership marker.
OwnOpenAny == incidents

\* The incidents that carry this job's marker.
OwnOpen == OpenOf("consensus")

\* openConsensusIncident: the newest of them.
FindOwnIncident(e) ==
  LET st == eval[e]
  IN  /\ st.pc = "find"
      /\ IF OwnOpen = {}
         THEN Done(e)
         ELSE Go(e, [st EXCEPT !.pc = "resolve", !.todo = {NewestOf(OwnOpen).id}])
      /\ UNCHANGED <<now, monitor, results, incidents, nextId, agent, left>>

\* One incident per tick is resolved.
ResolveOwnIncident(e) ==
  LET st == eval[e]
  IN  /\ st.pc = "resolve"
      /\ incidents' = {i \in incidents : i.id \notin st.todo}
      /\ Done(e)
      /\ UNCHANGED <<now, monitor, results, nextId, agent, left>>

\* Incident.create, with no look at what is open.
OpenOwnIncident(e) ==
  LET st == eval[e]
  IN  /\ st.pc = "open"
      /\ Create("consensus", st.down, st.voters)
      /\ Done(e)
      /\ UNCHANGED <<now, monitor, results, agent, left>>

Evaluate(e) ==
  \/ StartEvaluation(e) \/ ReadVotes(e) \/ CheckMaintenance(e)
  \/ WriteVerdict(e) \/ FindOwnIncident(e) \/ ResolveOwnIncident(e)
  \/ OpenOwnIncident(e)

-----------------------------------------------------------------------------
(* The metrics path: Support/legacyReceiveMetrics.ts, CheckStaleMetrics.ts *)

AgentGo(a, st) == agent' = [agent EXCEPT ![a] = st]

\* The token found the row; the sample is stored; the fleet is aggregated.
\* A breaching sample makes the fleet degraded, and another host's can too.
StartLegacyPush(a, sample, fleet) ==
  /\ agent[a].pc = "idle"
  /\ sample = "degraded" => fleet = "degraded"
  /\ Spend("push")
  /\ results' = Recorded(AgentRegion, now, sample)
  /\ AgentGo(a, [AgentIdle EXCEPT !.pc = "write", !.at = now,
                                  !.prev = monitor.status, !.fleet = fleet,
                                  !.failures = monitor.failures])
  /\ UNCHANGED <<now, monitor, incidents, nextId, eval>>

WriteFleetStatus(a) ==
  LET st == agent[a]
  IN  /\ st.pc = "write"
      /\ monitor' = [monitor EXCEPT
           !.status = st.fleet,
           !.failures = IF st.fleet = "up" THEN 0 ELSE Bump(st.failures)]
      /\ AgentGo(a, [st EXCEPT !.pc = "clear"])
      /\ UNCHANGED <<now, results, incidents, nextId, eval, left>>

\* The push proves the agent alive: every missed-push incident is resolved.
ClearMissedPush(a) ==
  LET st == agent[a]
  IN  /\ st.pc = "clear"
      /\ incidents' = incidents \ OpenOf("missed_push")
      /\ AgentGo(a, [st EXCEPT !.pc = "edge"])
      /\ UNCHANGED <<now, monitor, results, nextId, eval, left>>

\* On its own edges, from the row as read: openIncident, whose dedup is by a
\* cause that quotes readings and so may or may not match; or resolve the
\* newest open incident, whoever opened it.
FleetEdge(a) ==
  LET st == agent[a]
      opens == st.prev # "degraded" /\ st.fleet = "degraded"
      recovers == st.prev \in {"degraded", "down"} /\ st.fleet = "up"
  IN  /\ st.pc = "edge"
      /\ \/ opens /\ st.at \notin Maintenance /\ Create("server_metrics", {}, 0)
         \/ /\ opens
            /\ st.at \in Maintenance \/ OpenOf("server_metrics") # {}
            /\ UNCHANGED <<incidents, nextId>>
         \/ /\ recovers
            /\ incidents' = IF incidents = {} THEN {}
                            ELSE incidents \ {NewestOf(incidents)}
            /\ UNCHANGED nextId
         \/ ~opens /\ ~recovers /\ UNCHANGED <<incidents, nextId>>
      /\ AgentGo(a, AgentIdle)
      /\ UNCHANGED <<now, monitor, results, eval, left>>

LegacyPush(a) == WriteFleetStatus(a) \/ ClearMissedPush(a) \/ FleetEdge(a)

\* CheckStaleMetrics: openIncident dedups on a cause that is always the same,
\* and leaves the status of a consensus monitor alone.
MissedPush ==
  /\ Spend("missed")
  /\ monitor.enabled
  /\ now >= (IF results[AgentRegion].at = Never THEN 1
             ELSE results[AgentRegion].at) + MetricsWindow
  /\ now \notin Maintenance /\ OpenOf("missed_push") = {}
  /\ Create("missed_push", {}, 0)
  /\ UNCHANGED <<now, monitor, results, eval, agent>>

-----------------------------------------------------------------------------
(* The environment                                                         *)

Advance ==
  /\ now < MaxTime
  /\ now' = now + 1
  /\ UNCHANGED <<monitor, results, incidents, nextId, eval, agent, left>>

\* The job has one try: a crash or a failing statement loses the rest of it.
Crash(e) ==
  /\ eval[e].pc # "idle"
  /\ Spend("crash")
  /\ Done(e)
  /\ UNCHANGED <<now, monitor, results, incidents, nextId, agent>>

CrashLegacy(a) ==
  /\ agent[a].pc # "idle"
  /\ Spend("crash")
  /\ AgentGo(a, AgentIdle)
  /\ UNCHANGED <<now, monitor, results, incidents, nextId, eval>>

ResolveByHand(i) ==
  /\ Spend("resolve")
  /\ incidents' = incidents \ {i}
  /\ UNCHANGED <<now, monitor, results, nextId, eval, agent>>

\* The operator pauses or resumes the monitor.
Toggle ==
  /\ Spend("toggle")
  /\ monitor' = [monitor EXCEPT !.enabled = ~@]
  /\ UNCHANGED <<now, results, incidents, nextId, eval, agent>>

Init ==
  /\ now = 1
  /\ monitor = [enabled |-> TRUE, status |-> "unknown", failures |-> 0]
  /\ results = [r \in Regions |-> [at |-> Never, status |-> "up"]]
  /\ incidents = {}
  /\ nextId = 1
  /\ eval = [e \in Evaluators |-> EvalIdle]
  /\ agent = [a \in Agents |-> AgentIdle]
  /\ left = Budget

Next ==
  \/ \E r \in Regions, s \in Cast : RecordCheck(r, s)
  \/ \E r \in Regions, s \in Verdicts : IngestResult(r, s)
  \/ \E e \in Evaluators : Evaluate(e) \/ Crash(e)
  \/ \E a \in Agents :
       \/ \E s, f \in {"up", "degraded"} : StartLegacyPush(a, s, f)
       \/ LegacyPush(a)
       \/ CrashLegacy(a)
  \/ MissedPush
  \/ Advance
  \/ \E i \in incidents : ResolveByHand(i)
  \/ Toggle

Spec == Init /\ [][Next]_vars

\* The scheduler runs the job every minute and a job that started ends unless
\* it crashes; so does a request.  Checks, samples and crashes need not happen.
Fairness ==
  /\ \A e \in Evaluators : WF_vars(Evaluate(e))
  /\ \A a \in Agents : WF_vars(LegacyPush(a))
  /\ WF_vars(Advance)

FairSpec == Spec /\ Fairness
-----------------------------------------------------------------------------
(* Properties                                                              *)

\* The types of the variables.
TypeOK ==
  /\ now \in Nat \ {0}
  /\ monitor \in [enabled: BOOLEAN, status: Verdicts, failures: 0 .. FailureCap]
  /\ results \in [Regions -> Result]
  /\ incidents \in SUBSET Incident
  /\ nextId \in Nat
  /\ eval \in [Evaluators -> EvalState]
  /\ agent \in [Agents -> AgentState]
  /\ left \in [Events -> Nat]

\* Every consensus incident that is open was backed, when its votes were read,
\* by the configured number of regions or by all that voted, and those regions
\* are all configured or none of them is: a region that is not configured
\* never tips a vote the configured ones take.
QuorumBacksEveryIncident ==
  \A i \in OpenOf("consensus") :
    /\ Cardinality(i.down) >= Required(i.voters, MinRegions)
    /\ i.down \subseteq Configured \/ i.down \cap Configured = {}

\* The consensus job closes no incident that another job opened, whichever
\* write of another process falls between its lookup and its update: the loop
\* in which two jobs undid each other every minute cannot start here.
ForeignIncidentsUntouched ==
  [][\A e \in Evaluators : eval'[e] # eval[e] =>
       \A i \in incidents : i.owner # "consensus" => i \in incidents']_vars

\* Silence decides nothing: the job rewrites the status, opens or closes only
\* while some region's newest result is no older than the window its run
\* started with, even if every region has gone quiet since.
SilenceDecidesNothing ==
  [][(\E e \in Evaluators : eval'[e] # eval[e]) /\ <<monitor, incidents>>' # <<monitor, incidents>>
       => \E e \in Evaluators, r \in Regions :
            /\ eval'[e] # eval[e]
            /\ results[r].at # Never /\ results[r].at >= eval[e].at - Freshness]_vars

AtRest == \A e \in Evaluators : eval[e].pc = "idle"
Undisturbed == \A ev \in {"crash", "resolve", "push"} : left[ev] = Budget[ev]
HasOpen == OpenOf("consensus") # {}

\* Between runs, if none was cut short and nobody else touched the row or
\* closed an incident, a monitor that reads 'down' has an open incident: the
\* edge was not spent in a maintenance window, in a degraded spell or while
\* the monitor was paused.
DownIsAnnounced ==
  AtRest /\ Undisturbed /\ monitor.status = "down" => HasOpen

AllSee(s) ==
  /\ monitor.enabled
  /\ now \notin Maintenance
  /\ \A r \in Configured : /\ results[r].status = s
                            /\ results[r].at # Never
                            /\ results[r].at >= now - Freshness

\* Once every configured region sees the target up, whatever crashed, raced or
\* was written by another job before, the monitor ends up reading 'up' with no
\* consensus incident open, and stays so.
EventuallyRecovered ==
  <>[]AllSee("up") => <>[](monitor.status = "up" /\ ~HasOpen)
=============================================================================
