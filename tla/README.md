# A formal model of StatusHQ's monitoring core

StatusHQ watches sites, scheduled tasks and servers, decides whether each is
up, and tells people when it is not. This directory holds TLA+ modules of the
part that decides: the jobs, requests and rows that turn observations into a
status and into incidents. TLC checks the modules on small instances, and
TLAPS proves some of what they claim for every value of their constants.

## The system

StatusHQ is one application in several processes that share a database:

- the **web process** answers requests: agents pushing host metrics, tasks
  pinging, remote regions posting results, and people using the dashboard;
- **queue workers** run jobs. The scheduler queues most of the deciding jobs
  once a minute (`app/Scheduler.ts`);
- **agents** and **region probes** run elsewhere and only send.

Nothing orders two processes but the database, and most handlers are a chain of
single statements with decisions in between. So the hard behaviours are the
same everywhere: two chains interleave; a chain stops half way because its
process died (most deciding jobs have `tries: 1`); a verdict is taken on a row
read long before it is written; the status is written before the incident that
explains it; a maintenance window hides one of the two.

| Component | State it keeps | Operations | What makes it correct |
|---|---|---|---|
| Server status and incidents (`ReceiveMetricsAction`, `lib/serverIncidents`, `CheckStaleServers`, `lib/agentHosts`) | `servers.status`, `last_sample_at`, samples per host, two kinds of incident | push, tick, reconcile | a push beats a tick; a box never heard from pages nobody; open incidents agree with the status, and agreement is restored after any race or crash |
| Region consensus (`config/regions`, `EvaluateMonitorConsensus`) | `monitors.status`, `consecutive_failures`, consensus incidents | fold the newest fresh result per region, write, open, resolve | a quorum behind every incident; silence decides nothing; only its own incidents are closed; an outage is announced and a recovery closes it |
| Check results (`Run*Check` of the consensus types, `IngestRegionResultsAction`) | `check_results`, `last_checked_at` | record | late results do not overrule newer ones |
| Dispatch (`DispatchDueChecks`, `lib/monitorConfig`, `region-probe`) | `last_checked_at`, the queue | queue what is due, probe by timer | every enabled monitor is looked at in time and not too often, however its failures are counted |
| Pre-Server metrics (`legacyReceiveMetrics`, `CheckStaleMetrics`) | the monitor row and incidents, shared with consensus | push, missed push | the two owners of one row do not undo each other |
| Heartbeats (`ReceivePingAction`, `CheckOverdueHeartbeats`, `lib/heartbeat`) | ping stamps, status, incidents | start, fail and success pings, overdue tick | a silent task ends down; down has a reason; one incident per cause |
| Incident opening (`lib/maintenance`) | incidents | `openIncident` | suppressed in a window, one per cause |
| Host checks (`RunDnsCheck`, `RunPortScan`) | status, snapshots per record type, incidents per finding | check, compare with the last snapshot | an incident for each change and each finding, none twice; changes are told |
| Inline checks (`RunSslCheck`, `RunDomainCheck`, `RunBlocklistCheck`, `RunAiCheck`, `RunCrawl`, `RunLighthouseAudit`, `CheckPerformanceTrends`) | status, history and incidents of their own types | check, compare with the last | a warning per rung, an incident per problem, closed on recovery, and what was stored was told |
| Maintenance windows (`UpdateMaintenanceWindowStatus`, `NotifyUpcomingMaintenance`) | window status, announcement stamp | transition, announce, save, attach, delete | the status follows the clock and the operator; an occurrence is mailed once |
| Notifications (`Events`, `Listener`, `SendNotification`) | the queue | listen, fan out, send, retry | planned work pages nobody; every other page and all-clear arrives, once |
| Incidents API | incidents | create, acknowledge, update | what people write raises the same events |
| Server backfill (`BackfillServers`) | the journal, and every row it moves | backfill, rollback | no reading lost, doubled or mixed up; a rollback is the inverse |
| Uptime arithmetic (`lib/uptime`) | none | rounds, ratio, day colour | one round per tick, the verdict of the same votes; worse rows never give a better figure |

They interact through shared rows (`monitors`, `incidents`, `check_results`,
`servers`), through the queue, and through model events that start the
notifications. `PROJECT.json` lists every part of the repository, with the
reason where it is not modelled, and every hazard at its line.

## The modules

| Module | What it is |
|---|---|
| `ServerStatus` | abstract: what the status of a Server promises its readers |
| `ServerIncidents` | pushes, ticks and reconciles, statement by statement; implements `ServerStatus` |
| `ServerIncidentsProofs` | theorems about it: types, the baseline, the refinement, and how many incidents races can open |
| `Consensus` | the vote, as operators |
| `ConsensusProofs` | theorems about the vote and the uptime, and about `MCConsensus` |
| `Uptime` | rounds, ratio and day bars over the same vote; extends `Consensus` |
| `MonitorConsensus` | the consensus job, what feeds it and what else writes its rows; extends `Consensus` |
| `MonitorConsensusProofs` | theorems about it: types, quorum, ownership, silence, announcement |
| `Dispatch` | the loop from due date to check to verdict to backoff; extends `Consensus` |
| `DispatchProofs` | theorems about it: types, how long a monitor may go unwatched, how often it is looked at too early, how soon its status follows the target |
| `Heartbeat` | pings and the overdue job |
| `HeartbeatProofs` | theorems about it: types, one incident per cause, the reason of every `down` |
| `HostChecks` | DNS checks and port scans, which find several things at once and open an incident for each |
| `InlineChecks` | the seven other checks that decide alone |
| `InlineChecksProofs` | theorems about it: one incident, status, ladder, stored history |
| `Maintenance` | one window: the forms, the status job, the announcements |
| `Alerting` | incidents under that window, listeners, routing and sends; extends `Maintenance` |
| `AlertingProofs` | theorems about both: types, mails, planned work, notices |
| `Backfill` | the migration of readings from monitors to servers, and back |
| `BackfillProofs` | theorems about it: types, boxes kept apart, readings kept once, service, the way back |
| `MC*` | budgets and symmetry for TLC; `MCConsensus` turns votes and histories into states |

### ServerIncidents

`server` is the row, `samples` the newest sample per host, `incidents` the
unresolved incidents, and `proc` holds where each request or job is with the
values it carries. A push is `StartPush` (token, thresholds, evaluation), then
`CommitPush` (one transaction: insert, fleet read, status and baseline), then a
reconcile. A tick is `StartTick`, `TickReadRow`, perhaps `TickReadFleet` and
`TickClaim` (the compare-and-set), then a reconcile. A reconcile is `ListOpen`
and `CloseOne` per incident for each kind it closes, then `FindOpen` and
`CreateIncident` or `UpdateIncident`. Any chain may stop at any point (`Crash`);
an operator edits the window, resolves an incident or deletes the box.

Abstracted: readings are the set of metrics a host breaches; a box is in
maintenance at given instants; timeline entries (`IncidentUpdate`), wording and
percentages are left out. One Server, because no statement relates two.

`ServerStatus` says the same about the status column alone, with no processes:
`unknown` means no sample ever, a sample answers at once, `quiet` needs a
baseline that outlived a window. `StatusPromise` is the refinement.

### Consensus, Uptime and MonitorConsensus

`ConsensusStatus(votes, min)` is `consensusStatus` on a function from the
regions that voted to what they saw; `Electorate` is the choice of who votes.
`Uptime` computes `collapseToRounds` (`RoundStarts`, `RoundVotes`, `Units`) and
`computeUptime` from a set of rows, with that vote in every round.

`MonitorConsensus` has one monitor of a consensus type. `RecordCheck` and
`IngestResult` file a result, stamped when it was made and up to `MaxLag` late.
The job is `StartEvaluation` (rows read once), `ReadVotes`, `CheckMaintenance`,
`WriteVerdict`, then `FindOwnIncident` and `ResolveOwnIncident` on `up`, or
`OpenOwnIncident` on an edge to `down`. An incident remembers the regions that
were down and how many voted, as `impacted_checks` and the cause do. The older
metrics path writes the same row: `StartLegacyPush`, `WriteFleetStatus`,
`ClearMissedPush`, `FleetEdge`, and `MissedPush` for its tick. In that path a
lookup and its write are one action, since no property is about two of its own
runs racing; whether a cause that quotes percentages matches an open one is a
choice.

### Dispatch

The same monitor seen as a control loop, without incidents. `Tick` queues
`DispatchDueChecks` and `EvaluateMonitorConsensus` on the minute; a worker takes
the head of the queue. `StartDispatch` decides whether the monitor is due
(`Due`, `Multiplier`) and `EnqueueCheck` queues the check; `FileAnswer` and
`TouchMonitor` are the insert of the result and the write of `last_checked_at`;
`StartEvaluate` and `WriteVerdict` turn fresh results into status and failure
count, from which the next multiplier comes. `ProbeTarget` is a remote region's
timer, `ProbeSlowly` and `IngestLate` a post that takes a while. `CrashWorker`
gives a check back to the queue and loses the other jobs.

Instants are kept as *ages*, in half minutes, and every age stops at a bound
(`Old` for results, `Overdue` for `last_checked_at`, `Settled` for `calm`), so that
time runs for ever in a finite model. No bound is reached before the age has
stopped to matter: a result older than `Freshness` has no vote, a stamp older
than interval times cap is due under any multiplier, and `calm` counts further
than the longest wait a property speaks of.

### Heartbeat

The row's three stamps, the status, the incidents. A ping is `StartPing`,
`LoadMonitor`, `StampRow`, then `WriteDown`, `LookForIncident`, `CreateIncident`
for a failure of a monitor that is not down, or `WriteUp`, `FindIncident`,
`ResolveIncident` for a success of one that is. The tick is `StartTick` (all
rows, judged at once), `LoadOverdueMonitor`, `WriteDown`, `LookForIncident`,
`CreateIncident`. `NextExpected` gives the next expected ping for each baseline, so
that an interval and a cron schedule are two values of one constant.

### HostChecks

One monitor of one of the two kinds. A worker goes through the parts of the host in
order: a DNS check through the record types, with `Resolve`, `ReadPrevious`, `Store` (only
what differs from the last snapshot), `Look` and `Open` for each; a port scan through
its two findings after `ScanPorts`, with `Look` and `Open` for each that is not empty. Then
`WriteRow`. What a part shows is a number: a record set, none, no answer; or the ports
a finding lists. `Cause` is what tells incidents apart: the record type and whether
its records changed or went, or the finding with its ports. Neither job resolves
anything. A DNS check is tried twice, and a crash sends it back to its start.

### InlineChecks

One monitor of one kind. A handler is the list of statements it has still to
run (`plan`), computed by `Plan` when the target has answered; each statement is
an action, and several workers may be in the middle of one. The target is a
verdict, a number of days left (or a level: the broken links of a crawl, the
points an audit takes off) and a serial that names the certificate, the
registration or the state of the site. An `ai_check` has a job per assertion, and
the one that passes resolves the open incident whichever assertion opened it. A
crawl reads the last crawl before it starts, an
audit after; both open an incident on a rise only. The ladder of warnings is
`WarnAt`, worked out from what the previous check stored.

### Maintenance and Alerting

A window is a row with a plan; a plan is an anchor and, if it repeats, the
instants its expression matches. `SyncRead` and `SyncWrite` are the two halves of
`UpdateMaintenanceWindowStatus`, `AnnounceRead`, `Mail` and `Stamp` of
`NotifyUpcomingMaintenance`; the operator's forms fall between them. `intent` is
a history variable: what was last saved, and when.

`Alerting` adds a check that fails and recovers (`CheckLook` and `CheckOpen` are
`openIncident`, which asks about the window first and about a duplicate later), the
incidents API, and the way to a channel: every write of an incident puts an event
in a bag, `Listen` handles one in any order, jobs are sent or fail and are tried
`Tries` times. The process that holds the events can die with them.

### Backfill

Both commands write by write, each followed by the flush of the journal; a
command may be killed at any point (`Die`) or stop with an exception that is
flushed (`Abort`), and both may be run again. Agents push meanwhile and land where
the token pointed when they asked. A push is its own chain: `LandOnServer`
commits the sample and `ReconcileServer` opens or closes the incident of the server
afterwards, `LandOnMonitor` and `ReconcileMonitor` do so for the old path, and a
command may take any number of steps in between. Resolving an incident and noting
it are two writes, `ResolveIncident` and `NoteIncident`, and only the second is followed
by the journal. `mishaps` records what the journal cannot tell: a write that was never
recorded, a push that wrote to a server the rollback had already looked at or deleted
(`late`), a metric incident that an agent moved (`pushed`). `CheckStaleServers` may open an
incident in the middle of a rollback just as a late push does, and is left out.
A reading keeps one number for its life, which
stands for its row id, its sample id and its time.

## The runs

Budgets bound how often each environment event happens in a behaviour, and
`MaxTime` the clock; both are named in the modules' CONSTANTS and guards. In
`Dispatch`, `InlineChecks`, `HostChecks` and `Maintenance` an entry `any` bounds the events of
all sorts together, which keeps every pair or triple of them and leaves out only
behaviours with more. An entry `overlap` is not spent: it says whether chains of
statements may interleave. A budget constant that is a set gives one choice per
initial state, so that one run covers several environments.

| Run | Question | Instance |
|---|---|---|
| `server_race` | Does the compare-and-set hold, and do incidents stay bounded, under every interleaving? Without overlap, do incidents and status agree, through heat and silence? | 2 pushes, 1 tick, 2 windows to edit between, 1 manual resolve; maintenance at the last of 4 instants, so that samples age past either window before it |
| `server_settle` | Without overlap, is there one incident of a kind? With it, do the ticks repair whatever races, crashes and window edits left? | 2 pushes of 2 hosts, 1 tick, crash, deletion, window edit, resolve, a maintenance instant |
| `consensus_votes` | Is the vote monotone and decided by the threshold? Are uptime figures counted by ticks? | all votes of 4 regions, thresholds -1 to 5; all histories of 3 regions over 2 ticks and 2 days, with rounds of exactly half the interval |
| `monitor_race` | Are opened incidents backed and closed ones owned, when two evaluations overlap? | 2 evaluations; 3 late results from two configured regions that must agree, a stray one and the agent's rows; a missed push, a manual resolve |
| `monitor_recover` | Is an outage announced and a recovery noticed, with a second writer on the row? | 4 results, a legacy push, a crash, a pause, a maintenance instant |
| `dispatch_loop` | Is the monitor watched in time, at its pace, and does the status follow? | unbounded time; 2 workers, 1 remote region, interval of a minute, cap 2; the target changes once, and one of: the queue falls behind, a late post, a crash, a manual check, a pause or its end |
| `heartbeat_all` | Do status, stamps and incidents agree between runs, and does a silent task end down? | 2 pings and a tick; overlapping with a crash, or one at a time with a reported incident and a manual resolve too |
| `backfill_roundtrip` | Is a rollback the inverse, and is nothing lost or mixed up, with a push whose incident follows its sample? | 2 backfills, 3 rollbacks, 1 abort, 1 kill, 1 push, 1 detachment; 3 monitors, 2 of them sharing a token |
| `checks_all` | Do the seven checks tell once, keep one incident and close it? | per kind up to 4 events, or 3 with two workers overlapping |
| `host_all` | Do several incidents of one check stay apart, and is every change told? With overlap, do snapshots catch up and do wrong ports keep an incident? | 2 record types, both findings, 2 versions of each; 3 events with one check at a time, 1 or 2 with two |
| `alerting_all` | Does every page arrive once, and none from planned work? | four environments: windows, planned work over failing checks, failing attempts, people |
| `heartbeat_window` | Violation: a deadline missed in a window never opens an incident | no pings |

Why the bounds are enough to see the cases: each race in the modules needs at
most two chains, so two requests and a tick (or two evaluations, or two workers)
reach it; each deadline needs an instant before, at and after it, and windows of
one and two instants put samples of different ages on both sides. A third host
or region adds no new order of statements. In `Dispatch` the stretch is capped at
2 and the interval at a minute: that is the first value at which the stretch,
the freshness window and the minute of the scheduler can disagree; with one value
in `Intervals` an edit is a pause or its end. `EvaluatorSymmetry` and `HandlerSymmetry` are
used only in runs without liveness.

Several properties state what the code achieves only when chains do not
overlap or nothing was cut short (`Overlap`, `Calm`, `AtRest`, `mishaps`,
`spent`): that is the boundary of the promise. The violation run and the list below
show what is on the other side.

### Fairness

`FairSpec` assumes weak fairness of three things: a request or job that has
started goes on until it ends or crashes; the scheduler starts a deciding job
again and again (every minute in the code); the clock advances. In
`Alerting` it is the status job, the listeners and the queue, and nothing of the clock
or of the checks. It assumes nothing of pushes, pings, results, operators or crashes.
Budgets make the disturbances finite, which is what "eventually" is relative to.
`Dispatch` states its bounds on waiting as invariants over ages and needs no fairness.

### Disagreements found

- **`heartbeat_window`.** The overdue job writes `down` inside a window and
  then skips a monitor that is down, so nothing opens when the window closes, as
  `docs/operate/maintenance.md` says it does. Consensus monitors keep the promise
  because their job drops the whole verdict.

Seen while modelling, and not kept as runs:

*Servers.*
- Two reconciles that overlap open two incidents of a kind
  (`lib/serverIncidents.ts:187`), where the comment at 158-161 counts on one at most.
  `IncidentsNeverStack` bounds them and `EventuallySettled` shows that a later reconcile
  sweeps them.
- A tick whose verdict equals the row's opens an incident without the
  compare-and-set; a reconcile in flight when a Server is deleted opens an incident on
  the missing row.

*Consensus and dispatch.*
- `EvaluateMonitorConsensus` writes the status first (139) and opens only on the edge, so a
  crash in between leaves a monitor down with no incident, and no later tick opens one
  (`docs/operate/incidents.md:8` says one opens). Recovery was already rewritten to follow the
  state; `DownIsAnnounced` leaves crashes out.
- A degraded verdict opens no incident although `docs/operate/incidents.md`
  says it does; a single region's vote does open one while no other region is fresh
  (documented in `config/regions.ts`, denied in the docs).
- `IngestRegionResultsAction.ts:108` moves `last_checked_at` for results of remote
  regions. The comment above `isActivelyPolled` in `lib/monitorTypes.ts` reserves that
  column for the monitor's own probe, and `docs/self-hosting/scaling.md:43` says the primary
  keeps running its own checks. The region probe posts every 60 seconds for every
  enabled consensus monitor, so a monitor with an interval of a minute or more is
  never due on the primary. `WatchedInTime` therefore asks for *some* region.
- `consecutive_failures` counts evaluations (`EvaluateMonitorConsensus.ts:137`), one a minute
  whatever the interval; `Models/Monitor.ts:143` calls it failed checks.
- Due monitors are looked for once a minute (`Scheduler.ts`), where
  `docs/introduction.md:21` promises intervals of 30 seconds. Since the stamp falls
  after the tick, a one-minute monitor is checked every one or two minutes.
- Two overlapping checks may write `last_checked_at` in reverse order and so
  cause one more early check: hence the factor of two in `PaceKept`.

*Heartbeats.*
- A success ping between the overdue job's status write and its incident
  (`CheckOverdueHeartbeats.ts:50`) finds nothing to resolve; the incident opened afterwards
  stays open on a healthy monitor (`docs/operate/incidents.md:24` says recovery is automatic).
  The job also judges rows it read before a ping.

*Inline and host checks.*
- Crawls, audits, port scans, record changes and expired domains open
  incidents that no later check resolves, against `docs/operate/incidents.md:24`. An expired
  domain gets another each day (`RunDomainCheck.ts:175-184`), since the cause quotes the days.
- A crash between the stored history and the incident loses the warning, the
  change or the rise for good, since the next check compares with what was stored.
- The assertions of an `ai_check` share one incident: the job of one that passes resolves the
  failure of another (`RunAiCheck.ts:149-159`), and the next check of the failing one opens,
  and notifies, again; the comment at 56 promises once.

*Windows and notifications.*
- The status job may write over a cancellation saved since it read the row
  (`UpdateMaintenanceWindowStatus.ts:51`, against its comment at 14-16); a repeating
  window ignores `starts_at`.
- An incident paged before a window and resolved inside it never gets its
  all-clear (`SendIncidentResolvedNotification.ts:33-36`, against `docs/operate/notifications.md:62`);
  the fan-out of server incidents asks about the start instead and does send it.
- "nothing in this codebase updates an already-resolved incident again"
  (`SendIncidentResolvedNotification.ts:16-17`), but `UpdateIncidentAction` does.
- Subscribers of a status page are skipped when a monitor has no channel
  (`SendIncidentNotification.ts:50`, while line 68 calls them always notified).
- `subscribers_notified_for` names the last occurrence only, so an edit can
  announce one again; an all-clear can overtake a page that is being retried.

*Backfill.*
- `resolveIncidentQuietly` resolves an incident and then inserts its note, and the entry names
  the incident after both (`BackfillServers.ts:426-429`). If the insert throws, the entry is
  flushed as aborted without it, and a rollback leaves the incident resolved, against the
  comment at 837 that every write is journaled as it lands. In the model that is an
  unrecorded write.
- "nothing is lost either way" (`BackfillServers.ts:56-65`): rows without metrics
  are deleted with the batch (605) and exist only in memory until the flush
  (631); a command killed in between loses them, and leaves samples no rollback
  knows of. `ReadingsKeptOnce` is about the readings that have metrics,
  `RoundTrip` about behaviours without an unrecorded write.
- An orphan token is dropped on the snapshot taken at the start, even if its
  agent has pushed since (781, against `SERVER-MODEL-SPEC.md:667`).

## What is proved

TLC checks each property on one instance; the theorems below are about every
value of the constants that satisfies the assumption of the module. Each rests on
an inductive invariant, which TLC checked on the instance of the run before
it was proved. Where a property is promised only while nothing overlaps or dies, the
theorem says so as the property does.

**Servers.** `ServerIncidentsProofs`, from `ServerAssumption` (finite,
disjoint processes; positive windows; instants are natural numbers).

- `TypeCorrect`: `Spec => []TypeOK`. What is proved of types is not checked by a run as
  well; the run of `HostChecks`, which has no theorems, checks its `TypeOK`.
- `Baseline`: `QuietOnlyWhenOverdue` is about one step, but whether that step is safe
  depends on what the tick read some steps before. `BaselineInv` carries it: a tick
  waiting at its compare-and-set with verdict `quiet` read a baseline that was overdue
  at its own instant, its instant is not after the clock, and while no sample ever came
  nobody is past the guard `NeverHeardFrom` and nothing is open. `NobodyPagedTooEarly`
  (`NoIncidentBeforeFirstSample`, of which a run would repeat what `StatusPromise` says of the
  status) and `QuietIsOverdue` follow.
- `KeepsStatusPromise`: `Spec => StatusPromise`, the refinement. A commit is a `Sample`, a
  claim is a `Reassess`, a `GoQuiet` or no move, every other step leaves the row's
  status and baseline alone. The guards of the abstract steps (a baseline exists, it
  outlived a window) are what `BaselineInv` says of a tick at its compare-and-set.
- `NeverMoreThanRace`: `StackInv` adds to the open incidents of a kind the processes that
  are about to insert one: such a process saw none open, so the sum never exceeds
  the number of processes.
- `SerialOpensOne`: without overlap, `SerialInv` says that the one process at work, if it is
  about to insert, has none of its kind open before it.
- `SerialRunsReconcile`: open incidents and status disagree in the middle of every
  reconcile. `RestInv` names what the chain in flight still owes for each kind (close
  it, open it, nothing), so that at rest nothing is owed.

**The vote.** `ConsensusProofs`, about `Consensus` and `Uptime` for any finite set of
regions and any integer threshold, and about `MCConsensus` from `VotesAssumption`
(regions straggle less than half an interval, no further than the 30 s ceiling,
and the next tick is more than the 5 s floor away; the width of a round is what
`roundMsForInterval` makes it, half the interval included).

- `WorseVotesWorseVerdict`, `MinorityIsOutvoted`, `UnanimityDecides`: the lemmas
  `RequiredBounds`, `SawSizes` and `VerdictByCounts` reduce the verdict to three
  cardinalities. `ThresholdConfirms` is the second and third as one invariant, with `VotesInv`.
- `WorseRowsWorseUptime`: the rounds stay where they are because they depend on
  instants alone, the voters of a round stay, each one's newest row is as bad or worse,
  and the units of the two histories correspond one to one. `WorseIsNeverBetter` is the
  action property, with `RowsInv` (one row per instant and region).
- `StartsAreFirsts`: the recursion that begins one round after the other has one solution
  when being close is transitive. No induction over data is needed: that the firsts
  satisfy the equation is shown directly, and that any solution is the firsts
  by taking the least instant close before a supposed exception. `UnitsAreTicks` and
  `EveryRoundIsATick` apply it to ticks, with `TicksInv`.

**Monitors of a consensus type.** `MonitorConsensusProofs`, from `ConsensusAssumption`.

- `TypeCorrect`; `TypeInv` adds that ids are handed out once.
- `IncidentsAreBacked`, `NothingOnSilence`, `ClosesOnlyItsOwn`: overlapping jobs act on what
  they read before. `HeldInv` says what an evaluation in flight holds: its votes are
  the electorate of its start, an incident about to be opened has the required votes
  behind it, one about to be closed is its own.
- `EveryDownIsAnnounced` assumes `OneAtATime` (evaluations may not overlap, or there is one).
  The assumption is needed: of two overlapping evaluations one reads the `down` the other
  has just written, and is no longer at an edge. `AnnouncedInv` accounts for the job
  between its write and its insert.

**The loop of due dates.** `DispatchProofs`, from `DispatchAssumption`.

- `TypeCorrect`; the prover knows nothing of powers, and `MultiplierBounds` needs nothing of
  them: whatever the power is, the multiplier is between one and the cap.
- `InTime`: `WatchedInTime` is not inductive, since how long a region has to look depends on
  what is queued and held. `WatchedInv` adds that a dispatch or a check under way (`Pending`)
  buys a minute, that a monitor with nothing under way has been looked at a minute earlier
  than that, that a stamp not overdue is the stamp of a result (so a dispatch that
  finds the monitor not due proves that somebody looked), and that a check is held for no
  longer than the minutes in which the queue ran behind. A minute that begins before the
  last one's jobs are done and a worker that dies pay for what they delay or lose.
- `InPace`: `PaceKept` counts what has happened; what may still happen is `Future`, and
  `PaceInv` says that early looks so far, `Future` and the late results on their way are
  within the allowance. `Future` depends on how many dispatches, checks and touching workers
  there are, on whether the next look is due, whether a dispatch comes first, and whether
  the stamp, or a check that will write it, is older than the newest result. A job alone
  is early only if the stamp it goes by is older than the result; each job more costs two,
  its own look and one after the stamp it may move back. That is the factor of two in
  `PaceKept`.
- `FollowsInTime` and `FollowsLate`: what is counted is the *net* time, since the last edit
  or change of the target, less what a fresh result lasts and what each fault costs
  (`Net`). `FollowInv` says that the row and all verdicts about to be written agree with
  the target (`Firm`), or else one of three things holds that keep the net time small:
  no result can be relied on yet (`Unsettled`); a result was filed that the next
  evaluation will find (`Recent`); or a look is due or will be, by a stamp older than the net
  time (`Waiting`). The verdict of an evaluation is the target's state because every result
  with a vote is younger than the last change (`TruthInv`), and is written because the row
  says otherwise. Two conditions came out of the proof, which the run's constants satisfy
  and which are therefore not in `StatusFollows`. `Grace < Freshness`: a result must
  keep its vote for longer than the jobs of a minute may take, or none is left when one
  evaluates. And a post that comes late moves `last_checked_at` though its result
  may have no vote any more, so each may put the next look off by another stretched interval;
  `FollowsLate` adds that to the time (`StatusFollowsLate`), and `FollowsInTime`
  is `StatusFollows` itself while no post came late. In the run, interval times cap is
  below `Freshness`, a late post still votes, and the property holds with it.

**Heartbeats.** `HeartbeatProofs`, from `HeartbeatAssumption`.

- `TypeCorrect`, `NeverTwiceOpened` (`CauseInv`: a process about to insert saw none of its
  cause), `NeverDownForNothing` (`ReasonInv`: what each process between its write and its end
  knows of the stamps).
- `IncidentsSayWhatStatusSays` assumes `Maintenance = {}`, as the run does: a monitor that goes
  down inside a window is down with no incident by design (and stays so, see
  `heartbeat_window`). `MatchInv` accounts for the process between the status and
  the incident.

**Inline checks.** `InlineChecksProofs`, from `ChecksAssumption` (finitely many workers,
a ladder with a longest rung), for all seven kinds. `HostChecks` has no theorems.

- `OneOpen`: a handler about to open has seen that nothing of its cause stands
  (`SoloInv`). Kinds with one cause have one incident, the others one of a cause.
- `StatusAndIncidentsAgree`: `StatusInv` says, for every remainder of a plan, which statements
  still have to run for the two to agree (`StatusAgrees`; the runs check the liveness of the
  same agreement, `RecoveryResolves` and `StaysOpenWhileBad`).
- `EachRungOnce`: `LadderInv` compares the rungs told with the last row stored and with
  what the handler in flight has read of it.
- `WhatIsStoredWasTold`: `ToldInv`, that what was stored and not yet told is still in the
  plan of the worker that stored it.

**Windows and notifications.** `AlertingProofs`, from the assumptions of `Maintenance` and
`Alerting`.

- `TypeCorrect`, from `WindowThroughout` and `AlertThroughout`.
- `MailsAreCounted`: `MailInv` adds to the mails sent the one in flight and those of one more
  run, so that each crash and each save pays for what it can repeat.
- `NoPageForPlannedWork`: `ForceInv` (what the operator left in force is in force, whatever the
  status job writes) and `QuietInv` (what began in such a window is silent at each place
  where its events and jobs can be).
- `OneNoticePerTurn`: `TallyInv` counts the notices sent together with the events and jobs
  that can still become one, against openings, recoveries, failed attempts and patches;
  `StandingInv` for the incident that is not resolved.

**Backfill.** `BackfillProofs`, from `BackfillAssumption` (`TokenOf` gives monitors tokens).

- `TypeCorrect` and `BoxesStayApart`: `BoxInv` is that *one* map from server ids, those of
  deleted servers included, to tokens explains every table, the journal, the command in
  memory and the push in flight. Ids are never used twice, so it only grows.
- `KeptOnce`: `OnceInv`, that two rows, two samples, or a row and a sample never hold one
  reading, and that one holds it as soon as the push has landed.
- `CompleteServesAll`: `GroupsInv` and `ServedInv`, that the groups a run still has to serve
  are all that stands between its start and a server for every token.
- `RollbackRestoresAll`: `StoryInv`, that each difference of a table from what the first
  run found is told by an applied entry of the journal or by the command in memory, so
  that nothing is different once no entry is applied. It needs the command and its entry
  to agree and a rollback to undo the newest applied one (`RecordInv`), which is why no
  older entry is undone while a newer one still tells of the same row; that what is told
  is what was found (`HomeInv`, `LegacyInv`); that no sweep is into a server created after
  it, so that a rollback which deletes its servers loses no sample of an older run
  (`IdsInv`); and that samples and incidents are those of servers that exist, unless a
  push wrote its sample or opened its incident when the server had been looked at or
  was gone (`LateInv`).

Assumptions added to the modules for the proofs, each true of the program:
instants of maintenance are natural numbers (`ServerIncidents`), the clock
reaches 1 (`Heartbeat`), workers are finitely many and one rung is the longest
(`InlineChecks`), at most one window is created (`Maintenance`, which models one), ages
are counted at least as far as the stretched interval (`Dispatch`),
tokens are given by a function (`Backfill`), and `VotesAssumption`. The last one holds of
an interval of 60 s whose regions start less than 30 s apart, and of one of 10 s if they start
less than 5 s apart; below that the floor of 5 s is wider than half the interval, and
nothing is claimed unless the next tick is further away than floor and spread.

Only model-checked: everything that says *eventually* (liveness under fairness
and ENABLED are beyond the prover), and the two safety properties of `HostChecks`, whose
argument is that of `SoloInv` and `ToldInv` once more. The prover cannot do induction over
data (what a recursive definition computes for every input), nor see past a RECURSIVE
operator; the modules use none.

## The plan

The modules of the first plan are written, and every safety property that a passing run
checks is a theorem but those of `HostChecks`: `StatusFollows` while no post came late
and a result outlasts the grace, the others as they stand. What is left:

- Theorems about `HostChecks`: `OneOfACause` and `ChangesAreTold`.

- The liveness properties, which no installed backend can prove. The invariants the proofs
  rest on (`MatchInv`, `StatusInv`, `ServedInv` and the like) say what each process still
  owes, which is the measure such a proof would count down.

## Not modelled

The text of messages, the network checks themselves, rendering, accounts,
billing, status pages and the vendored framework under `storage/framework`, which is
most of the repository by size and none of its own logic. A
check's outcome is a nondeterministic choice of status. Left out of parts that
are modelled: creating and deleting monitors (a delete goes table by table and
nothing in flight looks again, so there is no promise to check), the webhooks of
check results and the mails to a status page's audience (loops that send and keep
no state), `notifyServerIncident`'s fan-out, `CheckWorkerHealth` (a comparison that logs), the
dry run and the report of the backfill, two backfills at once.

Simplifications shared by the modules. The database's transactions are taken as atomic,
and a single statement as atomic and durable when it returns. Clocks of the processes
are one clock. A model's `update` writes the columns it names. In `Alerting` the
incidents API reads and writes in one step, a job of the scheduler does not overlap
itself, and a behaviour has one window. In `InlineChecks` the two findings of a
crawl, whose gates are alike, are one. In `HostChecks` the lookup of `RunDnsCheck` for an
incident of its cause and the same lookup of `openIncident` are one.
