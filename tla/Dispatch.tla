------------------------------- MODULE Dispatch -------------------------------
(***************************************************************************)
(* The loop that keeps one monitor of a consensus type watched:            *)
(*                                                                         *)
(*   - once a minute the scheduler queues DispatchDueChecks and            *)
(*     EvaluateMonitorConsensus;                                           *)
(*   - DispatchDueChecks queues a check when last_checked_at is older than *)
(*     the monitor's interval, stretched while it keeps failing;           *)
(*   - the check files the primary's result and moves last_checked_at;     *)
(*   - the probes of the remote regions run on timers of their own, file   *)
(*     their results and move the same last_checked_at;                    *)
(*   - EvaluateMonitorConsensus turns the fresh results into the status    *)
(*     and the failure count, on which the next stretch depends.           *)
(*                                                                         *)
(* Instants are kept as ages, in half minutes: the scheduler acts on the   *)
(* minute, everything else at any time.  So the model runs for ever.       *)
(* Incidents and maintenance windows are MonitorConsensus'.                *)
(***************************************************************************)
EXTENDS Consensus, Sequences

CONSTANTS
  Concurrency,  \* how many jobs of the 'checks' queue may run at once
  Primary,      \* the region of the primary's workers
  Remotes,      \* the other configured regions
  Intervals,    \* values of check_interval_seconds, in half minutes
  Sights,       \* what a check of the target may find
  FirstSight,   \* what every region finds at the start
  Caps,         \* values of config.maxBackoffMultiplier
  MinRegions,   \* CONSENSUS_MIN_REGIONS
  Freshness,    \* CONSENSUS_FRESHNESS_SECONDS, in half minutes
  FailureCap,   \* bound: consecutive_failures stops counting here
  Old,          \* bound: the age of a result stops counting here
  Overdue,      \* bound: the age of last_checked_at stops counting here
  Settled,      \* bound: calm stops counting here
  Budget        \* bound: how often each event may happen, and any fault

Workers == 1 .. Concurrency
Regions == Remotes \cup {Primary}
Faults == {"behind", "late", "crash", "manual", "edit"}
Events == Faults \cup {"site"}
Kinds == {"dispatch", "check", "evaluate"}
WorkerPCs == {"idle", "enqueue", "answer", "touch", "write"}
Nothing == [age |-> 0, status |-> "unknown"]

ASSUME DispatchAssumption ==
  /\ Primary \notin Remotes /\ IsFiniteSet(Remotes)
  /\ Intervals \subseteq Nat \ {0} /\ Intervals # {}
  /\ Caps \subseteq Nat \ {0} /\ Caps # {}
  /\ Concurrency \in Nat \ {0}
  /\ Sights \subseteq Cast /\ FirstSight \in Sights
  /\ MinRegions \in Int /\ Freshness \in Nat
  /\ {FailureCap, Old, Overdue, Settled} \subseteq Nat /\ Freshness < Old
  /\ \A i \in Intervals, c \in Caps : i * c <= Overdue /\ i * c <= Old /\ i < Old
  /\ Budget \in [Events \cup {"any"} -> Nat]

VARIABLES
  half,     \* 0 on the minute, 1 half a minute later
  monitor,  \* the monitors row; last is the age of last_checked_at
  newest,   \* per region the newest row of check_results: [age, status]
  queue,    \* the 'checks' queue, first come first served
  worker,   \* per worker: the job it runs and what the job holds
  carried,  \* per remote region: a result that is still on its way
  target,   \* what each region would see now
  calm,     \* history: age of the last edit or change of the target
  early,    \* history: probes by the primary before the interval was over
  left      \* how many of each event may still happen

vars == <<half, monitor, newest, queue, worker, carried, target, calm, early, left>>
rows == <<monitor, newest>>
world == <<half, carried, target, calm>>

Ages == 0 .. Old
Job == [kind: Kinds, tries: 0 .. 2]
Row == [enabled: BOOLEAN, interval: Intervals, cap: Caps, last: 0 .. Overdue,
        status: Verdicts, failures: 0 .. FailureCap]
WorkerState == [pc: WorkerPCs, tries: 0 .. 2, age: Ages, prev: Verdicts,
                failures: 0 .. FailureCap, next: Verdicts]

Idle == [pc |-> "idle", tries |-> 0, age |-> 0, prev |-> "unknown",
         failures |-> 0, next |-> "unknown"]
Dispatching == [kind |-> "dispatch", tries |-> 1]
Checking == [kind |-> "check", tries |-> 2]
Evaluating == [kind |-> "evaluate", tries |-> 1]

\* Each event counts against its own bound, faults also against a common one.
Spend(S) ==
  LET faults == Cardinality(S \cap Faults)
  IN  /\ faults <= left["any"]
      /\ \A e \in S : left[e] > 0
      /\ left' = [e \in DOMAIN left |->
                    CASE e \in S -> left[e] - 1
                      [] e = "any" -> left[e] - faults
                      [] OTHER -> left[e]]
Used(e) == Budget[e] - left[e]

\* check_results read newest first by checked_at and then id.
Recorded(r, age, status) ==
  IF age <= newest[r].age
  THEN [newest EXCEPT ![r] = [age |-> age, status |-> status]]
  ELSE newest

-----------------------------------------------------------------------------
(* A worker takes the job at the head of the queue.  Idle workers are all  *)
(* alike: the first of them is as good as any.                             *)

Take(w, kind) ==
  /\ worker[w].pc = "idle" /\ \A v \in 1 .. w - 1 : worker[v].pc # "idle"
  /\ queue # <<>> /\ Head(queue).kind = kind
  /\ queue' = Tail(queue)

Go(w, st) == worker' = [worker EXCEPT ![w] = st]
Done(w) == Go(w, Idle)

-----------------------------------------------------------------------------
(* Jobs/DispatchDueChecks.ts                                               *)

\* Mutant: the interval doubles with every failure, and nothing caps it.
MultiplierUncapped(failures, cap) ==
  IF failures <= 2 THEN 1 ELSE 2 ^ (failures - 1)

\* pollBackoffMultiplier.  The minimum of stretch and cap, which shows that it is
\* one of 1 .. cap whatever the power is.
Multiplier(failures, cap) ==
  LET stretch == 2 ^ ((failures - 2) \div 5 + 1)
  IN  IF failures <= 2 THEN 1 ELSE IF stretch \in 1 .. cap THEN stretch ELSE cap

Due == monitor.last >= monitor.interval * Multiplier(monitor.failures, monitor.cap)

\* All rows are read first; the checks are queued as the loop reaches them.
StartDispatch(w) ==
  /\ Take(w, "dispatch")
  /\ Go(w, IF monitor.enabled /\ Due THEN [Idle EXCEPT !.pc = "enqueue"] ELSE Idle)
  /\ UNCHANGED <<rows, world, early, left>>

EnqueueCheck(w) ==
  /\ worker[w].pc = "enqueue"
  /\ queue' = Append(queue, Checking)
  /\ Done(w)
  /\ UNCHANGED <<rows, world, early, left>>

-----------------------------------------------------------------------------
(* Jobs/RunUptimeCheck.ts and its three siblings                           *)

\* A check that is in the queue runs, whatever became of the monitor since.
StartCheck(w) ==
  /\ Take(w, "check")
  /\ Go(w, [Idle EXCEPT !.pc = "answer", !.tries = Head(queue).tries])
  /\ UNCHANGED <<rows, world, early, left>>

\* The answer is in and is inserted.  An uptime check stamps it now, the
\* others stamped it when they asked.
FileAnswer(w) ==
  /\ worker[w].pc = "answer"
  /\ \E age \in {0, worker[w].age} :
       /\ newest' = Recorded(Primary, age, target[Primary])
       /\ Go(w, [worker[w] EXCEPT !.pc = "touch", !.age = age])
  /\ early' = IF newest[Primary].age < monitor.interval THEN early + 1 ELSE early
  /\ UNCHANGED <<monitor, queue, world, left>>

\* last_checked_at, as old as it is or too old to matter.
Upto(age) == IF age < Overdue THEN age ELSE Overdue

\* Mutant: only a check that went well moves the stamp.
StampIfUp(st) ==
  IF newest[Primary].status = "up" THEN Upto(st.age) ELSE monitor.last

\* last_checked_at becomes the moment the result was stamped.
Stamp(st) == Upto(st.age)

TouchMonitor(w) ==
  /\ worker[w].pc = "touch"
  /\ monitor' = [monitor EXCEPT !.last = Stamp(worker[w])]
  /\ Done(w)
  /\ UNCHANGED <<newest, queue, world, early, left>>

-----------------------------------------------------------------------------
(* Jobs/EvaluateMonitorConsensus.ts, as far as the loop depends on it      *)

Fresh == {r \in Regions : newest[r].age <= Freshness}
Votes == [r \in Electorate(Fresh, Regions) |-> newest[r].status]

\* The row and the votes are read; silence leaves everything as it is.
StartEvaluate(w) ==
  /\ Take(w, "evaluate")
  /\ Go(w, IF monitor.enabled /\ Fresh # {}
           THEN [Idle EXCEPT !.pc = "write", !.prev = monitor.status,
                             !.failures = monitor.failures,
                             !.next = ConsensusStatus(Votes, MinRegions)]
           ELSE Idle)
  /\ UNCHANGED <<rows, world, early, left>>

Bump(failures) == IF failures < FailureCap THEN failures + 1 ELSE failures

\* Mutant: a recovery does not reset the count.
NextFailuresKept(st) == IF st.next = "up" THEN st.failures ELSE Bump(st.failures)

\* Counted per evaluation, and reset by agreement on 'up'.
NextFailures(st) == IF st.next = "up" THEN 0 ELSE Bump(st.failures)

WriteVerdict(w) ==
  LET st == worker[w]
  IN  /\ st.pc = "write"
      /\ monitor' = IF st.next # st.prev \/ st.next # "up" \/ st.failures # 0
                    THEN [monitor EXCEPT !.status = st.next,
                                         !.failures = NextFailures(st)]
                    ELSE monitor
      /\ Done(w)
      /\ UNCHANGED <<newest, queue, world, early, left>>

-----------------------------------------------------------------------------
(* A worker dies, or a statement of its job fails.  A check is tried once  *)
(* more; the two jobs of the scheduler are not.                            *)

CrashWorker(w) ==
  LET st == worker[w]
  IN  /\ Spend({"crash"})
      /\ st.pc # "idle"
      /\ queue' = IF st.tries > 1
                  THEN Append(queue, [Checking EXCEPT !.tries = st.tries - 1])
                  ELSE queue
      /\ Done(w)
      /\ UNCHANGED <<rows, world, early>>

-----------------------------------------------------------------------------
(* scripts/region-probe.ts and Actions/Regions/IngestRegionResultsAction   *)

\* A timer of 60 seconds, and one run at a time.
Fires(r) == monitor.enabled /\ carried[r] = Nothing /\ newest[r].age >= 2

\* The probe lists the enabled monitors, looks at the target and posts.  The
\* result is filed under its region, and moves last_checked_at too.
ProbeTarget(r) ==
  /\ Fires(r)
  /\ newest' = Recorded(r, 0, target[r])
  /\ monitor' = [monitor EXCEPT !.last = 0]
  /\ UNCHANGED <<queue, worker, world, early, left>>

\* Or the post is on its way for a while, whatever becomes of the monitor.
ProbeSlowly(r) ==
  /\ Spend({"late"})
  /\ Fires(r)
  /\ carried' = [carried EXCEPT ![r] = [age |-> 0, status |-> target[r]]]
  /\ UNCHANGED <<half, rows, queue, worker, target, calm, early>>

IngestLate(r) ==
  /\ carried[r] # Nothing
  /\ newest' = Recorded(r, carried[r].age, carried[r].status)
  /\ monitor' = [monitor EXCEPT !.last = Upto(carried[r].age)]
  /\ carried' = [carried EXCEPT ![r] = Nothing]
  /\ UNCHANGED <<half, queue, worker, target, calm, early, left>>

-----------------------------------------------------------------------------
(* The operator and the target                                             *)

\* RunCheckAction: at once, due or not, enabled or not.
RunCheckNow ==
  /\ Spend({"manual"})
  /\ queue' = Append(queue, Checking)
  /\ UNCHANGED <<rows, worker, world, early>>

\* DashboardUpdateMonitorAction leaves status, count and stamp alone.
EditMonitor(enabled, interval) ==
  /\ Spend({"edit"})
  /\ <<enabled, interval>> # <<monitor.enabled, monitor.interval>>
  /\ monitor' = [monitor EXCEPT !.enabled = enabled, !.interval = interval]
  /\ calm' = 0
  /\ UNCHANGED <<half, newest, queue, worker, carried, target, early>>

\* An outage or a recovery, seen by some regions or by all.
TargetChanges(seers, status) ==
  /\ Spend({"site"})
  /\ \A r \in seers : status # target[r]
  /\ target' = [r \in Regions |-> IF r \in seers THEN status ELSE target[r]]
  /\ calm' = 0
  /\ UNCHANGED <<half, rows, queue, worker, carried, early>>

-----------------------------------------------------------------------------
(* Time.  A minute that begins before the last one's jobs are done counts. *)

Older(age, bound) == IF age < bound THEN age + 1 ELSE bound
Busy == queue # <<>> \/ \E w \in Workers : worker[w].pc # "idle"

Ageing ==
  /\ monitor' = [monitor EXCEPT !.last = Older(@, Overdue)]
  /\ newest' = [r \in Regions |-> [newest[r] EXCEPT !.age = Older(@, Old)]]
  /\ worker' = [w \in Workers |-> IF worker[w].pc \in {"answer", "touch"}
                                  THEN [worker[w] EXCEPT !.age = Older(@, Old)]
                                  ELSE worker[w]]
  /\ carried' = [r \in Remotes |-> IF carried[r] = Nothing THEN Nothing
                                   ELSE [carried[r] EXCEPT !.age = Older(@, Old)]]
  /\ calm' = Older(calm, Settled)
  /\ UNCHANGED <<target, early>>

HalfMinute ==
  /\ half = 0 /\ half' = 1
  /\ Ageing
  /\ UNCHANGED <<queue, left>>

\* app/Scheduler.ts, on the minute.
Tick ==
  /\ half = 1 /\ half' = 0
  /\ Spend(IF Busy THEN {"behind"} ELSE {})
  /\ queue' = queue \o <<Dispatching, Evaluating>>
  /\ Ageing

-----------------------------------------------------------------------------
Init ==
  /\ half = 1
  /\ \E enabled \in BOOLEAN, i \in Intervals, c \in Caps :
       monitor = [enabled |-> enabled, interval |-> i, cap |-> c, last |-> Overdue,
                  status |-> "unknown", failures |-> 0]
  /\ newest = [r \in Regions |-> [age |-> Old, status |-> "up"]]
  /\ queue = <<>>
  /\ worker = [w \in Workers |-> Idle]
  /\ carried = [r \in Remotes |-> Nothing]
  /\ target = [r \in Regions |-> FirstSight]
  /\ calm = 0 /\ early = 0
  /\ left = Budget

Work(w) ==
  \/ StartDispatch(w) \/ EnqueueCheck(w)
  \/ StartCheck(w) \/ FileAnswer(w) \/ TouchMonitor(w)
  \/ StartEvaluate(w) \/ WriteVerdict(w)

Next ==
  \/ \E w \in Workers : Work(w) \/ CrashWorker(w)
  \/ \E r \in Remotes : ProbeTarget(r) \/ ProbeSlowly(r) \/ IngestLate(r)
  \/ RunCheckNow
  \/ \E enabled \in BOOLEAN, interval \in Intervals : EditMonitor(enabled, interval)
  \/ \E seers \in (SUBSET Regions) \ {{}}, status \in Sights : TargetChanges(seers, status)
  \/ HalfMinute
  \/ Tick

Spec == Init /\ [][Next]_vars
-----------------------------------------------------------------------------
(* Properties                                                              *)

\* The types of the variables.
TypeOK ==
  /\ half \in {0, 1}
  /\ monitor \in Row
  /\ newest \in [Regions -> [age: Ages, status: Cast]]
  /\ queue \in Seq(Job)
  /\ worker \in [Workers -> WorkerState]
  /\ carried \in [Remotes -> [age: Ages, status: Verdicts]]
  /\ target \in [Regions -> Cast]
  /\ calm \in 0 .. Settled /\ early \in Nat
  /\ left \in [Events \cup {"any"} -> Nat]

Grace == 2 * (1 + Used("behind") + Used("crash"))
Patience == monitor.interval * monitor.cap + Grace

\* A monitor that has been enabled long enough was looked at by some region
\* within its interval, stretched at most by its cap, and a minute: whatever
\* moved last_checked_at and however the failures were counted.  A minute more
\* for every time the queue ran behind or a worker died.
WatchedInTime ==
  monitor.enabled /\ calm > Patience
    => \E r \in Regions : newest[r].age <= Patience

\* The primary looks at the target more often than the interval says only
\* because somebody asked for it, a check was tried twice or the queue ran
\* behind, each at most twice over (two checks that overlap may move the stamp
\* back), or because the interval was edited or a remote region posted late.
PaceKept ==
  early <= 2 * (Used("manual") + Used("crash") + Used("behind"))
             + Used("edit") + Used("late")

\* Once every region has seen the target in one state for as long as it may
\* take until one of them looks, older results to lose their vote and a
\* minute, the monitor is in that state, and agreement on 'up' has taken the
\* stretch off the interval.  (A post that comes late may put it off further
\* where a stretched interval outlasts Freshness; DispatchProofs says by how much.)
StatusFollows ==
  \A s \in Sights :
    /\ monitor.enabled /\ calm > Patience + Freshness + 2
    /\ \A r \in Regions : target[r] = s
    => /\ monitor.status = s
       /\ s = "up" => monitor.failures = 0
=============================================================================
