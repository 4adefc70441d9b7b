----------------------------- MODULE InlineChecks -----------------------------
(***************************************************************************)
(* The checks that decide on their own, without regions voting: one        *)
(* monitor of one of these kinds, the job queue between its dispatch and   *)
(* its workers, what its target does, its history and its incidents.       *)
(*                                                                         *)
(*   ssl, domain    warn down a ladder of days, fail once expired          *)
(*   broken_links, lighthouse                                              *)
(*                  compare a level with the last one stored: the broken   *)
(*                  links of a crawl, the points an audit takes off (a     *)
(*                  level is half of SCORE_REGRESSION_THRESHOLD)           *)
(*   dns_blocklist  fails while the host is listed                         *)
(*   ai_check       two assertions, each with a job of its own: the second *)
(*                  holds of every page, the first of good ones            *)
(*   performance    CheckPerformanceTrends: opens at 2x the baseline,      *)
(*                  resolves under 1.5x, leaves things alone between       *)
(*                                                                         *)
(* HostChecks has the kinds that open several incidents at once.           *)
(*                                                                         *)
(* A handler is the list of statements it will still run (its plan), and   *)
(* another process can fall between any two of them.  A monitor stays due  *)
(* until its check has written the row, so checks of one monitor overlap   *)
(* when the queue is behind.                                               *)
(***************************************************************************)
EXTENDS Integers, Sequences, FiniteSets, FiniteSetsExt, SequencesExt

CONSTANTS
  Kinds,       \* the kinds of monitor considered
  Workers,     \* jobs that may run at once
  Thresholds,  \* WARNING_THRESHOLDS_DAYS
  Term,        \* days a renewed certificate or registration is valid
  MaxPending,  \* bound: jobs of one monitor waiting in the queue
  Budgets      \* bound: per kind, how often each environment event may happen

AllKinds == {"ssl", "domain", "dns_blocklist", "ai_check", "performance",
             "broken_links", "lighthouse"}
Compared == {"broken_links", "lighthouse"}
Levels == 0 .. 2   \* bound: of links or points
Events == {"day", "renew", "change", "window", "resolve", "crash", "manual",
           "any", "overlap"}
Verdicts == {"good", "between", "bad", "none"}
Steps == {"observe", "read", "record", "warn", "look", "open", "find",
          "resolve", "row", "touch"}
Expired == -2   \* bound: days past expiry are told apart up to two
Causes == {<<"failed">>, <<"bad">>} \cup ({"expired"} \X {-1, Expired})
          \cup ({"rise"} \X Levels \X Levels)

ASSUME ChecksAssumption ==
  /\ Kinds \subseteq AllKinds
  /\ IsFiniteSet(Workers)
  /\ Thresholds \subseteq Nat /\ Term \in Nat
  /\ \E longest \in Thresholds : \A t \in Thresholds : t <= longest
  /\ MaxPending \in Nat \ {0}
  /\ Budgets \in [Kinds -> SUBSET [Events -> Nat]]

VARIABLES
  kind,       \* monitors.type
  target,     \* what a check would see now: [verdict, days, serial]; where a
              \* level is compared, days is the level
  window,     \* the monitor is inside a maintenance window
  status,     \* monitors.status
  due,        \* the interval has passed since last_checked_at
  pending,    \* jobs waiting, per assertion (one assertion but for ai_check)
  worker,     \* per worker the job it runs
  history,    \* newest SslCertificate, DomainRegistration, Crawl or
              \* LighthouseReport; before: what it was compared with
  incidents,  \* unresolved incidents of the kind: [id, cause]
  warned,     \* <<serial, rung>> announced to the channels
  repeated,   \* one of them was announced more than once
  mishaps,    \* what happened that a statement below sets aside
  left        \* how many of each environment event may still happen

rest == <<kind, window, warned, repeated>>
vars == <<kind, target, window, status, due, pending, worker, history,
          incidents, warned, repeated, mishaps, left>>

None == -1
NoHistory == [days |-> 0, serial |-> 0, before |-> None]

\* stamp: the days left counted from checkedAt, when the job began; the days
\* in seen are counted from Date.now(), once the target has answered.
Nothing == [verdict |-> "none", days |-> 0, serial |-> 0]
Idle == [plan |-> <<>>, job |-> 1, attempt |-> 1, inWindow |-> FALSE, elapsed |-> 0,
         seen |-> Nothing, stamp |-> 0, rung |-> None, todo |-> {}]

Busy(w) == worker[w].plan # <<>>
AtStep(w, s) == Busy(w) /\ Head(worker[w].plan) = s
Go(w, st) == worker' = [worker EXCEPT ![w] = IF st.plan = <<>> THEN Idle ELSE st]
Onward(st) == [st EXCEPT !.plan = Tail(@)]
\* "any" bounds the events of all sorts together; "overlap" is not spent: the
\* queue has several workers, or one.
Spend(e) ==
  /\ left[e] > 0 /\ left["any"] > 0
  /\ left' = [left EXCEPT ![e] = @ - 1, !["any"] = @ - 1]

-----------------------------------------------------------------------------
(* Dispatch: DispatchDueChecks, RunCheckAction, the queue                  *)

Jobs == IF kind = "ai_check" THEN {1, 2} ELSE {1}
Queue == pending' = [j \in {1, 2} |-> IF j \in Jobs THEN pending[j] + 1 ELSE 0]

\* Once a minute while the monitor is due; ai_check is touched here, every
\* other kind by its own check.  performance has a schedule of its own.
DispatchDue ==
  /\ due \/ kind = "performance"
  /\ \A j \in Jobs : pending[j] < MaxPending
  /\ Queue
  /\ due' = IF kind = "ai_check" THEN FALSE ELSE due
  /\ UNCHANGED <<rest, target, status, worker, history, incidents, mishaps, left>>

RunCheckNow ==
  /\ kind # "performance"
  /\ \A j \in Jobs : pending[j] < MaxPending
  /\ Spend("manual")
  /\ Queue
  /\ UNCHANGED <<rest, target, status, due, worker, history, incidents, mishaps>>

\* The monitor is read and the check is dated.  A crawl reads the last one
\* before it starts, and does not start without an origin.
Begin(st) ==
  LET first == IF kind # "broken_links" THEN <<"observe">>
               ELSE IF target.verdict = "none" THEN <<"touch">> ELSE <<"read", "observe">>
  IN  [st EXCEPT !.plan = first, !.inWindow = window]

Start(w, j) ==
  /\ ~Busy(w) /\ pending[j] > 0
  /\ left["overlap"] > 0 \/ w = CHOOSE v \in Workers : TRUE
  /\ pending' = [pending EXCEPT ![j] = @ - 1]
  /\ Go(w, Begin([Idle EXCEPT !.job = j]))
  /\ mishaps' = IF \E v \in Workers : Busy(v) THEN mishaps \cup {"overlap"} ELSE mishaps
  /\ UNCHANGED <<rest, target, status, due, history, incidents, left>>

-----------------------------------------------------------------------------
(* What a handler does with what it saw                                    *)

Failing(seen, job) ==
  CASE kind = "ssl" -> seen.verdict = "none" \/ seen.days < 0
    [] kind = "domain" -> seen.verdict # "none" /\ seen.days < 0
    [] kind = "lighthouse" -> FALSE
    [] kind = "broken_links" -> seen.days > 0
    [] kind = "ai_check" -> seen.verdict = "none" \/ (seen.verdict = "bad" /\ job = 1)
    [] OTHER -> seen.verdict = "bad"

\* Mutant: only the check that sees the status change touches incidents.
PlanOnEdge(seen, job) ==
  IF Failing(seen, job) = (status \in {"down", "degraded"}) THEN <<"row">>
  ELSE IF Failing(seen, job) THEN <<"look", "row">> ELSE <<"find", "row">>

\* The statements left once the target has answered.  An inconclusive lookup
\* only moves last_checked_at; a failed handshake writes the row first; without
\* an AI provider, or with too few samples, nothing follows.  An assertion that
\* holds looks for an incident, of whichever assertion.
Plan(seen, job) ==
  LET failing == Failing(seen, job)
      none == seen.verdict = "none"
  IN  CASE kind = "ssl" ->
             IF none THEN <<"row", "look">>
             ELSE <<"read", "record">> \o
                  (IF failing THEN <<"look", "row">> ELSE <<"warn", "find", "row">>)
        [] kind = "domain" ->
             IF none THEN <<"touch">>
             ELSE <<"read", "record", IF failing THEN "look" ELSE "warn", "row">>
        [] kind = "broken_links" -> <<"record", "look", "row">>
        [] kind = "lighthouse" ->
             IF none THEN <<"touch">> ELSE <<"read", "record", "look", "row">>
        [] kind = "dns_blocklist" ->
             IF none THEN <<"touch">> ELSE <<IF failing THEN "look" ELSE "find", "row">>
        [] kind \in {"ai_check", "performance"} ->
             IF failing THEN <<"look">>
             ELSE IF seen.verdict \in {"good", "bad"} THEN <<"find">> ELSE <<>>

\* The network answers; Date.now() is read after it.
Observe(w) ==
  LET st == worker[w]
  IN  /\ AtStep(w, "observe")
      /\ Go(w, [st EXCEPT !.plan = Plan(target, st.job), !.seen = target,
                          !.stamp = target.days + st.elapsed, !.elapsed = 0])
      /\ UNCHANGED <<rest, target, status, due, pending, history, incidents, mishaps, left>>

CrossedThreshold(days) ==
  LET crossed == {t \in Thresholds : days <= t}
  IN  IF crossed = {} THEN None ELSE Min(crossed)

\* Mutant: a renewal does not reset the ladder.
SameCertificateAlways(seen) == history # NoHistory

\* A registration has no fingerprint to compare.
SameCertificate(seen) ==
  history # NoHistory /\ (kind = "ssl" => history.serial = seen.serial)

\* Mutant: every check that finds a threshold crossed warns.
WarnAtEvery(seen) == CrossedThreshold(seen.days)

\* The rung to warn at, None to stay quiet: the previous check's rung is worked
\* out again from what that check stored.
WarnAt(seen) ==
  LET rung == CrossedThreshold(seen.days)
  IN  IF SameCertificate(seen) /\ CrossedThreshold(history.days) = rung THEN None ELSE rung

\* The level to compare with: a site never crawled had no broken link, one
\* never audited has no score to fall from.
Previous ==
  IF history # NoHistory THEN history.days ELSE IF kind = "broken_links" THEN 0 ELSE None

\* What is worth an incident: any more links, a threshold's worth of points.
RoseTo(before, level) ==
  before # None /\ level - before >= (IF kind = "broken_links" THEN 1 ELSE 2)

\* Whether the statement after the record runs: the previous row decides.
Follows(st) ==
  CASE kind = "lighthouse" -> RoseTo(Previous, st.seen.days)
    [] kind = "broken_links" -> TRUE
    [] kind \in {"ssl", "domain"} -> st.plan[3] = "warn" => WarnAt(st.seen) # None

ReadPrevious(w) ==
  LET st == worker[w]
      next == IF Follows(st) THEN Tail(st.plan) ELSE <<"record">> \o SubSeq(st.plan, 4, Len(st.plan))
  IN  /\ AtStep(w, "read")
      /\ Go(w, [st EXCEPT !.plan = next,
                          !.rung = IF kind \in {"ssl", "domain"} THEN WarnAt(st.seen)
                                   ELSE Previous])
      /\ UNCHANGED <<rest, target, status, due, pending, history, incidents, mishaps, left>>

Record(w) ==
  LET st == worker[w]
  IN  /\ AtStep(w, "record")
      /\ history' = [days |-> st.stamp, serial |-> st.seen.serial,
                     before |-> IF kind \in Compared THEN st.rung ELSE None]
      /\ Go(w, [Onward(st) EXCEPT !.stamp = 0])
      /\ UNCHANGED <<rest, target, status, due, pending, incidents, mishaps, left>>

\* SendNotification.dispatch for every channel that fires on issues.
Warn(w) ==
  LET st == worker[w]
      warning == <<st.seen.serial, st.rung>>
  IN  /\ AtStep(w, "warn")
      /\ warned' = warned \cup {warning}
      /\ repeated' = (repeated \/ warning \in warned)
      /\ Go(w, Onward(st))
      /\ UNCHANGED <<kind, window, target, status, due, pending, history, incidents, mishaps, left>>

-----------------------------------------------------------------------------
(* Incidents                                                               *)

CauseOf(st) ==
  CASE kind \in Compared -> <<"rise", st.rung, st.seen.days>>
    [] kind \in {"ssl", "domain"} /\ st.seen.verdict = "good" -> <<"expired", st.seen.days>>
    [] OTHER -> IF st.seen.verdict = "none" THEN <<"failed">> ELSE <<"bad">>

\* Mutant: no handler looks for an incident that stands already.
StandingNone(st) == {}

\* What keeps a handler from opening another: an incident of its own, or, for
\* the handlers that leave it to openIncident, one with the same cause.
Standing(st) ==
  IF kind \in {"ssl", "dns_blocklist", "ai_check", "performance"} THEN incidents
  ELSE {i \in incidents : i.cause = CauseOf(st)}

\* A change is told to someone when its incident opens, or stands already.
Tell(st) == IF kind \in Compared THEN warned \cup {<<st.seen.serial, 0>>} ELSE warned

\* The window is asked about checkedAt; by performance and a crawl, about now.
Look(w) ==
  LET st == worker[w]
      muted == IF kind \in {"performance", "broken_links"} THEN window ELSE st.inWindow
      wanted == kind = "broken_links" => RoseTo(st.rung, st.seen.days)
      opens == wanted /\ Standing(st) = {} /\ ~muted
  IN  /\ AtStep(w, "look")
      /\ Go(w, [st EXCEPT !.plan = (IF opens THEN <<"open">> ELSE <<>>) \o Tail(@)])
      /\ warned' = IF wanted /\ ~opens /\ ~muted THEN Tell(st) ELSE warned
      /\ UNCHANGED <<kind, window, repeated, target, status, due, pending, history, incidents, mishaps, left>>

\* An id no row has and no worker holds.
FreshId ==
  LET used == {i.id : i \in incidents} \cup UNION {worker[w].todo : w \in Workers}
  IN  Min((1 .. Cardinality(used) + 1) \ used)

Open(w) ==
  LET st == worker[w]
  IN  /\ AtStep(w, "open")
      /\ incidents' = incidents \cup {[id |-> FreshId, cause |-> CauseOf(st)]}
      /\ warned' = Tell(st)
      /\ Go(w, Onward(st))
      /\ UNCHANGED <<kind, window, repeated, target, status, due, pending, history, mishaps, left>>

\* performance closes every open incident of its own, the others the first
\* the query returns (it has no ORDER BY).
Find(w) ==
  LET st == worker[w]
      open == {i.id : i \in incidents}
      Resolving(ids) == [st EXCEPT !.plan = <<"resolve">> \o Tail(@), !.todo = ids]
  IN  /\ AtStep(w, "find")
      /\ \/ open = {} /\ Go(w, Onward(st))
         \/ open # {} /\ kind = "performance" /\ Go(w, Resolving(open))
         \/ kind # "performance" /\ \E id \in open : Go(w, Resolving({id}))
      /\ UNCHANGED <<rest, target, status, due, pending, history, incidents, mishaps, left>>

Resolve(w) ==
  LET st == worker[w]
      id == Min(st.todo)
  IN  /\ AtStep(w, "resolve")
      /\ incidents' = {i \in incidents : i.id # id}
      /\ Go(w, IF st.todo = {id} THEN Onward(st) ELSE [st EXCEPT !.todo = @ \ {id}])
      /\ UNCHANGED <<rest, target, status, due, pending, history, mishaps, left>>

-----------------------------------------------------------------------------
(* The monitor's row                                                       *)

StatusOf(st) ==
  IF kind = "lighthouse" THEN IF RoseTo(st.rung, st.seen.days) THEN "degraded" ELSE "up"
  ELSE IF ~Failing(st.seen, st.job) THEN "up"
  ELSE IF kind \in {"ssl", "domain"} THEN "down" ELSE "degraded"

\* last_checked_at is when the job began: of a job that took longer than the
\* interval, IntervalPasses follows at once.
WriteRow(w) ==
  LET st == worker[w]
  IN  /\ AtStep(w, "row")
      /\ status' = StatusOf(st)
      /\ due' = FALSE
      /\ Go(w, Onward(st))
      /\ UNCHANGED <<rest, target, pending, history, incidents, mishaps, left>>

Touch(w) ==
  /\ AtStep(w, "touch")
  /\ due' = FALSE
  /\ Go(w, Onward(worker[w]))
  /\ UNCHANGED <<rest, target, status, pending, history, incidents, mishaps, left>>

Work(w) ==
  \/ \E j \in {1, 2} : Start(w, j)
  \/ Observe(w) \/ ReadPrevious(w) \/ Record(w) \/ Warn(w) \/ Look(w) \/ Open(w)
  \/ Find(w) \/ Resolve(w) \/ WriteRow(w) \/ Touch(w)

-----------------------------------------------------------------------------
(* The environment                                                         *)

Tries == IF kind \in {"ssl", "domain", "dns_blocklist"} THEN 2 ELSE 1

\* A job that throws or dies is run again from its start, while it has tries.
Crash(w) ==
  LET st == worker[w]
  IN  /\ Busy(w)
      /\ Spend("crash")
      /\ Go(w, IF st.attempt < Tries
               THEN Begin([Idle EXCEPT !.job = st.job, !.attempt = st.attempt + 1])
               ELSE Idle)
      /\ mishaps' = mishaps \cup {"crash"}
      /\ UNCHANGED <<rest, target, status, due, pending, history, incidents>>

\* The check interval passes.
IntervalPasses ==
  /\ due' = TRUE
  /\ UNCHANGED <<rest, target, status, pending, worker, history, incidents, mishaps, left>>

\* A day of the ladder passes, perhaps while a check waits for the network.
DayPasses ==
  /\ kind \in {"ssl", "domain"}
  /\ Spend("day")
  /\ target' = [target EXCEPT !.days = IF @ = Expired THEN @ ELSE @ - 1]
  /\ worker' = [w \in Workers |-> IF AtStep(w, "observe")
                                  THEN [worker[w] EXCEPT !.elapsed = @ + 1] ELSE worker[w]]
  /\ mishaps' = IF \E w \in Workers : AtStep(w, "observe")
                THEN mishaps \cup {"crossed"} ELSE mishaps
  /\ UNCHANGED <<rest, status, due, pending, history, incidents>>

\* A certificate renewed (perhaps by one about to expire), a site edited.
Renew(days) ==
  /\ kind \in {"ssl", "domain"} \cup Compared
  /\ Spend("renew")
  /\ target' = [target EXCEPT !.days = days, !.serial = @ + 1]
  /\ UNCHANGED <<rest, status, due, pending, worker, history, incidents, mishaps>>

VerdictsOf(k) ==
  CASE k \in {"ssl", "domain"} \cup Compared -> {"good", "none"}
    [] k \in {"ai_check", "performance"} -> Verdicts
    [] OTHER -> {"good", "bad", "none"}

Change(v) ==
  /\ v \in VerdictsOf(kind) \ {target.verdict}
  /\ Spend("change")
  /\ target' = [target EXCEPT !.verdict = v]
  /\ UNCHANGED <<rest, status, due, pending, worker, history, incidents, mishaps>>

\* A maintenance window begins or ends.
ToggleWindow ==
  /\ Spend("window")
  /\ window' = ~window
  /\ mishaps' = mishaps \cup {"window"}
  /\ UNCHANGED <<kind, warned, repeated, target, status, due, pending, worker, history,
                 incidents>>

\* UpdateIncidentAction with status 'resolved'.
ResolveByHand(i) ==
  /\ Spend("resolve")
  /\ incidents' = incidents \ {i}
  /\ mishaps' = mishaps \cup {"resolve"}
  /\ UNCHANGED <<rest, target, status, due, pending, worker, history>>

\* The days left, or the level, after a change and when the monitor is added.
Renewed ==
  CASE kind \in {"ssl", "domain"} -> {Max(Thresholds), Term}
    [] kind \in Compared -> Levels
    [] OTHER -> {Term}
Starts == Renewed \cup (IF kind = "ssl" THEN {-1} ELSE {})

Init ==
  /\ kind \in Kinds
  /\ \E d \in Starts : target = [verdict |-> "good", days |-> d, serial |-> 1]
  /\ window = FALSE /\ status = "unknown" /\ due = TRUE
  /\ pending = [j \in {1, 2} |-> 0]
  /\ worker = [w \in Workers |-> Idle]
  /\ history = NoHistory
  /\ incidents = {}
  /\ warned = {} /\ repeated = FALSE /\ mishaps = {}
  /\ left \in Budgets[kind]

Next ==
  \/ DispatchDue \/ RunCheckNow
  \/ \E w \in Workers : Work(w) \/ Crash(w)
  \/ IntervalPasses \/ DayPasses \/ ToggleWindow
  \/ \E d \in Renewed : Renew(d)
  \/ \E v \in Verdicts : Change(v)
  \/ \E i \in incidents : ResolveByHand(i)

Spec == Init /\ [][Next]_vars

\* Time passes, the scheduler runs every minute, and a worker takes the next
\* job and goes on with the one it has.
Fairness ==
  /\ WF_vars(IntervalPasses)
  /\ WF_vars(DispatchDue)
  /\ \A w \in Workers : WF_vars(Work(w))

FairSpec == Spec /\ Fairness

-----------------------------------------------------------------------------
(* Properties                                                              *)

\* The types of the variables.
Seen == [verdict: Verdicts, days: Int, serial: Nat]
TypeOK ==
  /\ kind \in Kinds
  /\ target \in Seen
  /\ status \in {"unknown", "up", "degraded", "down"}
  /\ pending \in [{1, 2} -> 0 .. MaxPending]
  /\ \A w \in Workers :
       /\ worker[w].plan \in Seq(Steps)
       /\ worker[w].seen \in Seen
       /\ worker[w].todo \subseteq Nat \ {0}
  /\ history \in [days: Int, serial: Nat, before: Int]
  /\ incidents \subseteq [id: Nat \ {0}, cause: Causes]
  /\ warned \subseteq Nat \X ({0} \cup Thresholds)
  /\ left \in [Events -> Nat]

AtRest == \A w \in Workers : ~Busy(w)
Calm(ms) == mishaps \cap ms = {}

\* A rung of a certificate's or a registration's ladder is announced once, when checks do not
\* overlap, none is repeated, and no day ends while one waits for an answer.
OncePerRung ==
  Calm({"overlap", "crash", "crossed"}) => ~repeated

\* What the history has stored was told to someone: the rung the stored
\* certificate is on, the rise the stored crawl or audit was, unless a crash fell
\* between the two.
HistoryIsAnnounced ==
  AtRest /\ Calm({"crash", "overlap", "crossed", "window"}) =>
    /\ (kind = "ssl" /\ history # NoHistory /\ history.days >= 0
          /\ CrossedThreshold(history.days) # None) =>
         <<history.serial, CrossedThreshold(history.days)>> \in warned
    /\ kind \in Compared /\ RoseTo(history.before, history.days) =>
         <<history.serial, 0>> \in warned

\* Checks that do not overlap never leave two incidents open for one problem,
\* crashes, retries, windows and manual resolves included.  An expired domain
\* has a cause, and an incident, for every day; a crawl or an audit for every
\* pair of levels it compares.
OneOpenIncident ==
  Calm({"overlap"}) =>
    IF kind \in {"domain"} \cup Compared
    THEN \A i, j \in incidents : i.cause = j.cause => i = j
    ELSE Cardinality(incidents) <= 1

\* Between checks the status and the incidents agree for the kinds that
\* resolve what they open.
StatusAgrees ==
  AtRest /\ Calm({"overlap", "crash", "window", "resolve"})
  /\ kind \in {"ssl", "dns_blocklist"} =>
    (status \in {"down", "degraded"} <=> incidents # {})

Good == target.verdict = "good" /\ target.days >= 0
Bad == \/ kind = "domain" /\ target.verdict = "good" /\ target.days < 0
       \/ kind = "ssl" /\ (target.verdict = "none" \/ target.days < 0)
       \/ kind \in {"dns_blocklist", "performance"} /\ target.verdict = "bad"

\* Once the target is well for good, no incident stays open, however many
\* overlapping checks had opened.
RecoveryResolves ==
  kind \in {"ssl", "dns_blocklist", "ai_check", "performance"} =>
    (<>[]Good => <>[](incidents = {}))

\* A target that stays bad has an incident open from some time on, whatever
\* window it began in and whoever resolved one by hand.
StaysOpenWhileBad ==
  <>[](Bad /\ ~window) => <>[](incidents # {})
=============================================================================
