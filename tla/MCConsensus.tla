----------------------------- MODULE MCConsensus -----------------------------
(***************************************************************************)
(* Every vote of up to four regions under every threshold, as a state, and *)
(* one region seeing the target get worse, or a region falling silent or   *)
(* coming back, as a step.  Then the history such votes leave: the rows of *)
(* a few regions over two ticks, each on time or late, asked about with    *)
(* and without a maintenance window, for both days or the second one.      *)
(***************************************************************************)
EXTENDS Uptime, FiniteSetsExt

CONSTANTS
  Regions, Thresholds,
  Probes, Confirm,  \* the regions and the threshold of a history
  Interval,         \* instants between two ticks
  Spread            \* how far apart the regions start a tick, at most

\* The regions start a tick less than half an interval apart and no further
\* than the ceiling, and the next tick is further away than the floor.
ASSUME VotesAssumption ==
  /\ IsFiniteSet(Regions) /\ IsFiniteSet(Probes)
  /\ Thresholds \subseteq Int /\ Confirm \in Int
  /\ Interval \in Nat /\ Spread \in Nat
  /\ 2 * Spread < Interval /\ Spread <= RoundCeiling
  /\ Spread + RoundFloor < Interval

RoundMs == RoundMsForInterval(Interval)

VARIABLES votes, min, rows, asked

\* CONSENSUS_MIN_REGIONS is any number the environment holds.
AnyThreshold == -1 .. 5

vars == <<votes, min, rows, asked>>
verdict == ConsensusStatus(votes, min)

Questions == {[maintenance |-> {}, days |-> {0, 1}], [maintenance |-> {1}, days |-> {0, 1}],
              [maintenance |-> {}, days |-> {1}]}
UptimeOf(history) == Uptime(history, asked.maintenance, asked.days, RoundMs, min)

VotesInit ==
  /\ \E voting \in SUBSET Regions : votes \in [voting -> Cast]
  /\ min \in Thresholds
  /\ rows = {} /\ asked = [maintenance |-> {}, days |-> {}]

HistoryInit ==
  /\ votes = <<>> /\ min = Confirm
  /\ \E reported \in SUBSET ({0, 1} \X Probes) :
       /\ reported # {}
       /\ \E saw \in [reported -> Cast], late \in [reported -> 0 .. Spread] :
            rows = {[ts |-> x[1] * Interval + late[x], region |-> x[2], status |-> saw[x]] :
                      x \in reported}
  /\ asked \in Questions

Init == VotesInit \/ HistoryInit

\* A voting region's newest result is now a worse one.
Worsen(r, s) ==
  /\ Rank(votes[r]) < Rank(s)
  /\ votes' = [votes EXCEPT ![r] = s]
  /\ UNCHANGED <<min, rows, asked>>

\* A region's newest result falls out of the freshness window.
FallSilent(r) ==
  /\ votes' = [q \in DOMAIN votes \ {r} |-> votes[q]]
  /\ UNCHANGED <<min, rows, asked>>

\* A silent region reports again.
Report(r, s) ==
  /\ votes' = [q \in DOMAIN votes \cup {r} |-> IF q = r THEN s ELSE votes[q]]
  /\ UNCHANGED <<min, rows, asked>>

\* A row says something worse.
WorsenRow(x, s) ==
  /\ Rank(x.status) < Rank(s)
  /\ rows' = (rows \ {x}) \cup {[x EXCEPT !.status = s]}
  /\ UNCHANGED <<votes, min, asked>>

Next ==
  \/ \E r \in DOMAIN votes, s \in Cast : Worsen(r, s)
  \/ \E r \in DOMAIN votes : FallSilent(r)
  \/ rows = {} /\ \E r \in Regions \ DOMAIN votes, s \in Cast : Report(r, s)
  \/ \E x \in rows, s \in Cast : WorsenRow(x, s)

Spec == Init /\ [][Next]_vars

Shade(bar) == IF bar = "unknown" THEN -1 ELSE Rank(bar)

\* When a region sees the target get worse, the verdict does not improve
\* (consensusStatus counts down, and then down or degraded), and neither does
\* the uptime: as many rounds are counted, no more of them as up, and no day's
\* bar gets a better colour.
WorseNeverBetter ==
  [][/\ DOMAIN votes' = DOMAIN votes /\ DOMAIN votes # {} => Rank(verdict) <= Rank(verdict')
     /\ rows # {} => LET before == UptimeOf(rows)
                        after == UptimeOf(rows')
                    IN  /\ after.total = before.total /\ after.up <= before.up
                        /\ \A d \in asked.days : Shade(before.days[d]) <= Shade(after.days[d])]_vars

\* The threshold confirms and does no more.  Fewer dissenters than it are
\* outvoted, if that many voted; and whatever it is, zero, negative or more than
\* voted, it neither forces nor vetoes what all that voted agree on.
ThresholdOnlyConfirms ==
  DOMAIN votes # {} =>
    /\ Cardinality(DOMAIN votes) >= min /\ Cardinality(Dissenters(votes)) < min
         => verdict = "up"
    /\ \A s \in Cast : (\A r \in DOMAIN votes : votes[r] = s) => verdict = s

\* "the two finally agree" (lib/uptime.ts:60): a round as wide as
\* roundMsForInterval makes it holds the rows of one tick and no other, however
\* the regions straggle within half an interval, so what is counted is one unit
\* per tick, with the verdict the same votes would have given the status pill,
\* whatever rows maintenance or the first day cut off.
RoundsAreTicks ==
  LET usable == Usable(rows, asked.maintenance, asked.days)
      tick(k) == {x \in usable : x.ts \div Interval = k}
      pill(k) == [r \in {x.region : x \in tick(k)} |->
                   (CHOOSE x \in tick(k) : x.region = r).status]
  IN  {[at |-> u.at, status |-> u.status] : u \in Units(usable, RoundMs, min)}
      = {[at |-> Min({x.ts : x \in tick(k)}), status |-> ConsensusStatus(pill(k), min)] :
           k \in {x.ts \div Interval : x \in usable}}
=============================================================================
