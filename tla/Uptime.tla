-------------------------------- MODULE Uptime --------------------------------
(***************************************************************************)
(* Uptime of one monitor over a window of days, from the rows its regions  *)
(* wrote: lib/uptime.ts.  Rows are a set of [ts, region, status].  The     *)
(* regions that start a tick a little apart are votes on one round, which  *)
(* the vote of Consensus decides; with a single region every row counts by *)
(* itself.                                                                 *)
(***************************************************************************)
EXTENDS Consensus

CONSTANTS
  DayLength,     \* instants in a day
  DayDownBelow,  \* percentage under which a blemished day is red
  RoundFloor,    \* 5 s: no round is narrower
  RoundCeiling   \* 30 s: no round is wider

ASSUME UptimeAssumption ==
  /\ DayLength \in Nat \ {0} /\ DayDownBelow \in 0..100
  /\ RoundFloor \in Nat \ {0} /\ RoundCeiling \in Nat /\ RoundFloor <= RoundCeiling

DayOf(t) == t \div DayLength

\* Rows in a maintenance window, or on a day outside the one asked about, do
\* not count.
Usable(rows, maintenance, days) ==
  {x \in rows : x.ts \notin maintenance /\ DayOf(x.ts) \in days}

-----------------------------------------------------------------------------
(* roundMsForInterval, collapseToRounds                                    *)

Clamp(low, high, x) ==
  CASE x < low -> low [] x > high -> high [] OTHER -> x

\* Mutant: the floor and the ceiling, and not half the interval.
RoundWhole(interval) == Clamp(RoundFloor, RoundCeiling, interval)

\* Half the interval, clamped.  (Instants are fine enough for an interval to
\* be even, as the program's whole seconds in milliseconds are.)
RoundMsForInterval(interval) == Clamp(RoundFloor, RoundCeiling, interval \div 2)

\* An instant begins a round when no round began within roundMs before it.
Starts(times, roundMs) ==
  LET starts[t \in Nat] ==
        t \in times /\ \A s \in 0 .. t - 1 : t - s <= roundMs => ~starts[s]
  IN  {t \in times : starts[t]}

RoundStarts(rows, roundMs) == Starts({x.ts : x \in rows}, roundMs)

\* The newest row per region between one start and the next.
RoundVotes(rows, start, roundMs) ==
  LET within == {x \in rows : start <= x.ts /\ x.ts <= start + roundMs}
  IN  [r \in {x.region : x \in within} |->
         LET mine == {x \in within : x.region = r}
         IN  (CHOOSE x \in mine : \A y \in mine : y.ts <= x.ts).status]

\* What is counted: [at, region, status]; a round belongs to no one region.
Units(rows, roundMs, min) ==
  IF Cardinality({x.region : x \in rows}) > 1 /\ roundMs > 0
  THEN {[at |-> s, region |-> "all",
         status |-> ConsensusStatus(RoundVotes(rows, s, roundMs), min)] :
          s \in RoundStarts(rows, roundMs)}
  ELSE {[at |-> x.ts, region |-> x.region, status |-> x.status] : x \in rows}

-----------------------------------------------------------------------------
(* computeUptime                                                           *)

\* A degraded check answered, and counts as up.
UpUnits(units) == {u \in units : u.status # "down"}

\* The bar of a day: red only when too many of its rounds were down.
DayStatus(units, day) ==
  LET these == {u \in units : DayOf(u.at) = day}
      down == {u \in these : u.status = "down"}
  IN  CASE these = {} -> "unknown"
        [] these # {} /\ \A u \in these : u.status = "up" -> "up"
        [] OTHER ->
             IF /\ down # {}
                /\ Cardinality(UpUnits(these)) * 100 < DayDownBelow * Cardinality(these)
             THEN "down" ELSE "degraded"

Uptime(rows, maintenance, days, roundMs, min) ==
  LET units == Units(Usable(rows, maintenance, days), roundMs, min)
  IN  [up |-> Cardinality(UpUnits(units)), total |-> Cardinality(units),
       days |-> [d \in days |-> DayStatus(units, d)]]
=============================================================================
