------------------------------- MODULE Consensus -------------------------------
(***************************************************************************)
(* The verdict of a vote between check regions: config/regions.ts, and the *)
(* choice of who votes in Jobs/EvaluateMonitorConsensus.ts.                *)
(*                                                                         *)
(* Votes are a function from the regions that voted to what they saw.  A   *)
(* check result is 'up', 'down' or 'degraded' (the check jobs write no     *)
(* other status, and the region ingest accepts no other).                  *)
(***************************************************************************)
EXTENDS Integers, FiniteSets

Cast == {"up", "degraded", "down"}
Verdicts == Cast \cup {"unknown"}

Saw(votes, s) == {r \in DOMAIN votes : votes[r] = s}

\* Mutant: the threshold is taken as configured.
RequiredUnclamped(n, min) == min

\* The threshold, clamped to the votes present and to at least one.
Required(n, min) ==
  LET present == IF n < min THEN n ELSE min
  IN  IF present < 1 THEN 1 ELSE present

\* Mutant: degraded votes alone are counted for degraded.
ConsensusDegradedAlone(votes, min) ==
  LET required == Required(Cardinality(DOMAIN votes), min)
      down == Cardinality(Saw(votes, "down"))
      degraded == Cardinality(Saw(votes, "degraded"))
  IN  CASE DOMAIN votes = {} -> "unknown"
        [] DOMAIN votes # {} /\ down >= required -> "down"
        [] DOMAIN votes # {} /\ down < required /\ degraded >= required
             -> "degraded"
        [] OTHER -> "up"

\* consensusStatus
ConsensusStatus(votes, min) ==
  LET required == Required(Cardinality(DOMAIN votes), min)
      down == Cardinality(Saw(votes, "down"))
      degraded == Cardinality(Saw(votes, "degraded"))
  IN  CASE DOMAIN votes = {} -> "unknown"
        [] DOMAIN votes # {} /\ down >= required -> "down"
        [] DOMAIN votes # {} /\ down < required /\ down + degraded >= required
             -> "degraded"
        [] OTHER -> IF Saw(votes, "up") # {} THEN "up" ELSE "degraded"

\* Only configured regions vote, unless no configured region has a result.
Electorate(fresh, configured) ==
  IF fresh \cap configured # {} THEN fresh \cap configured ELSE fresh

-----------------------------------------------------------------------------
Rank(verdict) ==
  CASE verdict = "up" -> 0
    [] verdict = "degraded" -> 1
    [] verdict = "down" -> 2

\* The same regions, none of which sees the target in a better state.
NoBetter(v, w) ==
  /\ DOMAIN v = DOMAIN w
  /\ \A r \in DOMAIN v : Rank(v[r]) <= Rank(w[r])

Dissenters(votes) == {r \in DOMAIN votes : votes[r] # "up"}
=============================================================================
