---------------------------- MODULE ConsensusProofs ----------------------------
(***************************************************************************)
(* What the vote between regions promises, for any finite set of regions,  *)
(* any votes and any configured threshold, and what the uptime made of     *)
(* such votes promises of any history of two ticks.                        *)
(***************************************************************************)
EXTENDS MCConsensus, FiniteSetTheorems, WellFoundedInduction, TLAPS

\* consensusStatus never requires no vote at all, nor more votes than there are.
LEMMA RequiredBounds ==
  ASSUME NEW n \in Nat, NEW confirm \in Int
  PROVE  /\ Required(n, confirm) \in Nat
         /\ Required(n, confirm) >= 1
         /\ n >= 1 => Required(n, confirm) <= n
         /\ Required(n, confirm) > 1 => Required(n, confirm) <= confirm
         /\ (n >= confirm /\ confirm >= 1) => Required(n, confirm) = confirm
BY DEF Required

\* No region saw both down and degraded: the dissenters count as their sum.
LEMMA SawSizes ==
  ASSUME NEW R, IsFiniteSet(R), NEW v \in [R -> Cast]
  PROVE  /\ Cardinality(R) \in Nat
         /\ \A s \in Cast : /\ Saw(v, s) \subseteq R
                            /\ IsFiniteSet(Saw(v, s))
                            /\ Cardinality(Saw(v, s)) \in Nat
         /\ Dissenters(v) = Saw(v, "down") \cup Saw(v, "degraded")
         /\ IsFiniteSet(Dissenters(v))
         /\ Cardinality(Dissenters(v)) =
              Cardinality(Saw(v, "down")) + Cardinality(Saw(v, "degraded"))
<1>1. Cardinality(R) \in Nat
  BY FS_CardinalityType
<1>2. ASSUME NEW s \in Cast
      PROVE  /\ Saw(v, s) \subseteq R
             /\ IsFiniteSet(Saw(v, s))
             /\ Cardinality(Saw(v, s)) \in Nat
  <2>1. Saw(v, s) \subseteq R
    BY DEF Saw
  <2>2. QED
    BY <2>1, FS_Subset, FS_CardinalityType
<1>3. Dissenters(v) = Saw(v, "down") \cup Saw(v, "degraded")
  BY DEF Dissenters, Saw, Cast
<1>4. Saw(v, "down") \cap Saw(v, "degraded") = {}
  BY DEF Saw
<1>5. Cardinality({}) = 0
  BY FS_EmptySet
<1>6. "down" \in Cast /\ "degraded" \in Cast
  BY DEF Cast
<1> HIDE DEF Saw
<1>7. /\ IsFiniteSet(Dissenters(v))
      /\ Cardinality(Dissenters(v)) =
           Cardinality(Saw(v, "down")) + Cardinality(Saw(v, "degraded"))
             - Cardinality(Saw(v, "down") \cap Saw(v, "degraded"))
  BY <1>2, <1>3, <1>6, FS_Union
<1>8. /\ Cardinality(Saw(v, "down")) \in Nat
      /\ Cardinality(Saw(v, "degraded")) \in Nat
  BY <1>2, <1>6
<1>9. Cardinality(Dissenters(v)) =
        Cardinality(Saw(v, "down")) + Cardinality(Saw(v, "degraded"))
  <2>1. Cardinality(Saw(v, "down") \cap Saw(v, "degraded")) = 0
    BY <1>4, <1>5, Zenon
  <2> DEFINE d == Cardinality(Saw(v, "down"))
             g == Cardinality(Saw(v, "degraded"))
             n == Cardinality(Dissenters(v))
             c == Cardinality(Saw(v, "down") \cap Saw(v, "degraded"))
  <2>2. d \in Nat /\ g \in Nat /\ c = 0 /\ n = d + g - c
    BY <1>7, <1>8, <2>1
  <2> HIDE DEF d, g, n, c
  <2>3. n = d + g
    BY <2>2
  <2>4. QED
    BY <2>3 DEF d, g, n
<1>10. QED
  BY <1>1, <1>2, <1>3, <1>7, <1>9

(***************************************************************************)
(* With votes cast, the verdict is decided by two counts alone: how many   *)
(* regions saw the target down, and how many did not see it up.  The last  *)
(* branch of the source (nobody up, nobody dissenting) is never reached.   *)
(***************************************************************************)
LEMMA VerdictByCounts ==
  ASSUME NEW R, IsFiniteSet(R), R # {}, NEW v \in [R -> Cast], NEW confirm \in Int
  PROVE  LET required == Required(Cardinality(R), confirm)
             down == Cardinality(Saw(v, "down"))
             dissent == Cardinality(Dissenters(v))
         IN  /\ down >= required => ConsensusStatus(v, confirm) = "down"
             /\ down < required /\ dissent >= required
                  => ConsensusStatus(v, confirm) = "degraded"
             /\ dissent < required => ConsensusStatus(v, confirm) = "up"
<1> DEFINE required == Required(Cardinality(R), confirm)
           down == Cardinality(Saw(v, "down"))
           degraded == Cardinality(Saw(v, "degraded"))
           dissent == Cardinality(Dissenters(v))
<1>1. DOMAIN v = R
  OBVIOUS
<1>2. /\ Cardinality(R) \in Nat /\ Cardinality(R) # 0
      /\ down \in Nat /\ degraded \in Nat /\ dissent = down + degraded
  BY SawSizes, FS_EmptySet DEF Cast
<1>3. required \in Nat /\ required >= 1 /\ required <= Cardinality(R)
  <2>1. Cardinality(R) >= 1
    BY <1>2
  <2>2. QED
    BY <1>2, <2>1, RequiredBounds
<1>4. dissent < required => Saw(v, "up") # {}
  <2> SUFFICES ASSUME dissent < required, Saw(v, "up") = {} PROVE FALSE
    OBVIOUS
  <2>1. Dissenters(v) = R
    BY DEF Dissenters, Saw
  <2>2. dissent = Cardinality(R)
    BY <2>1
  <2>3. QED
    BY <1>2, <1>3, <2>2
<1>5. ConsensusStatus(v, confirm) =
        CASE R = {} -> "unknown"
          [] R # {} /\ down >= required -> "down"
          [] R # {} /\ down < required /\ down + degraded >= required
               -> "degraded"
          [] OTHER -> IF Saw(v, "up") # {} THEN "up" ELSE "degraded"
  BY <1>1 DEF ConsensusStatus
<1> HIDE DEF required, down, degraded, dissent
<1>6. /\ down >= required => ConsensusStatus(v, confirm) = "down"
      /\ down < required /\ dissent >= required
           => ConsensusStatus(v, confirm) = "degraded"
      /\ dissent < required => ConsensusStatus(v, confirm) = "up"
  BY <1>2, <1>3, <1>4, <1>5
<1>7. QED
  BY <1>6 DEF required, down, degraded, dissent

\* A vote that was cast has a verdict.
LEMMA VerdictIsCast ==
  ASSUME NEW R, IsFiniteSet(R), R # {}, NEW v \in [R -> Cast], NEW confirm \in Int
  PROVE  ConsensusStatus(v, confirm) \in Cast
BY DEF ConsensusStatus, Cast

(***************************************************************************)
(* The vote is monotone: when regions see the target in a worse state, the *)
(* verdict does not get better.  Unanimity and minority below are what     *)
(* "agreement between regions" means; this is what makes it fair.          *)
(***************************************************************************)
THEOREM WorseVotesWorseVerdict ==
  ASSUME NEW R, IsFiniteSet(R), R # {}, NEW confirm \in Int,
         NEW v \in [R -> Cast], NEW w \in [R -> Cast], NoBetter(v, w)
  PROVE  Rank(ConsensusStatus(v, confirm)) <= Rank(ConsensusStatus(w, confirm))
<1> DEFINE required == Required(Cardinality(R), confirm)
           downV == Cardinality(Saw(v, "down"))
           downW == Cardinality(Saw(w, "down"))
           dissentV == Cardinality(Dissenters(v))
           dissentW == Cardinality(Dissenters(w))
<1>1. \A r \in R : Rank(v[r]) <= Rank(w[r])
  BY DEF NoBetter
<1>2. Saw(v, "down") \subseteq Saw(w, "down")
  BY <1>1 DEF Saw, Rank, Cast
<1>3. Dissenters(v) \subseteq Dissenters(w)
  BY <1>1 DEF Dissenters, Rank, Cast
<1>4. downV <= downW /\ dissentV <= dissentW
  BY <1>2, <1>3, SawSizes, FS_Subset DEF Cast
<1>5. /\ Cardinality(R) \in Nat
      /\ downV \in Nat /\ downW \in Nat /\ dissentV \in Nat /\ dissentW \in Nat
      /\ downV <= dissentV /\ downW <= dissentW
  <2>1. /\ downV \in Nat /\ dissentV \in Nat /\ downV <= dissentV
        /\ Cardinality(R) \in Nat
    BY SawSizes DEF Cast
  <2>2. downW \in Nat /\ dissentW \in Nat /\ downW <= dissentW
    BY SawSizes DEF Cast
  <2>3. QED
    BY <2>1, <2>2
<1>6. required \in Nat
  BY <1>5, RequiredBounds
<1>7. /\ downV >= required => ConsensusStatus(v, confirm) = "down"
      /\ downV < required /\ dissentV >= required
           => ConsensusStatus(v, confirm) = "degraded"
      /\ dissentV < required => ConsensusStatus(v, confirm) = "up"
  BY VerdictByCounts
<1>8. /\ downW >= required => ConsensusStatus(w, confirm) = "down"
      /\ downW < required /\ dissentW >= required
           => ConsensusStatus(w, confirm) = "degraded"
      /\ dissentW < required => ConsensusStatus(w, confirm) = "up"
  BY VerdictByCounts
<1>9. Rank("up") = 0 /\ Rank("degraded") = 1 /\ Rank("down") = 2
  BY DEF Rank
<1> HIDE DEF required, downV, downW, dissentV, dissentW
<1>10. QED
  BY <1>4, <1>5, <1>6, <1>7, <1>8, <1>9

(***************************************************************************)
(* Fewer dissenting regions than the threshold change nothing, as long as  *)
(* at least that many regions voted: one region's blip pages nobody.       *)
(***************************************************************************)
THEOREM MinorityIsOutvoted ==
  ASSUME NEW R, IsFiniteSet(R), R # {}, NEW v \in [R -> Cast], NEW confirm \in Int,
         Cardinality(R) >= confirm, Cardinality(Dissenters(v)) < confirm
  PROVE  ConsensusStatus(v, confirm) = "up"
<1>1. Cardinality(R) \in Nat /\ Cardinality(Dissenters(v)) \in Nat
  BY SawSizes, FS_CardinalityType
<1>2. Required(Cardinality(R), confirm) = confirm
  BY <1>1, RequiredBounds
<1>3. QED
  BY <1>1, <1>2, VerdictByCounts

(***************************************************************************)
(* However the threshold is configured, what every voting region sees is   *)
(* the verdict: an outage they agree on is never hidden, and no threshold  *)
(* makes an outage of what they all see up.                                *)
(***************************************************************************)
THEOREM UnanimityDecides ==
  ASSUME NEW R, IsFiniteSet(R), R # {}, NEW v \in [R -> Cast], NEW confirm \in Int,
         NEW s \in Cast, \A r \in R : v[r] = s
  PROVE  ConsensusStatus(v, confirm) = s
<1> DEFINE n == Cardinality(R)
           required == Required(n, confirm)
<1>1. n \in Nat /\ n # 0 /\ n >= 1
  <2>1. n \in Nat /\ n # 0
    BY FS_CardinalityType, FS_EmptySet
  <2>2. QED
    BY <2>1
<1>2. required \in Nat /\ required >= 1 /\ required <= n
  BY <1>1, RequiredBounds
<1>3. Cardinality({}) = 0
  BY FS_EmptySet
<1>4. CASE s = "down"
  <2>1. Saw(v, "down") = R
    BY <1>4 DEF Saw
  <2>2. QED
    BY <1>2, <1>4, <2>1, VerdictByCounts
<1>5. CASE s = "degraded"
  <2>1. Saw(v, "down") = {} /\ Dissenters(v) = R
    BY <1>5 DEF Saw, Dissenters
  <2> HIDE DEF required
  <2>2. Cardinality(Saw(v, "down")) < required /\ Cardinality(Dissenters(v)) >= required
    BY <1>1, <1>2, <1>3, <2>1
  <2>3. QED
    BY <1>5, <2>2, VerdictByCounts DEF required
<1>6. CASE s = "up"
  <2>1. Dissenters(v) = {}
    BY <1>6 DEF Dissenters
  <2>2. QED
    BY <1>2, <1>3, <1>6, <2>1, VerdictByCounts
<1>7. QED
  BY <1>4, <1>5, <1>6 DEF Cast

(***************************************************************************)
(* The same of every vote MCConsensus reaches, whatever its regions and    *)
(* thresholds.                                                             *)
(***************************************************************************)
VotesInv == min \in Int /\ \E R \in SUBSET Regions : votes \in [R -> Cast]

\* Votes stay votes of known regions.
LEMMA VotesThroughout == Spec => []VotesInv
<1>1. Init => VotesInv
  <2>1. VotesInit => VotesInv
    BY VotesAssumption DEF VotesInit, VotesInv
  <2>2. HistoryInit => VotesInv
    <3> SUFFICES ASSUME HistoryInit PROVE VotesInv
      OBVIOUS
    <3>1. votes = <<>> /\ min \in Int
      BY VotesAssumption DEF HistoryInit
    <3>2. votes \in [{} -> Cast]
      BY <3>1
    <3>3. QED
      BY <3>1, <3>2, Zenon DEF VotesInv
  <2>3. QED
    BY <2>1, <2>2 DEF Init
<1>2. VotesInv /\ [Next]_vars => VotesInv'
  <2> SUFFICES ASSUME min \in Int, NEW R \in SUBSET Regions, votes \in [R -> Cast], [Next]_vars
               PROVE  VotesInv'
    BY DEF VotesInv
  <2>1. ASSUME NEW r \in DOMAIN votes, NEW s \in Cast, Worsen(r, s)
        PROVE  VotesInv'
    BY <2>1 DEF Worsen, VotesInv
  <2>2. ASSUME NEW r \in DOMAIN votes, FallSilent(r)
        PROVE  VotesInv'
    BY <2>2 DEF FallSilent, VotesInv
  <2>3. ASSUME NEW r \in Regions, NEW s \in Cast, Report(r, s)
        PROVE  VotesInv'
    BY <2>3 DEF Report, VotesInv
  <2>4. CASE UNCHANGED <<votes, min>>
    BY <2>4 DEF VotesInv
  <2>5. QED
    BY <2>1, <2>2, <2>3, <2>4 DEF Next, WorsenRow, vars
<1>3. QED
  BY <1>1, <1>2, PTL DEF Spec

\* Whatever regions vote, fall silent or report again, the threshold only
\* confirms (consensusStatus, config/regions.ts): fewer dissenters are outvoted,
\* and what all the voting regions saw is the verdict.
THEOREM ThresholdConfirms == Spec => []ThresholdOnlyConfirms
<1>1. VotesInv => ThresholdOnlyConfirms
  <2> SUFFICES ASSUME min \in Int, NEW R \in SUBSET Regions, votes \in [R -> Cast], R # {}
               PROVE  /\ Cardinality(R) >= min /\ Cardinality(Dissenters(votes)) < min
                           => verdict = "up"
                      /\ \A s \in Cast : (\A r \in R : votes[r] = s) => verdict = s
    BY DEF VotesInv, ThresholdOnlyConfirms
  <2>1. IsFiniteSet(R)
    BY VotesAssumption, FS_Subset
  <2>2. Cardinality(R) >= min /\ Cardinality(Dissenters(votes)) < min => verdict = "up"
    BY <2>1, MinorityIsOutvoted DEF verdict
  <2>3. ASSUME NEW s \in Cast, \A r \in R : votes[r] = s
        PROVE  verdict = s
    BY <2>1, <2>3, UnanimityDecides DEF verdict
  <2>4. QED
    BY <2>2, <2>3
<1>2. QED
  BY <1>1, VotesThroughout, PTL

(***************************************************************************)
(* Uptime (lib/uptime.ts) is monotone like the vote it is made of: rows    *)
(* that saw worse give as many units, at the same instants, each as bad or *)
(* worse.                                                                  *)
(***************************************************************************)
Result(P) == [ts : Nat, region : P, status : Cast]

SameRow(x, y) == x.ts = y.ts /\ x.region = y.region

\* The same rows, no two of which are of one region at one instant, seen worse.
WorseRows(R, S) ==
  /\ \A x, y \in R : SameRow(x, y) => x = y
  /\ \A x, y \in S : SameRow(x, y) => x = y
  /\ \A x \in R : \E y \in S : SameRow(x, y) /\ Rank(x.status) <= Rank(y.status)
  /\ \A y \in S : \E x \in R : SameRow(x, y)

SameUnit(u, v) == u.at = v.at /\ u.region = v.region

WorseUnits(A, B) ==
  /\ \A u, v \in A : SameUnit(u, v) => u = v
  /\ \A u, v \in B : SameUnit(u, v) => u = v
  /\ \A u \in A : \E v \in B : SameUnit(u, v) /\ Rank(u.status) <= Rank(v.status)
  /\ \A v \in B : \E u \in A : SameUnit(u, v)

\* A nonempty set of rows up to some instant has a newest one.
LEMMA NewestExists ==
  ASSUME NEW n \in Nat, NEW M, M # {}, \A x \in M : x.ts \in Nat /\ x.ts <= n
  PROVE  \E x \in M : \A y \in M : y.ts <= x.ts
<1> DEFINE gaps == {n - x.ts : x \in M}
           less == {ss \in Nat \X Nat : ss[1] < ss[2]}
<1>1. gaps \in SUBSET Nat /\ gaps # {}
  OBVIOUS
<1>2. IsWellFoundedOn(less, Nat)
  BY NatLessThanWellFounded DEF OpToRel
<1>3. PICK g \in gaps : \A h \in gaps : ~ (<<h, g>> \in less)
  <2> HIDE DEF less, gaps
  <2>1. QED
    BY <1>1, <1>2, WFMin
<1>4. \A h \in gaps : g <= h
  <2> SUFFICES ASSUME NEW h \in gaps PROVE g <= h
    OBVIOUS
  <2>1. g \in Nat /\ h \in Nat
    BY <1>1
  <2>2. h < g => <<h, g>> \in less
    BY <2>1
  <2>3. QED
    BY <1>3, <2>1, <2>2
<1>5. PICK x \in M : g = n - x.ts
  BY <1>3
<1>6. \A y \in M : n - x.ts <= n - y.ts
  BY <1>4, <1>5
<1>7. QED
  BY <1>6

\* The rows of a round.
Within(R, start, width) == {x \in R : start <= x.ts /\ x.ts <= start + width}

Voters(R, start, width) == {x.region : x \in Within(R, start, width)}

\* The vote of a round (collapseToRounds): the newest row of each region.
LEMMA RoundVotesAre ==
  ASSUME NEW P, NEW R \in SUBSET Result(P), NEW start \in Nat, NEW width \in Nat,
         \A x, y \in R : SameRow(x, y) => x = y
  PROVE  /\ RoundVotes(R, start, width) \in [Voters(R, start, width) -> Cast]
         /\ \A x \in Within(R, start, width) :
              (\A y \in Within(R, start, width) : y.region = x.region => y.ts <= x.ts) =>
                RoundVotes(R, start, width)[x.region] = x.status
         /\ \A r \in Voters(R, start, width) : \E x \in Within(R, start, width) :
              /\ x.region = r /\ RoundVotes(R, start, width)[r] = x.status
              /\ \A y \in Within(R, start, width) : y.region = r => y.ts <= x.ts
<1> DEFINE within == {x \in R : start <= x.ts /\ x.ts <= start + width}
           D == {x.region : x \in within}
           mine(r) == {x \in within : x.region = r}
           newest(r) == CHOOSE x \in mine(r) : \A y \in mine(r) : y.ts <= x.ts
           v == RoundVotes(R, start, width)
<1>1. v = [r \in D |-> newest(r).status]
  BY DEF RoundVotes
<1>2. \A x \in within : x.ts \in Nat /\ x.ts <= start + width /\ x.status \in Cast
  BY DEF Result
<1>3. ASSUME NEW r \in D
      PROVE  newest(r) \in mine(r) /\ \A y \in mine(r) : y.ts <= newest(r).ts
  <2>1. mine(r) # {} /\ start + width \in Nat
    OBVIOUS
  <2>2. \A x \in mine(r) : x.ts \in Nat /\ x.ts <= start + width
    BY <1>2
  <2> HIDE DEF mine
  <2>3. \E x \in mine(r) : \A y \in mine(r) : y.ts <= x.ts
    BY <2>1, <2>2, NewestExists
  <2>4. QED
    BY <2>3
<1>4. ASSUME NEW x \in within, \A y \in within : y.region = x.region => y.ts <= x.ts
      PROVE  x.region \in D /\ newest(x.region) = x
  <2>1. x.region \in D
    OBVIOUS
  <2> DEFINE z == newest(x.region)
  <2>2. z \in within /\ z.region = x.region /\ x.ts <= z.ts
    BY <1>3, <2>1
  <2> HIDE DEF z
  <2>3. z.ts <= x.ts /\ z.ts \in Nat /\ x.ts \in Nat
    BY <1>2, <1>4, <2>2
  <2>4. z.ts = x.ts
    BY <2>2, <2>3
  <2>5. z = x
    BY <2>2, <2>4 DEF SameRow
  <2>6. QED
    BY <2>1, <2>5 DEF z
<1>5. v \in [D -> Cast]
  <2>1. \A r \in D : newest(r).status \in Cast
    BY <1>2, <1>3
  <2> HIDE DEF newest, D, v
  <2>2. QED
    BY <1>1, <2>1
<1>6. \A r \in D : /\ newest(r) \in within /\ newest(r).region = r
                   /\ v[r] = newest(r).status
                   /\ \A y \in within : y.region = r => y.ts <= newest(r).ts
  <2> HIDE DEF v
  <2> SUFFICES ASSUME NEW r \in D
               PROVE  /\ newest(r) \in within /\ newest(r).region = r
                      /\ v[r] = newest(r).status
                      /\ \A y \in within : y.region = r => y.ts <= newest(r).ts
    OBVIOUS
  <2>1. newest(r) \in mine(r) /\ \A y \in mine(r) : y.ts <= newest(r).ts
    BY <1>3
  <2>2. v[r] = newest(r).status
    <3> HIDE DEF newest, D
    <3>1. QED
      BY <1>1
  <2> HIDE DEF newest
  <2>3. QED
    BY <2>1, <2>2
<1>7. \A x \in within : (\A y \in within : y.region = x.region => y.ts <= x.ts) =>
                          v[x.region] = x.status
  <2> HIDE DEF v, newest
  <2>1. QED
    BY <1>4, <1>6
<1>8. \A r \in D : \E x \in within :
        /\ x.region = r /\ v[r] = x.status
        /\ \A y \in within : y.region = r => y.ts <= x.ts
  <2> HIDE DEF v, newest, within
  <2>1. QED
    BY <1>6
<1>9. within = Within(R, start, width) /\ D = Voters(R, start, width)
  BY DEF Within, Voters
<1> HIDE DEF v, newest, within, D
<1>10. QED
  BY <1>5, <1>7, <1>8, <1>9 DEF v

\* The votes of a round get worse with its rows; the voters stay.
LEMMA RoundWorsens ==
  ASSUME NEW P, IsFiniteSet(P), NEW R \in SUBSET Result(P), NEW S \in SUBSET Result(P),
         WorseRows(R, S), NEW start \in {x.ts : x \in R}, NEW width \in Nat,
         NEW confirm \in Int
  PROVE  Rank(ConsensusStatus(RoundVotes(R, start, width), confirm))
           <= Rank(ConsensusStatus(RoundVotes(S, start, width), confirm))
<1> DEFINE In(Q) == Within(Q, start, width)
           D == Voters(R, start, width)
           E == Voters(S, start, width)
           v == RoundVotes(R, start, width)
           w == RoundVotes(S, start, width)
<1>1. start \in Nat
  BY DEF Result
<1>2. /\ v \in [D -> Cast]
      /\ \A x \in In(R) :
           (\A y \in In(R) : y.region = x.region => y.ts <= x.ts) => v[x.region] = x.status
      /\ \A r \in D : \E x \in In(R) :
           /\ x.region = r /\ v[r] = x.status
           /\ \A y \in In(R) : y.region = r => y.ts <= x.ts
  <2>1. \A x, y \in R : SameRow(x, y) => x = y
    BY DEF WorseRows
  <2>2. QED
    BY <1>1, <2>1, RoundVotesAre, ZenonT(30)
<1>3. /\ w \in [E -> Cast]
      /\ \A x \in In(S) :
           (\A y \in In(S) : y.region = x.region => y.ts <= x.ts) => w[x.region] = x.status
      /\ \A r \in E : \E x \in In(S) :
           /\ x.region = r /\ w[r] = x.status
           /\ \A y \in In(S) : y.region = r => y.ts <= x.ts
  <2>1. \A x, y \in S : SameRow(x, y) => x = y
    BY DEF WorseRows
  <2>2. QED
    BY <1>1, <2>1, RoundVotesAre, ZenonT(30)
<1>4. /\ \A x \in In(R) : \E y \in In(S) : SameRow(x, y) /\ Rank(x.status) <= Rank(y.status)
      /\ \A y \in In(S) : \E x \in In(R) : SameRow(x, y)
  BY DEF WorseRows, SameRow, Within
<1>5. D = E
  BY <1>4 DEF SameRow, Voters
<1>6. IsFiniteSet(D) /\ D # {}
  <2>1. D \subseteq P
    BY DEF Result, Voters, Within
  <2>2. PICK x \in R : x.ts = start
    OBVIOUS
  <2>3. x \in In(R)
    BY <1>1, <2>2 DEF Within
  <2>4. x.region \in D
    BY <2>3 DEF Voters
  <2>5. QED
    BY <2>1, <2>4, FS_Subset
<1> HIDE DEF In, v, w
<1>7. ASSUME NEW r \in D
      PROVE  Rank(v[r]) <= Rank(w[r])
  <2>1. PICK x \in In(R) : /\ x.region = r /\ v[r] = x.status
                           /\ \A y \in In(R) : y.region = r => y.ts <= x.ts
    BY <1>2
  <2>2. PICK y \in In(S) : SameRow(x, y) /\ Rank(x.status) <= Rank(y.status)
    BY <1>4
  <2>3. y.region = r /\ \A z \in In(S) : z.region = y.region => z.ts <= y.ts
    BY <1>4, <2>1, <2>2 DEF SameRow
  <2>4. w[r] = y.status
    BY <1>3, <2>3
  <2>5. QED
    BY <2>1, <2>2, <2>4
<1>8. w \in [D -> Cast] /\ v \in [D -> Cast]
  BY <1>2, <1>3, <1>5
<1> HIDE DEF D, E
<1>9. NoBetter(v, w)
  BY <1>7, <1>8 DEF NoBetter
<1>10. Rank(ConsensusStatus(v, confirm)) <= Rank(ConsensusStatus(w, confirm))
  BY <1>6, <1>8, <1>9, WorseVotesWorseVerdict
<1>11. QED
  BY <1>10 DEF v, w

\* What a function makes of a finite set is finite.
LEMMA ImageIsFinite ==
  ASSUME NEW S, IsFiniteSet(S), NEW T, NEW f \in [S -> T], \A y \in T : \E x \in S : f[x] = y
  PROVE  IsFiniteSet(T)
<1>1. f \in Surjection(S, T)
  BY DEF Surjection
<1>2. QED
  BY <1>1, FS_Surjection

\* What rows amount to: finitely many units with a verdict each.
LEMMA UnitsAre ==
  ASSUME NEW P, IsFiniteSet(P), NEW R \in SUBSET Result(P), IsFiniteSet(R),
         \A x, y \in R : SameRow(x, y) => x = y,
         NEW width \in Nat, NEW confirm \in Int
  PROVE  /\ IsFiniteSet(Units(R, width, confirm))
         /\ \A u \in Units(R, width, confirm) : u.status \in Cast
         /\ \A u, v \in Units(R, width, confirm) : SameUnit(u, v) => u = v
<1> DEFINE many == Cardinality({x.region : x \in R}) > 1 /\ width > 0
           times == {x.ts : x \in R}
           T == Starts(times, width)
           unit(s) == [at |-> s, region |-> "all",
                       status |-> ConsensusStatus(RoundVotes(R, s, width), confirm)]
           single(x) == [at |-> x.ts, region |-> x.region, status |-> x.status]
<1>1. CASE many
  <2>1. Units(R, width, confirm) = {unit(s) : s \in T}
    BY <1>1 DEF Units, RoundStarts
  <2>2. T \subseteq times
    BY DEF Starts
  <2>3. IsFiniteSet(T)
    <3>1. IsFiniteSet(times)
      <4> DEFINE f == [x \in R |-> x.ts]
      <4>1. f \in [R -> times] /\ \A t \in times : \E x \in R : f[x] = t
        OBVIOUS
      <4> HIDE DEF f, times
      <4>2. QED
        BY <4>1, ImageIsFinite
    <3>2. QED
      BY <2>2, <3>1, FS_Subset
  <2>4. ASSUME NEW s \in T
        PROVE  unit(s).status \in Cast
    <3> DEFINE D == Voters(R, s, width)
    <3>1. PICK x \in R : x.ts = s
      BY <2>2
    <3>2. s \in Nat /\ x \in Within(R, s, width)
      BY <3>1 DEF Result, Within
    <3>3. RoundVotes(R, s, width) \in [D -> Cast]
      BY <3>2, RoundVotesAre
    <3>4. D # {} /\ D \subseteq P
      BY <3>2 DEF Result, Voters, Within
    <3> HIDE DEF D
    <3>5. IsFiniteSet(D)
      BY <3>4, FS_Subset
    <3>6. ConsensusStatus(RoundVotes(R, s, width), confirm) \in Cast
      BY <3>3, <3>4, <3>5, VerdictIsCast
    <3>7. QED
      BY <3>6
  <2> HIDE DEF T
  <2>5. IsFiniteSet({unit(s) : s \in T})
    <3> DEFINE f == [s \in T |-> unit(s)]
    <3> HIDE DEF unit
    <3>1. f \in [T -> {unit(s) : s \in T}] /\ \A u \in {unit(s) : s \in T} : \E s \in T : f[s] = u
      OBVIOUS
    <3> HIDE DEF f
    <3>2. QED
      BY <2>3, <3>1, ImageIsFinite
  <2>6. QED
    BY <2>1, <2>4, <2>5 DEF SameUnit
<1>2. CASE ~many
  <2>1. Units(R, width, confirm) = {single(x) : x \in R}
    BY <1>2 DEF Units
  <2>2. IsFiniteSet({single(x) : x \in R})
    <3> DEFINE f == [x \in R |-> single(x)]
    <3> HIDE DEF single
    <3>1. f \in [R -> {single(x) : x \in R}] /\ \A u \in {single(x) : x \in R} : \E x \in R : f[x] = u
      OBVIOUS
    <3> HIDE DEF f
    <3>2. QED
      BY <3>1, ImageIsFinite
  <2>3. QED
    BY <2>1, <2>2 DEF SameUnit, SameRow, Result
<1>3. QED
  BY <1>1, <1>2

\* Worse rows give as many units at the same instants, each as bad or worse.
LEMMA UnitsWorsen ==
  ASSUME NEW P, IsFiniteSet(P), NEW R \in SUBSET Result(P), NEW S \in SUBSET Result(P),
         IsFiniteSet(R), IsFiniteSet(S), WorseRows(R, S),
         NEW width \in Nat, NEW confirm \in Int
  PROVE  WorseUnits(Units(R, width, confirm), Units(S, width, confirm))
<1> DEFINE T == Starts({x.ts : x \in R}, width)
           verdictIn(Q, s) == ConsensusStatus(RoundVotes(Q, s, width), confirm)
           unit(Q, s) == [at |-> s, region |-> "all", status |-> verdictIn(Q, s)]
           single(x) == [at |-> x.ts, region |-> x.region, status |-> x.status]
           many == Cardinality({x.region : x \in R}) > 1 /\ width > 0
<1>1. {x.ts : x \in R} = {x.ts : x \in S} /\ {x.region : x \in R} = {x.region : x \in S}
  BY DEF WorseRows, SameRow
<1>2. /\ \A u, v \in Units(R, width, confirm) : SameUnit(u, v) => u = v
      /\ \A u, v \in Units(S, width, confirm) : SameUnit(u, v) => u = v
  BY UnitsAre DEF WorseRows
<1>3. CASE many
  <2>1. Units(R, width, confirm) = {unit(R, s) : s \in T}
    BY <1>3 DEF Units, RoundStarts
  <2>2. Units(S, width, confirm) = {unit(S, s) : s \in T}
    BY <1>1, <1>3 DEF Units, RoundStarts
  <2>3. T \subseteq {x.ts : x \in R}
    BY DEF Starts
  <2>4. \A s \in T : Rank(verdictIn(R, s)) <= Rank(verdictIn(S, s))
    BY <2>3, RoundWorsens
  <2> HIDE DEF T, verdictIn
  <2>5. \A u \in Units(R, width, confirm) : \E v \in Units(S, width, confirm) :
          SameUnit(u, v) /\ Rank(u.status) <= Rank(v.status)
    <3> SUFFICES ASSUME NEW s \in T
                 PROVE  \E v \in Units(S, width, confirm) :
                          SameUnit(unit(R, s), v) /\ Rank(unit(R, s).status) <= Rank(v.status)
      BY <2>1
    <3>1. unit(S, s) \in Units(S, width, confirm)
      BY <2>2
    <3>2. SameUnit(unit(R, s), unit(S, s))
      BY DEF SameUnit
    <3>3. Rank(unit(R, s).status) <= Rank(unit(S, s).status)
      BY <2>4
    <3>4. QED
      BY <3>1, <3>2, <3>3
  <2>6. \A v \in Units(S, width, confirm) : \E u \in Units(R, width, confirm) : SameUnit(u, v)
    <3> SUFFICES ASSUME NEW s \in T
                 PROVE  \E u \in Units(R, width, confirm) : SameUnit(u, unit(S, s))
      BY <2>2
    <3>1. unit(R, s) \in Units(R, width, confirm)
      BY <2>1
    <3>2. SameUnit(unit(R, s), unit(S, s))
      BY DEF SameUnit
    <3>3. QED
      BY <3>1, <3>2
  <2>7. QED
    BY <1>2, <2>5, <2>6 DEF WorseUnits
<1>4. CASE ~many
  <2>1. Units(R, width, confirm) = {single(x) : x \in R}
    BY <1>4 DEF Units
  <2>2. Units(S, width, confirm) = {single(x) : x \in S}
    BY <1>1, <1>4 DEF Units
  <2>3. \A u \in Units(R, width, confirm) : \E v \in Units(S, width, confirm) :
          SameUnit(u, v) /\ Rank(u.status) <= Rank(v.status)
    <3> SUFFICES ASSUME NEW x \in R
                 PROVE  \E v \in Units(S, width, confirm) :
                          SameUnit(single(x), v) /\ Rank(single(x).status) <= Rank(v.status)
      BY <2>1
    <3>1. PICK y \in S : SameRow(x, y) /\ Rank(x.status) <= Rank(y.status)
      BY DEF WorseRows
    <3>2. single(y) \in Units(S, width, confirm)
      BY <2>2
    <3>3. SameUnit(single(x), single(y)) /\ Rank(single(x).status) <= Rank(single(y).status)
      BY <3>1 DEF SameUnit, SameRow
    <3>4. QED
      BY <3>2, <3>3
  <2>4. \A v \in Units(S, width, confirm) : \E u \in Units(R, width, confirm) : SameUnit(u, v)
    <3> SUFFICES ASSUME NEW y \in S
                 PROVE  \E u \in Units(R, width, confirm) : SameUnit(u, single(y))
      BY <2>2
    <3>1. PICK x \in R : SameRow(x, y)
      BY DEF WorseRows
    <3>2. single(x) \in Units(R, width, confirm)
      BY <2>1
    <3>3. SameUnit(single(x), single(y))
      BY <3>1 DEF SameUnit, SameRow
    <3>4. QED
      BY <3>2, <3>3
  <2>5. QED
    BY <1>2, <2>3, <2>4 DEF WorseUnits
<1>5. QED
  BY <1>3, <1>4

\* As many units, and no more of them up.
LEMMA WorseCounts ==
  ASSUME NEW A, NEW B, IsFiniteSet(A), IsFiniteSet(B), WorseUnits(A, B),
         \A u \in A : u.status \in Cast, \A v \in B : v.status \in Cast
  PROVE  /\ Cardinality(A) \in Nat /\ Cardinality(A) = Cardinality(B)
         /\ Cardinality(UpUnits(A)) \in Nat /\ Cardinality(UpUnits(B)) \in Nat
         /\ Cardinality(UpUnits(B)) <= Cardinality(UpUnits(A))
<1> DEFINE seen(v) == CHOOSE u \in A : SameUnit(u, v)
           back == [v \in B |-> seen(v)]
           up == [v \in UpUnits(B) |-> seen(v)]
<1>1. ASSUME NEW v \in B
      PROVE  seen(v) \in A /\ SameUnit(seen(v), v) /\ Rank(seen(v).status) <= Rank(v.status)
  <2>1. \E u \in A : SameUnit(u, v)
    BY DEF WorseUnits
  <2>2. seen(v) \in A /\ SameUnit(seen(v), v)
    BY <2>1, Zenon
  <2> HIDE DEF seen
  <2>3. PICK w \in B : SameUnit(seen(v), w) /\ Rank(seen(v).status) <= Rank(w.status)
    BY <2>2 DEF WorseUnits
  <2>4. w = v
    <3>1. SameUnit(w, v)
      BY <2>2, <2>3 DEF SameUnit
    <3>2. QED
      BY <3>1 DEF WorseUnits
  <2>5. QED
    BY <2>2, <2>3, <2>4
<1> HIDE DEF seen
<1>2. \A v, w \in B : seen(v) = seen(w) => v = w
  BY <1>1 DEF SameUnit, WorseUnits
<1>3. \A u \in A : \E v \in B : seen(v) = u
  <2> SUFFICES ASSUME NEW u \in A PROVE \E v \in B : seen(v) = u
    OBVIOUS
  <2>1. PICK v \in B : SameUnit(u, v)
    BY DEF WorseUnits
  <2>2. seen(v) = u
    BY <1>1, <2>1 DEF SameUnit, WorseUnits
  <2>3. QED
    BY <2>2
<1>4. back \in Injection(B, A) /\ back \in Surjection(B, A)
  <2>1. back \in [B -> A]
    BY <1>1
  <2>2. QED
    BY <1>2, <1>3, <2>1 DEF Injection, IsInjective, Surjection
<1>5. up \in Injection(UpUnits(B), UpUnits(A))
  <2>1. UpUnits(B) \subseteq B
    BY DEF UpUnits
  <2>2. \A v \in UpUnits(B) : seen(v) \in UpUnits(A)
    <3> SUFFICES ASSUME NEW v \in B, v.status # "down" PROVE seen(v).status # "down" /\ seen(v) \in A
      BY DEF UpUnits
    <3>1. seen(v) \in A /\ Rank(seen(v).status) <= Rank(v.status)
      BY <1>1
    <3>2. QED
      BY <3>1 DEF Rank, Cast
  <2>3. up \in [UpUnits(B) -> UpUnits(A)]
    BY <2>2
  <2>4. \A v, w \in UpUnits(B) : up[v] = up[w] => v = w
    BY <1>2, <2>1
  <2>5. QED
    BY <2>3, <2>4 DEF Injection, IsInjective
<1>6. IsFiniteSet(UpUnits(A)) /\ IsFiniteSet(UpUnits(B))
  BY FS_Subset DEF UpUnits
<1>7. Cardinality(A) = Cardinality(B)
  BY <1>4, FS_Injection
<1>8. Cardinality(UpUnits(B)) <= Cardinality(UpUnits(A))
  BY <1>5, <1>6, FS_Injection
<1>9. QED
  BY <1>6, <1>7, <1>8, FS_CardinalityType

\* No day's bar gets a better colour (computeUptime).
LEMMA DayWorsens ==
  ASSUME NEW A, NEW B, IsFiniteSet(A), IsFiniteSet(B), WorseUnits(A, B),
         \A u \in A : u.status \in Cast, \A v \in B : v.status \in Cast, NEW day
  PROVE  Shade(DayStatus(A, day)) <= Shade(DayStatus(B, day))
<1> DEFINE On(U) == {u \in U : DayOf(u.at) = day}
           Blemished(U) == {u \in U : u.status = "down"} # {}
           Rare(U) == Cardinality(UpUnits(U)) * 100 < DayDownBelow * Cardinality(U)
           a == On(A)
           b == On(B)
<1>1. WorseUnits(a, b)
  <2>1. \A u \in a : \E v \in b : SameUnit(u, v) /\ Rank(u.status) <= Rank(v.status)
    BY DEF WorseUnits, SameUnit
  <2>2. \A v \in b : \E u \in a : SameUnit(u, v)
    BY DEF WorseUnits, SameUnit
  <2>3. QED
    BY <2>1, <2>2 DEF WorseUnits
<1>2. /\ IsFiniteSet(a) /\ IsFiniteSet(b)
      /\ \A u \in a : u.status \in Cast
      /\ \A v \in b : v.status \in Cast
  BY FS_Subset
<1>3. /\ DayStatus(A, day) = CASE a = {} -> "unknown"
                               [] a # {} /\ \A u \in a : u.status = "up" -> "up"
                               [] OTHER -> IF Blemished(a) /\ Rare(a) THEN "down" ELSE "degraded"
      /\ DayStatus(B, day) = CASE b = {} -> "unknown"
                               [] b # {} /\ \A u \in b : u.status = "up" -> "up"
                               [] OTHER -> IF Blemished(b) /\ Rare(b) THEN "down" ELSE "degraded"
  BY DEF DayStatus
<1> HIDE DEF a, b
<1>4. a = {} <=> b = {}
  BY <1>1 DEF WorseUnits
<1>5. (\A v \in b : v.status = "up") => \A u \in a : u.status = "up"
  BY <1>1, <1>2 DEF WorseUnits, Rank, Cast
<1>6. Blemished(a) => Blemished(b)
  BY <1>1, <1>2 DEF WorseUnits, Rank, Cast
<1>7. Rare(a) => Rare(b)
  <2> DEFINE n == Cardinality(a)
             m == Cardinality(b)
             p == Cardinality(UpUnits(a))
             q == Cardinality(UpUnits(b))
  <2>1. n \in Nat /\ n = m /\ p \in Nat /\ q \in Nat /\ q <= p
    BY <1>1, <1>2, WorseCounts
  <2>2. DayDownBelow \in Nat
    BY UptimeAssumption
  <2> HIDE DEF n, m, p, q
  <2>3. p * 100 < DayDownBelow * n => q * 100 < DayDownBelow * m
    BY <2>1, <2>2
  <2>4. QED
    BY <2>3 DEF n, m, p, q
<1> HIDE DEF Blemished, Rare
<1>8. Shade("unknown") = -1 /\ Shade("up") = 0 /\ Shade("degraded") = 1 /\ Shade("down") = 2
  BY DEF Shade, Rank
<1>9. CASE a = {}
  BY <1>3, <1>4, <1>8, <1>9
<1>10. CASE a # {} /\ \A u \in a : u.status = "up"
  BY <1>3, <1>4, <1>8, <1>10
<1>11. CASE a # {} /\ ~ (\A u \in a : u.status = "up")
  BY <1>3, <1>4, <1>5, <1>6, <1>7, <1>8, <1>11
<1>12. QED
  BY <1>9, <1>10, <1>11

\* What Usable drops, it drops whatever was seen.
LEMMA UsableWorsens ==
  ASSUME NEW R, NEW S, WorseRows(R, S), NEW maintenance, NEW days
  PROVE  WorseRows(Usable(R, maintenance, days), Usable(S, maintenance, days))
<1> DEFINE kept(t) == t \notin maintenance /\ DayOf(t) \in days
<1>1. /\ Usable(R, maintenance, days) = {x \in R : kept(x.ts)}
      /\ Usable(S, maintenance, days) = {x \in S : kept(x.ts)}
  BY DEF Usable
<1> HIDE DEF kept
<1>2. QED
  BY <1>1 DEF WorseRows, SameRow

\* Worse rows, worse uptime: as many rounds counted, no more of them up, and no
\* day with a better bar.
THEOREM WorseRowsWorseUptime ==
  ASSUME NEW P, IsFiniteSet(P), NEW R \in SUBSET Result(P), NEW S \in SUBSET Result(P),
         IsFiniteSet(R), IsFiniteSet(S), WorseRows(R, S),
         NEW maintenance, NEW days, NEW width \in Nat, NEW confirm \in Int
  PROVE  LET before == Uptime(R, maintenance, days, width, confirm)
             after == Uptime(S, maintenance, days, width, confirm)
         IN  /\ after.total = before.total /\ after.up <= before.up
             /\ \A d \in days : Shade(before.days[d]) <= Shade(after.days[d])
<1> DEFINE r == Usable(R, maintenance, days)
           s == Usable(S, maintenance, days)
           A == Units(r, width, confirm)
           B == Units(s, width, confirm)
<1>1. /\ r \in SUBSET Result(P) /\ IsFiniteSet(r)
      /\ s \in SUBSET Result(P) /\ IsFiniteSet(s)
  BY FS_Subset DEF Usable
<1>2. WorseRows(r, s)
  BY UsableWorsens
<1>3. /\ Uptime(R, maintenance, days, width, confirm) =
           [up |-> Cardinality(UpUnits(A)), total |-> Cardinality(A),
            days |-> [d \in days |-> DayStatus(A, d)]]
      /\ Uptime(S, maintenance, days, width, confirm) =
           [up |-> Cardinality(UpUnits(B)), total |-> Cardinality(B),
            days |-> [d \in days |-> DayStatus(B, d)]]
  BY DEF Uptime
<1> HIDE DEF r, s
<1>4. WorseUnits(A, B)
  BY <1>1, <1>2, UnitsWorsen
<1>5. /\ IsFiniteSet(A) /\ \A u \in A : u.status \in Cast
      /\ IsFiniteSet(B) /\ \A u \in B : u.status \in Cast
  <2>1. /\ \A x, y \in r : SameRow(x, y) => x = y
        /\ \A x, y \in s : SameRow(x, y) => x = y
    BY <1>2 DEF WorseRows
  <2>2. IsFiniteSet(A) /\ \A u \in A : u.status \in Cast
    BY <1>1, <2>1, UnitsAre
  <2>3. IsFiniteSet(B) /\ \A u \in B : u.status \in Cast
    BY <1>1, <2>1, UnitsAre
  <2>4. QED
    BY <2>2, <2>3
<1> HIDE DEF A, B
<1>6. Cardinality(A) = Cardinality(B) /\ Cardinality(UpUnits(B)) <= Cardinality(UpUnits(A))
  BY <1>4, <1>5, WorseCounts
<1>7. \A d \in days : Shade(DayStatus(A, d)) <= Shade(DayStatus(B, d))
  BY <1>4, <1>5, DayWorsens
<1>8. QED
  BY <1>3, <1>6, <1>7

(***************************************************************************)
(* The rows of a history: finitely many, one per tick and probing region,  *)
(* on time or late.                                                        *)
(***************************************************************************)
RowsInv ==
  /\ rows \in SUBSET Result(Probes) /\ IsFiniteSet(rows)
  /\ \A x, y \in rows : SameRow(x, y) => x = y

\* A row that says something worse leaves the others as they were.
LEMMA RowWorsens ==
  ASSUME RowsInv, NEW x \in rows, NEW s \in Cast, WorsenRow(x, s)
  PROVE  RowsInv' /\ WorseRows(rows, rows')
<1> DEFINE y == [x EXCEPT !.status = s]
<1>1. x \in Result(Probes)
  BY DEF RowsInv
<1>2. y \in Result(Probes) /\ SameRow(x, y) /\ y.status = s
  BY <1>1 DEF Result, SameRow
<1> HIDE DEF y
<1>3. rows' = (rows \ {x}) \cup {y} /\ Rank(x.status) < Rank(s)
  BY DEF WorsenRow, y
<1>4. rows' \in SUBSET Result(Probes)
  BY <1>2, <1>3 DEF RowsInv
<1>5. IsFiniteSet(rows')
  BY <1>3, FS_Subset, FS_AddElement DEF RowsInv
<1>6. \A z, w \in rows' : SameRow(z, w) => z = w
  BY <1>2, <1>3 DEF RowsInv, SameRow
<1>7. \A z \in rows : Rank(z.status) <= Rank(z.status)
  BY DEF RowsInv, Result, Cast, Rank
<1>8. Rank(x.status) <= Rank(y.status)
  BY <1>1, <1>2, <1>3 DEF Rank, Result, Cast
<1>9. \A z \in rows : \E w \in rows' : SameRow(z, w) /\ Rank(z.status) <= Rank(w.status)
  BY <1>2, <1>3, <1>7, <1>8 DEF SameRow
<1>10. \A w \in rows' : \E z \in rows : SameRow(z, w)
  BY <1>2, <1>3 DEF SameRow
<1>11. QED
  BY <1>4, <1>5, <1>6, <1>9, <1>10 DEF RowsInv, WorseRows

\* Rows are no worse than themselves.
LEMMA RowsStay ==
  ASSUME RowsInv
  PROVE  WorseRows(rows, rows)
BY DEF RowsInv, WorseRows, SameRow, Result, Cast, Rank

\* A round as wide as roundMsForInterval makes it is wider than the spread of a
\* tick, and ends before the next one.
LEMMA RoundFits ==
  /\ Interval \in Nat \ {0} /\ Spread \in Nat /\ RoundMs \in Nat \ {0}
  /\ Spread <= RoundMs /\ RoundMs + Spread < Interval /\ Spread < Interval
<1>1. /\ RoundFloor \in Nat \ {0} /\ RoundCeiling \in Nat /\ RoundFloor <= RoundCeiling
      /\ Interval \in Nat /\ Spread \in Nat /\ 2 * Spread < Interval
      /\ Spread <= RoundCeiling /\ Spread + RoundFloor < Interval
  BY UptimeAssumption, VotesAssumption
<1> DEFINE half == Interval \div 2
<1>2. half \in Nat /\ Interval >= 2 * half /\ Interval <= 2 * half + 1
  BY <1>1
<1>3. RoundMs = CASE half < RoundFloor -> RoundFloor
                  [] half > RoundCeiling -> RoundCeiling
                  [] OTHER -> half
  BY DEF RoundMs, RoundMsForInterval, Clamp
<1> HIDE DEF half
<1>4. CASE half < RoundFloor
  BY <1>1, <1>2, <1>3, <1>4
<1>5. CASE half > RoundCeiling
  BY <1>1, <1>2, <1>3, <1>5
<1>6. CASE ~ (half < RoundFloor) /\ ~ (half > RoundCeiling)
  <2>1. RoundMs = half
    BY <1>3, <1>6
  <2>2. QED
    BY <1>1, <1>2, <1>6, <2>1
<1>7. QED
  BY <1>4, <1>5, <1>6

\* A history begins with one row per tick and region, and rows only get worse.
LEMMA RowsThroughout == Spec => []RowsInv
<1>1. Init => RowsInv
  <2>1. VotesInit => RowsInv
    BY FS_EmptySet DEF VotesInit, RowsInv
  <2>2. HistoryInit => RowsInv
    <3> SUFFICES ASSUME NEW reported \in SUBSET ({0, 1} \X Probes),
                        NEW saw \in [reported -> Cast],
                        NEW late \in [reported -> 0 .. Spread],
                        rows = {[ts |-> x[1] * Interval + late[x], region |-> x[2],
                                 status |-> saw[x]] : x \in reported}
                 PROVE  RowsInv
      BY DEF HistoryInit
    <3> DEFINE row(x) == [ts |-> x[1] * Interval + late[x], region |-> x[2], status |-> saw[x]]
    <3>1. Spread \in Nat /\ Interval \in Nat /\ Spread < Interval
      BY RoundFits
    <3>2. ASSUME NEW x \in reported
          PROVE  /\ row(x) \in Result(Probes)
                 /\ x = <<x[1], x[2]>> /\ row(x).region = x[2]
                 /\ \/ x[1] = 0 /\ row(x).ts < Interval
                    \/ x[1] = 1 /\ row(x).ts >= Interval
      <4>1. x[1] \in {0, 1} /\ x[2] \in Probes /\ x = <<x[1], x[2]>>
        OBVIOUS
      <4>2. late[x] \in 0 .. Spread /\ saw[x] \in Cast
        OBVIOUS
      <4>3. CASE x[1] = 0
        <5>1. x[1] * Interval + late[x] = late[x]
          BY <3>1, <4>2, <4>3
        <5>2. QED
          BY <3>1, <4>1, <4>2, <4>3, <5>1 DEF Result
      <4>4. CASE x[1] = 1
        <5>1. x[1] * Interval + late[x] = Interval + late[x]
          BY <3>1, <4>2, <4>4
        <5>2. QED
          BY <3>1, <4>1, <4>2, <4>4, <5>1 DEF Result
      <4>5. QED
        BY <4>1, <4>3, <4>4
    <3>3. rows = {row(x) : x \in reported}
      OBVIOUS
    <3> HIDE DEF row
    <3>4. rows \in SUBSET Result(Probes)
      BY <3>2, <3>3
    <3>5. IsFiniteSet(rows)
      <4> DEFINE f == [x \in reported |-> row(x)]
      <4>1. IsFiniteSet({0, 1})
        <5>1. IsFiniteSet({0} \cup {1})
          BY FS_Singleton, FS_AddElement
        <5>2. {0, 1} = {0} \cup {1}
          OBVIOUS
        <5>3. QED
          BY <5>1, <5>2
      <4>2. IsFiniteSet({0, 1} \X Probes)
        BY <4>1, VotesAssumption, FS_Product
      <4>3. IsFiniteSet(reported)
        BY <4>2, FS_Subset
      <4>4. f \in [reported -> rows] /\ \A z \in rows : \E x \in reported : f[x] = z
        BY <3>3
      <4> HIDE DEF f
      <4>5. QED
        BY <4>3, <4>4, ImageIsFinite
    <3>6. ASSUME NEW z \in rows, NEW w \in rows, SameRow(z, w)
          PROVE  z = w
      <4>1. PICK x \in reported : z = row(x)
        BY <3>3
      <4>2. PICK y \in reported : w = row(y)
        BY <3>3
      <4>3. z.ts = w.ts /\ z.region = w.region /\ z.ts \in Nat
        BY <3>2, <3>6, <4>1 DEF SameRow, Result
      <4>4. x[1] = y[1] /\ x[2] = y[2]
        BY <3>1, <3>2, <4>1, <4>2, <4>3
      <4>5. x = y
        BY <3>2, <4>4
      <4>6. QED
        BY <4>1, <4>2, <4>5
    <3>7. QED
      BY <3>4, <3>5, <3>6 DEF RowsInv
  <2>3. QED
    BY <2>1, <2>2 DEF Init
<1>2. RowsInv /\ [Next]_vars => RowsInv'
  <2> SUFFICES ASSUME RowsInv, [Next]_vars PROVE RowsInv'
    OBVIOUS
  <2>1. ASSUME NEW x \in rows, NEW s \in Cast, WorsenRow(x, s)
        PROVE  RowsInv'
    BY <2>1, RowWorsens
  <2>2. CASE UNCHANGED rows
    BY <2>2 DEF RowsInv
  <2>3. QED
    BY <2>1, <2>2 DEF Next, Worsen, FallSilent, Report, vars
<1>3. QED
  BY <1>1, <1>2, PTL DEF Spec

(***************************************************************************)
(* When a region sees the target get worse, neither the verdict            *)
(* (consensusStatus) nor the uptime its row goes into (computeUptime) gets *)
(* better, whatever the regions, thresholds, days and maintenance.         *)
(***************************************************************************)
THEOREM WorseIsNeverBetter == Spec => WorseNeverBetter
<1> DEFINE VerdictKept ==
             DOMAIN votes' = DOMAIN votes /\ DOMAIN votes # {} => Rank(verdict) <= Rank(verdict')
           UptimeKept ==
             LET before == UptimeOf(rows)
                 after == UptimeOf(rows')
             IN  /\ after.total = before.total /\ after.up <= before.up
                 /\ \A d \in asked.days : Shade(before.days[d]) <= Shade(after.days[d])
<1>1. ASSUME VotesInv, [Next]_vars
      PROVE  VerdictKept
  <2> SUFFICES ASSUME min \in Int, NEW R \in SUBSET Regions, votes \in [R -> Cast], R # {},
                      DOMAIN votes' = R
               PROVE  Rank(verdict) <= Rank(verdict')
    BY <1>1 DEF VotesInv
  <2>1. IsFiniteSet(R)
    BY VotesAssumption, FS_Subset
  <2>2. ASSUME NEW r \in R, NEW s \in Cast, Worsen(r, s)
        PROVE  Rank(verdict) <= Rank(verdict')
    <3>1. votes' \in [R -> Cast] /\ min' = min
      BY <2>2 DEF Worsen
    <3>2. NoBetter(votes, votes')
      BY <2>2, <3>1 DEF Worsen, NoBetter, Rank, Cast
    <3>3. QED
      BY <2>1, <3>1, <3>2, WorseVotesWorseVerdict DEF verdict
  <2>3. ASSUME NEW r \in R, FallSilent(r)
        PROVE  FALSE
    BY <2>3 DEF FallSilent
  <2>4. ASSUME NEW r \in Regions \ R, NEW s \in Cast, Report(r, s)
        PROVE  FALSE
    BY <2>4 DEF Report
  <2>5. CASE votes' = votes /\ min' = min
    <3>1. verdict' = verdict /\ verdict \in Cast
      BY <2>1, <2>5, VerdictIsCast DEF verdict
    <3>2. QED
      BY <3>1 DEF Rank, Cast
  <2>6. QED
    BY <1>1, <2>2, <2>3, <2>4, <2>5 DEF Next, WorsenRow, vars
<1>2. ASSUME VotesInv, RowsInv, [Next]_vars
      PROVE  UptimeKept
  <2>1. WorseRows(rows, rows') /\ RowsInv'
    <3>1. ASSUME NEW x \in rows, NEW s \in Cast, WorsenRow(x, s)
          PROVE  WorseRows(rows, rows') /\ RowsInv'
      BY <1>2, <3>1, RowWorsens
    <3>2. CASE UNCHANGED rows
      BY <1>2, <3>2, RowsStay DEF RowsInv
    <3>3. QED
      BY <1>2, <3>1, <3>2 DEF Next, Worsen, FallSilent, Report, vars
  <2>2. /\ rows \in SUBSET Result(Probes) /\ IsFiniteSet(rows)
        /\ rows' \in SUBSET Result(Probes) /\ IsFiniteSet(rows')
    BY <1>2, <2>1 DEF RowsInv
  <2>3. min \in Int /\ RoundMs \in Nat /\ IsFiniteSet(Probes)
    BY <1>2, VotesAssumption, RoundFits DEF VotesInv
  <2>4. QED
    BY <2>1, <2>2, <2>3, WorseRowsWorseUptime DEF UptimeOf
<1>3. VotesInv /\ RowsInv /\ [Next]_vars
        => [VerdictKept /\ (rows # {} => UptimeKept)]_vars
  BY <1>1, <1>2
<1>4. QED
  <2>1. VotesInv /\ RowsInv /\ [Next]_vars
          => [/\ DOMAIN votes' = DOMAIN votes /\ DOMAIN votes # {}
                   => Rank(verdict) <= Rank(verdict')
              /\ rows # {} => LET before == UptimeOf(rows)
                                  after == UptimeOf(rows')
                              IN  /\ after.total = before.total /\ after.up <= before.up
                                  /\ \A d \in asked.days :
                                       Shade(before.days[d]) <= Shade(after.days[d])]_vars
    BY <1>3
  <2>2. QED
    BY <2>1, VotesThroughout, RowsThroughout, PTL DEF Spec, WorseNeverBetter

(***************************************************************************)
(* Where rounds begin, when being close (within roundMs) is transitive: at *)
(* every instant with no other one close before it.  The instants of a     *)
(* tick are such a group; the recursion of collapseToRounds then finds     *)
(* their first.                                                            *)
(***************************************************************************)
First(times, width, t) == t \in times /\ \A s \in times : s < t => t - s > width

\* What one round after the other satisfies (collapseToRounds).
BeginsRounds(times, width, starts) ==
  starts = [t \in Nat |->
              t \in times /\ \A s \in 0 .. t - 1 : t - s <= width => ~starts[s]]

\* An instant with another one close before it is close to the first of them.
LEMMA FirstExists ==
  ASSUME NEW times \in SUBSET Nat, NEW width \in Nat,
         \A s, t, u \in times :
           s < t /\ t < u /\ t - s <= width /\ u - t <= width => u - s <= width,
         NEW t \in times, ~ First(times, width, t)
  PROVE  \E m \in times : m < t /\ t - m <= width /\ First(times, width, m)
<1> DEFINE close == {s \in times : s < t /\ t - s <= width}
           less == {ss \in Nat \X Nat : ss[1] < ss[2]}
<1>1. close \in SUBSET Nat /\ close # {}
  <2>1. PICK s \in times : s < t /\ ~ (t - s > width)
    BY DEF First
  <2>2. s \in Nat /\ t \in Nat
    OBVIOUS
  <2>3. t - s <= width
    BY <2>1, <2>2
  <2>4. QED
    BY <2>1, <2>3
<1>2. IsWellFoundedOn(less, Nat)
  BY NatLessThanWellFounded DEF OpToRel
<1>3. PICK m \in close : \A h \in close : ~ (<<h, m>> \in less)
  <2> HIDE DEF less, close
  <2>1. QED
    BY <1>1, <1>2, WFMin
<1>4. \A h \in close : m <= h
  <2> SUFFICES ASSUME NEW h \in close PROVE m <= h
    OBVIOUS
  <2>1. m \in Nat /\ h \in Nat
    BY <1>1
  <2>2. h < m => <<h, m>> \in less
    BY <2>1
  <2>3. QED
    BY <1>3, <2>1, <2>2
<1>5. m \in times /\ m < t /\ t - m <= width
  OBVIOUS
<1>6. ASSUME NEW s \in times, s < m, m - s <= width
      PROVE  FALSE
  <2>1. t - s <= width
    BY <1>5, <1>6
  <2>2. s \in close
    BY <1>5, <1>6, <2>1
  <2>3. QED
    BY <1>4, <1>6, <2>2
<1>7. First(times, width, m)
  BY <1>5, <1>6 DEF First
<1>8. QED
  BY <1>5, <1>7

\* The recursion has one solution there, and it is the firsts.
LEMMA StartsAreFirsts ==
  ASSUME NEW times \in SUBSET Nat, NEW width \in Nat,
         \A s, t, u \in times :
           s < t /\ t < u /\ t - s <= width /\ u - t <= width => u - s <= width
  PROVE  Starts(times, width) = {t \in times : First(times, width, t)}
<1> DEFINE f == CHOOSE f : BeginsRounds(times, width, f)
           g == [t \in Nat |-> First(times, width, t)]
<1>1. Starts(times, width) = {t \in times : f[t]}
  BY DEF Starts, BeginsRounds
<1>2. BeginsRounds(times, width, g)
  <2> SUFFICES ASSUME NEW t \in Nat
               PROVE  First(times, width, t) =
                        (t \in times /\ \A s \in 0 .. t - 1 : t - s <= width => ~g[s])
    BY Zenon DEF BeginsRounds
  <2>1. ASSUME First(times, width, t)
        PROVE  t \in times /\ \A s \in 0 .. t - 1 : t - s <= width => ~g[s]
    <3>1. \A s \in 0 .. t - 1 : t - s <= width => ~ (s \in times)
      BY <2>1 DEF First
    <3>2. \A s \in 0 .. t - 1 : g[s] = First(times, width, s)
      OBVIOUS
    <3>3. \A s \in 0 .. t - 1 : First(times, width, s) => s \in times
      BY DEF First
    <3>4. t \in times
      BY <2>1 DEF First
    <3> HIDE DEF g
    <3>5. QED
      BY <3>1, <3>2, <3>3, <3>4
  <2>2. ASSUME t \in times, \A s \in 0 .. t - 1 : t - s <= width => ~g[s],
               ~ First(times, width, t)
        PROVE  FALSE
    <3>1. PICK m \in times : m < t /\ t - m <= width /\ First(times, width, m)
      BY <2>2, FirstExists
    <3>2. m \in 0 .. t - 1 /\ g[m]
      BY <3>1
    <3>3. QED
      BY <2>2, <3>1, <3>2
  <2>3. QED
    BY <2>1, <2>2 DEF First
<1>3. BeginsRounds(times, width, f)
  BY <1>2
<1> HIDE DEF f, g
<1>4. ASSUME NEW t \in Nat
      PROVE  f[t] <=> (t \in times /\ \A s \in 0 .. t - 1 : t - s <= width => ~f[s])
  BY <1>3 DEF BeginsRounds
<1>5. ASSUME NEW t \in times, First(times, width, t)
      PROVE  f[t]
  <2>1. \A s \in 0 .. t - 1 : t - s <= width => ~ (s \in times)
    BY <1>5 DEF First
  <2>2. \A s \in 0 .. t - 1 : f[s] => s \in times
    BY <1>4
  <2>3. QED
    BY <1>4, <2>1, <2>2
<1>6. ASSUME NEW t \in times, f[t], ~ First(times, width, t)
      PROVE  FALSE
  <2>1. PICK m \in times : m < t /\ t - m <= width /\ First(times, width, m)
    BY <1>6, FirstExists
  <2>2. m \in 0 .. t - 1 /\ f[m]
    BY <1>5, <2>1
  <2>3. QED
    BY <1>4, <1>6, <2>1, <2>2
<1>7. QED
  BY <1>1, <1>5, <1>6

(***************************************************************************)
(* A tick's instants are roundMs apart at most, two ticks' are further     *)
(* apart, and a region has one row per tick.                               *)
(***************************************************************************)
Instants == (0 .. Spread) \cup (Interval .. Interval + Spread)
TickOf(t) == t \div Interval

TicksInv ==
  /\ \A x \in rows : x.ts \in Instants
  /\ \A x, y \in rows : x.region = y.region /\ TickOf(x.ts) = TickOf(y.ts) => x = y

\* Instants are close when they are of one tick.
LEMMA CloseIsOneTick ==
  ASSUME NEW s \in Instants, NEW t \in Instants
  PROVE  /\ s \in Nat /\ TickOf(s) \in Nat
         /\ s <= t => (t - s <= RoundMs <=> TickOf(s) = TickOf(t))
<1>1. /\ Interval \in Nat \ {0} /\ Spread \in Nat /\ RoundMs \in Nat \ {0}
      /\ Spread <= RoundMs /\ RoundMs + Spread < Interval /\ Spread < Interval
  BY RoundFits
<1>2. ASSUME NEW u \in Instants
      PROVE  /\ u \in Nat
             /\ \/ u < Interval /\ u <= Spread /\ TickOf(u) = 0
                \/ Interval <= u /\ u <= Interval + Spread /\ TickOf(u) = 1
  <2>1. u \in Nat /\ u < 2 * Interval
    BY <1>1 DEF Instants
  <2>2. u < Interval => TickOf(u) = 0
    BY <1>1, <2>1 DEF TickOf
  <2>3. u >= Interval => TickOf(u) = 1
    BY <1>1, <2>1 DEF TickOf
  <2>4. (u <= Spread /\ u < Interval) \/ (Interval <= u /\ u <= Interval + Spread)
    BY <1>1 DEF Instants
  <2>5. QED
    BY <2>1, <2>2, <2>3, <2>4
<1>3. QED
  BY <1>1, <1>2

\* The instants of the first tick.
LEMMA ThisTick ==
  ASSUME NEW interval \in Nat \ {0}, NEW u \in Nat, u < interval
  PROVE  u \div interval = 0
OBVIOUS

\* The instants of the next tick.
LEMMA NextTick ==
  ASSUME NEW interval \in Nat \ {0}, NEW u \in Nat, interval <= u, u < 2 * interval
  PROVE  u \div interval = 1
OBVIOUS

\* Rows stay where their ticks put them.
LEMMA TicksThroughout == Spec => []TicksInv
<1>1. Init => TicksInv
  <2>1. VotesInit => TicksInv
    BY DEF VotesInit, TicksInv
  <2>2. HistoryInit => TicksInv
    <3> SUFFICES ASSUME NEW reported \in SUBSET ({0, 1} \X Probes),
                        NEW saw \in [reported -> Cast],
                        NEW late \in [reported -> 0 .. Spread],
                        rows = {[ts |-> x[1] * Interval + late[x], region |-> x[2],
                                 status |-> saw[x]] : x \in reported}
                 PROVE  TicksInv
      BY DEF HistoryInit
    <3> DEFINE row(x) == [ts |-> x[1] * Interval + late[x], region |-> x[2], status |-> saw[x]]
    <3>1. Spread \in Nat /\ Interval \in Nat \ {0} /\ Spread < Interval
      BY RoundFits
    <3>2. ASSUME NEW x \in reported
          PROVE  /\ row(x).ts \in Instants /\ row(x).region = x[2]
                 /\ x = <<x[1], x[2]>> /\ TickOf(row(x).ts) = x[1]
      <4>1. x[1] \in {0, 1} /\ x[2] \in Probes /\ x = <<x[1], x[2]>>
        OBVIOUS
      <4>2. late[x] \in 0 .. Spread
        OBVIOUS
      <4>3. CASE x[1] = 0
        <5>1. x[1] * Interval + late[x] = late[x]
          BY <3>1, <4>2, <4>3
        <5>2. row(x).ts = late[x]
          BY <5>1
        <5>3. late[x] \div Interval = 0
          BY <3>1, <4>2, ThisTick
        <5>4. QED
          BY <4>1, <4>2, <4>3, <5>2, <5>3 DEF Instants, TickOf
      <4>4. CASE x[1] = 1
        <5>1. x[1] * Interval + late[x] = Interval + late[x]
          BY <3>1, <4>2, <4>4
        <5>2. row(x).ts = Interval + late[x]
          BY <5>1
        <5>3. (Interval + late[x]) \div Interval = 1
          <6> DEFINE u == Interval + late[x]
          <6>1. u \in Nat /\ Interval <= u /\ u < 2 * Interval
            BY <3>1, <4>2
          <6> HIDE DEF u
          <6>2. u \div Interval = 1
            BY <3>1, <6>1, NextTick
          <6>3. QED
            BY <6>2 DEF u
        <5>4. Interval + late[x] \in Instants
          BY <3>1, <4>2 DEF Instants
        <5>5. QED
          BY <4>1, <4>4, <5>2, <5>3, <5>4 DEF TickOf
      <4>5. QED
        BY <4>1, <4>3, <4>4
    <3>3. rows = {row(x) : x \in reported}
      OBVIOUS
    <3> HIDE DEF row
    <3>4. ASSUME NEW z \in rows, NEW w \in rows, z.region = w.region, TickOf(z.ts) = TickOf(w.ts)
          PROVE  z = w
      <4>1. PICK x \in reported : z = row(x)
        BY <3>3
      <4>2. PICK y \in reported : w = row(y)
        BY <3>3
      <4>3. x[1] = y[1] /\ x[2] = y[2]
        BY <3>2, <3>4, <4>1, <4>2
      <4>4. x = y
        BY <3>2, <4>3
      <4>5. QED
        BY <4>1, <4>2, <4>4
    <3>5. QED
      BY <3>2, <3>3, <3>4 DEF TicksInv
  <2>3. QED
    BY <2>1, <2>2 DEF Init
<1>2. RowsInv /\ TicksInv /\ [Next]_vars => TicksInv'
  <2> SUFFICES ASSUME RowsInv, TicksInv, [Next]_vars PROVE TicksInv'
    OBVIOUS
  <2>1. ASSUME NEW x \in rows, NEW s \in Cast, WorsenRow(x, s)
        PROVE  TicksInv'
    <3> DEFINE y == [x EXCEPT !.status = s]
    <3>1. y.ts = x.ts /\ y.region = x.region
      BY DEF RowsInv, Result
    <3> HIDE DEF y
    <3>2. rows' = (rows \ {x}) \cup {y}
      BY <2>1 DEF WorsenRow, y
    <3>3. QED
      BY <3>1, <3>2 DEF TicksInv, Instants, TickOf
  <2>2. CASE UNCHANGED rows
    BY <2>2 DEF TicksInv, Instants, TickOf
  <2>3. QED
    BY <2>1, <2>2 DEF Next, Worsen, FallSilent, Report, vars
<1>3. QED
  BY <1>1, <1>2, RowsThroughout, PTL DEF Spec

(***************************************************************************)
(* The rows of a tick, and the vote the status pill would take of them.    *)
(***************************************************************************)
Tick(usable, k) == {x \in usable : x.ts \div Interval = k}
Pill(usable, k) ==
  [r \in {x.region : x \in Tick(usable, k)} |->
     (CHOOSE x \in Tick(usable, k) : x.region = r).status]

\* The pill's vote has what each region of the tick saw.
LEMMA PillIs ==
  ASSUME RowsInv, TicksInv, NEW usable \in SUBSET rows, NEW k
  PROVE  /\ Pill(usable, k) \in [{x.region : x \in Tick(usable, k)} -> Cast]
         /\ \A x \in Tick(usable, k) : Pill(usable, k)[x.region] = x.status
<1> DEFINE of(r) == CHOOSE x \in Tick(usable, k) : x.region = r
<1>1. ASSUME NEW x \in Tick(usable, k)
      PROVE  of(x.region) = x /\ x.status \in Cast
  <2>1. of(x.region) \in Tick(usable, k) /\ of(x.region).region = x.region
    OBVIOUS
  <2> HIDE DEF of
  <2>2. QED
    BY <2>1 DEF Tick, TicksInv, TickOf, RowsInv, Result
<1>2. Pill(usable, k) = [r \in {x.region : x \in Tick(usable, k)} |-> of(r).status]
  BY DEF Pill
<1> HIDE DEF of
<1>3. QED
  BY <1>1, <1>2

\* Of a tick, the first instant is its earliest, and its round's vote the pill's.
LEMMA RoundIsTick ==
  ASSUME RowsInv, TicksInv, NEW usable \in SUBSET rows,
         NEW s \in {x.ts : x \in usable}, First({x.ts : x \in usable}, RoundMs, s)
  PROVE  /\ s = Min({x.ts : x \in Tick(usable, s \div Interval)})
         /\ RoundVotes(usable, s, RoundMs) = Pill(usable, s \div Interval)
<1> DEFINE k == s \div Interval
           T == Tick(usable, k)
           times == {x.ts : x \in usable}
<1>1. /\ usable \subseteq rows /\ s \in Instants /\ s \in Nat /\ RoundMs \in Nat
      /\ \A x \in usable : x.ts \in Instants /\ x.ts \in Nat
  BY CloseIsOneTick, RoundFits DEF TicksInv
<1>2. \A x \in T : x \in usable /\ s <= x.ts
  <2> SUFFICES ASSUME NEW x \in T, x.ts < s PROVE FALSE
    BY <1>1 DEF Tick
  <2>1. x \in usable /\ x.ts \in times /\ TickOf(x.ts) = TickOf(s)
    BY DEF Tick, TickOf
  <2>2. s - x.ts <= RoundMs
    BY <1>1, <2>1, CloseIsOneTick
  <2>3. s - x.ts > RoundMs
    BY <2>1 DEF First
  <2>4. QED
    BY <1>1, <2>1, <2>2, <2>3
<1>3. T = Within(usable, s, RoundMs)
  <2>1. ASSUME NEW x \in T
        PROVE  x \in Within(usable, s, RoundMs)
    <3>1. x \in usable /\ s <= x.ts /\ TickOf(x.ts) = TickOf(s)
      BY <1>2 DEF Tick, TickOf
    <3>2. x.ts - s <= RoundMs
      BY <1>1, <3>1, CloseIsOneTick
    <3>3. x.ts <= s + RoundMs
      BY <1>1, <3>1, <3>2
    <3>4. QED
      BY <3>1, <3>3 DEF Within
  <2>2. ASSUME NEW x \in Within(usable, s, RoundMs)
        PROVE  x \in T
    <3>1. x \in usable /\ s <= x.ts /\ x.ts <= s + RoundMs
      BY DEF Within
    <3>2. x.ts - s <= RoundMs
      BY <1>1, <3>1
    <3>3. TickOf(x.ts) = TickOf(s)
      BY <1>1, <3>1, <3>2, CloseIsOneTick
    <3>4. QED
      BY <3>1, <3>3 DEF Tick, TickOf
  <2>3. QED
    BY <2>1, <2>2
<1>4. s = Min({x.ts : x \in T})
  <2> DEFINE S == {x.ts : x \in T}
  <2>1. s \in S
    BY DEF Tick
  <2>2. \A y \in S : s <= y /\ y \in Nat
    BY <1>1, <1>2
  <2> HIDE DEF S, T, k
  <2>3. \A z \in S : (\A y \in S : z <= y) => z = s
    BY <1>1, <2>1, <2>2
  <2>4. Min(S) = s
    BY <2>1, <2>2, <2>3 DEF Min
  <2>5. QED
    BY <2>4 DEF S
<1>5. RoundVotes(usable, s, RoundMs) = Pill(usable, k)
  <2> DEFINE D == {x.region : x \in T}
             v == RoundVotes(usable, s, RoundMs)
             p == Pill(usable, k)
  <2>1. usable \in SUBSET Result(Probes) /\ \A x, y \in usable : SameRow(x, y) => x = y
    BY <1>1 DEF RowsInv
  <2>2. /\ v \in [Voters(usable, s, RoundMs) -> Cast]
        /\ \A r \in Voters(usable, s, RoundMs) : \E x \in Within(usable, s, RoundMs) :
             /\ x.region = r /\ v[r] = x.status
             /\ \A y \in Within(usable, s, RoundMs) : y.region = r => y.ts <= x.ts
    BY <1>1, <2>1, RoundVotesAre
  <2>3. Voters(usable, s, RoundMs) = D
    BY <1>3 DEF Voters
  <2>4. p \in [D -> Cast] /\ \A x \in T : p[x.region] = x.status
    BY PillIs
  <2> HIDE DEF D, v, p, T, k
  <2>5. \A r \in D : v[r] = p[r]
    BY <1>3, <2>2, <2>3, <2>4
  <2>6. v = p
    BY <2>2, <2>3, <2>4, <2>5
  <2>7. QED
    BY <2>6 DEF v, p
<1>6. QED
  BY <1>4, <1>5

\* Every tick with a row begins a round.
LEMMA EveryTickStarts ==
  ASSUME RowsInv, TicksInv, NEW usable \in SUBSET rows, NEW x \in usable
  PROVE  LET times == {y.ts : y \in usable}
         IN  /\ Starts(times, RoundMs) = {t \in times : First(times, RoundMs, t)}
             /\ \E s \in times : First(times, RoundMs, s) /\ s \div Interval = x.ts \div Interval
<1> DEFINE times == {y.ts : y \in usable}
<1>1. \A t \in times : t \in Instants /\ t \in Nat
  BY CloseIsOneTick DEF TicksInv
<1>2. times \in SUBSET Nat /\ RoundMs \in Nat /\ x.ts \in times
  BY <1>1, RoundFits
<1> HIDE DEF times
<1>3. ASSUME NEW s \in times, NEW t \in times, NEW u \in times,
             s < t, t < u, t - s <= RoundMs, u - t <= RoundMs
      PROVE  u - s <= RoundMs
  <2>1. s \in Nat /\ t \in Nat /\ u \in Nat /\ s \in Instants /\ t \in Instants /\ u \in Instants
    BY <1>1
  <2>2. TickOf(s) = TickOf(t) /\ TickOf(t) = TickOf(u)
    BY <1>3, <2>1, CloseIsOneTick
  <2>3. s <= u
    BY <1>3, <2>1
  <2>4. QED
    BY <2>1, <2>2, <2>3, CloseIsOneTick
<1>4. Starts(times, RoundMs) = {t \in times : First(times, RoundMs, t)}
  BY <1>2, <1>3, StartsAreFirsts
<1>5. \E s \in times : First(times, RoundMs, s) /\ s \div Interval = x.ts \div Interval
  <2>1. CASE First(times, RoundMs, x.ts)
    BY <1>2, <2>1
  <2>2. CASE ~ First(times, RoundMs, x.ts)
    <3>1. PICK m \in times : m < x.ts /\ x.ts - m <= RoundMs /\ First(times, RoundMs, m)
      BY <1>2, <1>3, <2>2, FirstExists
    <3>2. m <= x.ts
      <4>1. m \in Nat /\ x.ts \in Nat
        BY <1>1, <1>2
      <4>2. QED
        BY <3>1, <4>1
    <3>3. TickOf(m) = TickOf(x.ts)
      BY <1>1, <1>2, <3>1, <3>2, CloseIsOneTick
    <3>4. QED
      BY <3>1, <3>3 DEF TickOf
  <2>3. QED
    BY <2>1, <2>2
<1>6. QED
  BY <1>4, <1>5 DEF times

\* The rows of one region are counted one by one, and each is its own tick.
LEMMA RowIsTick ==
  ASSUME RowsInv, TicksInv, NEW usable \in SUBSET rows, NEW x \in usable,
         \A y \in usable : y.region = x.region, NEW confirm \in Int
  PROVE  /\ x.ts = Min({y.ts : y \in Tick(usable, x.ts \div Interval)})
         /\ ConsensusStatus(Pill(usable, x.ts \div Interval), confirm) = x.status
<1> DEFINE k == x.ts \div Interval
           T == Tick(usable, k)
           S == {y.ts : y \in T}
           p == Pill(usable, k)
<1>1. x.status \in Cast /\ x.ts \in Nat
  BY DEF RowsInv, Result
<1>2. T = {x}
  BY DEF Tick, TicksInv, TickOf
<1>3. S = {x.ts} /\ {y.region : y \in T} = {x.region}
  BY <1>2
<1>4. x.ts = Min(S)
  <2> HIDE DEF S
  <2>1. QED
    BY <1>1, <1>3 DEF Min
<1>5. p \in [{x.region} -> Cast] /\ p[x.region] = x.status
  <2>1. /\ p \in [{y.region : y \in T} -> Cast]
        /\ \A y \in T : p[y.region] = y.status
    BY PillIs
  <2> HIDE DEF p, T
  <2>2. QED
    BY <1>2, <1>3, <2>1
<1>6. ConsensusStatus(p, confirm) = x.status
  <2> HIDE DEF p
  <2>1. IsFiniteSet({x.region}) /\ {x.region} # {} /\ \A r \in {x.region} : p[r] = x.status
    BY <1>5, FS_Singleton
  <2>2. QED
    BY <1>1, <1>5, <2>1, UnanimityDecides
<1>7. QED
  BY <1>4, <1>6

(***************************************************************************)
(* collapseToRounds counts ticks: one unit for every tick that has a row   *)
(* left, at its earliest instant, with the verdict the status pill would   *)
(* have given the same rows.                                               *)
(***************************************************************************)
THEOREM UnitsAreTicks ==
  ASSUME RowsInv, TicksInv, NEW usable \in SUBSET rows, NEW confirm \in Int
  PROVE  {[at |-> u.at, status |-> u.status] : u \in Units(usable, RoundMs, confirm)}
         = {[at |-> Min({x.ts : x \in Tick(usable, k)}),
             status |-> ConsensusStatus(Pill(usable, k), confirm)] :
              k \in {x.ts \div Interval : x \in usable}}
<1> DEFINE times == {x.ts : x \in usable}
           regions == {x.region : x \in usable}
           units == Units(usable, RoundMs, confirm)
           seen(u) == [at |-> u.at, status |-> u.status]
           tick(k) == [at |-> Min({x.ts : x \in Tick(usable, k)}),
                       status |-> ConsensusStatus(Pill(usable, k), confirm)]
           round(s) == [at |-> s, region |-> "all",
                        status |-> ConsensusStatus(RoundVotes(usable, s, RoundMs), confirm)]
           single(x) == [at |-> x.ts, region |-> x.region, status |-> x.status]
           firsts == {t \in times : First(times, RoundMs, t)}
<1>1. RoundMs > 0 /\ RoundMs \in Nat
  BY RoundFits
<1>2. CASE Cardinality(regions) > 1
  <2>1. units = {round(s) : s \in Starts(times, RoundMs)}
    BY <1>1, <1>2 DEF Units, RoundStarts
  <2>2. usable # {} => Starts(times, RoundMs) = firsts
    BY EveryTickStarts
  <2>3. usable # {}
    BY <1>2, FS_EmptySet
  <2>4. units = {round(s) : s \in firsts}
    BY <2>1, <2>2, <2>3
  <2>5. ASSUME NEW s \in firsts
        PROVE  /\ \E k \in {x.ts \div Interval : x \in usable} : s \div Interval = k
               /\ seen(round(s)) = tick(s \div Interval)
    <3>1. PICK x \in usable : x.ts = s
      OBVIOUS
    <3>2. /\ s = Min({y.ts : y \in Tick(usable, s \div Interval)})
          /\ RoundVotes(usable, s, RoundMs) = Pill(usable, s \div Interval)
      BY RoundIsTick
    <3>3. seen(round(s)) =
            [at |-> s, status |-> ConsensusStatus(RoundVotes(usable, s, RoundMs), confirm)]
      OBVIOUS
    <3>4. QED
      BY <3>1, <3>2, <3>3
  <2>6. ASSUME NEW x \in usable
        PROVE  \E s \in firsts : s \div Interval = x.ts \div Interval
    BY EveryTickStarts
  <2> HIDE DEF firsts, tick, round, times, regions, units
  <2>7. ASSUME NEW u \in units
        PROVE  \E k \in {x.ts \div Interval : x \in usable} : seen(u) = tick(k)
    <3>1. PICK s \in firsts : u = round(s)
      BY <2>4
    <3> HIDE DEF seen
    <3>2. QED
      BY <2>5, <3>1
  <2>8. ASSUME NEW k \in {x.ts \div Interval : x \in usable}
        PROVE  \E u \in units : seen(u) = tick(k)
    <3>1. PICK x \in usable : k = x.ts \div Interval
      OBVIOUS
    <3>2. PICK s \in firsts : s \div Interval = k
      BY <2>6, <3>1
    <3>3. round(s) \in units
      BY <2>4, <3>2
    <3> HIDE DEF seen
    <3>4. QED
      BY <2>5, <3>2, <3>3
  <2> HIDE DEF seen
  <2>9. {seen(u) : u \in units} = {tick(k) : k \in {x.ts \div Interval : x \in usable}}
    BY <2>7, <2>8
  <2>10. QED
    BY <2>9 DEF seen, tick, units
<1>3. CASE ~ (Cardinality(regions) > 1)
  <2>1. units = {single(x) : x \in usable}
    BY <1>3 DEF Units
  <2>2. \A x, y \in usable : x.region = y.region
    <3>1. regions \subseteq Probes
      BY DEF RowsInv, Result
    <3>2. IsFiniteSet(regions)
      BY <3>1, VotesAssumption, FS_Subset
    <3> HIDE DEF regions
    <3>3. Cardinality(regions) = 0 \/ Cardinality(regions) = 1
      BY <1>3, <3>2, FS_CardinalityType
    <3>4. regions = {} \/ \E r : regions = {r}
      BY <3>2, <3>3, FS_EmptySet, FS_Singleton
    <3>5. \A r, q \in regions : r = q
      BY <3>4
    <3>6. QED
      BY <3>5 DEF regions
  <2>3. ASSUME NEW x \in usable
        PROVE  seen(single(x)) = tick(x.ts \div Interval)
    <3>1. \A y \in usable : y.region = x.region
      BY <2>2
    <3>2. /\ x.ts = Min({y.ts : y \in Tick(usable, x.ts \div Interval)})
          /\ ConsensusStatus(Pill(usable, x.ts \div Interval), confirm) = x.status
      BY <3>1, RowIsTick
    <3>3. seen(single(x)) = [at |-> x.ts, status |-> x.status]
      OBVIOUS
    <3>4. QED
      BY <3>2, <3>3
  <2> HIDE DEF tick, single, units, seen
  <2>4. {seen(u) : u \in units} = {tick(k) : k \in {x.ts \div Interval : x \in usable}}
    BY <2>1, <2>3
  <2>5. QED
    BY <2>4 DEF seen, tick, units
<1>4. QED
  BY <1>2, <1>3

(***************************************************************************)
(* "The two finally agree" (lib/uptime.ts), in every history: rounds are   *)
(* ticks, whatever maintenance or the first day cut off.                   *)
(***************************************************************************)
THEOREM EveryRoundIsATick == Spec => []RoundsAreTicks
<1>1. VotesInv /\ RowsInv /\ TicksInv => RoundsAreTicks
  <2> SUFFICES ASSUME VotesInv, RowsInv, TicksInv PROVE RoundsAreTicks
    OBVIOUS
  <2> DEFINE usable == Usable(rows, asked.maintenance, asked.days)
  <2>1. usable \in SUBSET rows /\ min \in Int
    BY DEF Usable, VotesInv
  <2> HIDE DEF usable
  <2>2. {[at |-> u.at, status |-> u.status] : u \in Units(usable, RoundMs, min)}
        = {[at |-> Min({x.ts : x \in Tick(usable, k)}),
            status |-> ConsensusStatus(Pill(usable, k), min)] :
             k \in {x.ts \div Interval : x \in usable}}
    BY <2>1, UnitsAreTicks
  <2>3. QED
    BY <2>2 DEF RoundsAreTicks, Tick, Pill, usable
<1>2. QED
  BY <1>1, VotesThroughout, RowsThroughout, TicksThroughout, PTL
=============================================================================
