------------------------ MODULE MonitorConsensusProofs ------------------------
(***************************************************************************)
(* Proofs about MonitorConsensus for every set of evaluations, pushes and  *)
(* regions, any threshold, freshness and maintenance plan, and with or     *)
(* without overlapping evaluations where a theorem does not say otherwise. *)
(***************************************************************************)
EXTENDS MonitorConsensus, FiniteSetTheorems, WellFoundedInduction, TLAPS

USE DEF Never, Cast, Verdicts, Owners, Events, EvalPCs, AgentPCs

(***************************************************************************)
(* Types of the operators the actions are built from.                      *)
(***************************************************************************)
\* Jobs and pushes that are over are at rest, and well typed.
LEMMA IdleTypes == EvalIdle \in EvalState /\ AgentIdle \in AgentState
BY ConsensusAssumption DEF EvalIdle, AgentIdle, EvalState, AgentState

\* consecutive_failures counts up to the bound and stays there.
LEMMA BumpType ==
  ASSUME NEW n \in 0 .. FailureCap
  PROVE  Bump(n) \in 0 .. FailureCap
BY ConsensusAssumption DEF Bump

\* The newest result of each region only ever gets newer.
LEMMA RecordedType ==
  ASSUME results \in [Regions -> Result], NEW r \in Regions, NEW at \in Nat, NEW s \in Cast
  PROVE  /\ Recorded(r, at, s) \in [Regions -> Result]
         /\ \A q \in Regions : Recorded(r, at, s)[q].at >= results[q].at
BY DEF Recorded, Result

\* The electorate is a finite set of regions with a fresh enough result, all
\* of them configured or none of them.
LEMMA VotersType ==
  ASSUME results \in [Regions -> Result], NEW at \in Nat
  PROVE  /\ Voters(at) \subseteq Regions
         /\ \A r \in Voters(at) : results[r].at # Never /\ results[r].at >= at - Freshness
         /\ Voters(at) \subseteq Configured \/ Voters(at) \cap Configured = {}
         /\ IsFiniteSet(Voters(at)) /\ Cardinality(Voters(at)) \in Nat
<1>1. /\ Voters(at) \subseteq Regions
      /\ \A r \in Voters(at) : results[r].at # Never /\ results[r].at >= at - Freshness
      /\ Voters(at) \subseteq Configured \/ Voters(at) \cap Configured = {}
  BY DEF Voters, Electorate
<1>2. QED
  BY <1>1, ConsensusAssumption, FS_Subset, FS_CardinalityType

\* A verdict is one of the four, and 'down' only with the required votes.
LEMMA VerdictType ==
  ASSUME NEW votes, NEW min
  PROVE  /\ ConsensusStatus(votes, min) \in Verdicts
         /\ ConsensusStatus(votes, min) = "down" =>
              Cardinality(Saw(votes, "down")) >= Required(Cardinality(DOMAIN votes), min)
BY DEF ConsensusStatus

\* After its write an evaluation looks for its incident, opens one, or ends.
LEMMA AfterWriteType ==
  ASSUME NEW st \in EvalState
  PROVE  /\ AfterWrite(st) \in EvalState
         /\ AfterWrite(st).pc \in {"idle", "find", "open"}
         /\ AfterWrite(st).todo = {}
         /\ AfterWrite(st).pc # "idle" => AfterWrite(st).at = st.at
         /\ AfterWrite(st).pc = "open" =>
              /\ st.next = "down" /\ st.prev # "down"
              /\ AfterWrite(st).down = st.down /\ AfterWrite(st).voters = st.voters
         /\ AfterWrite(st).pc = "find" <=> st.next = "up"
         /\ st.next = "down" /\ st.prev # "down" => AfterWrite(st).pc = "open"
<1>1. CASE st.next = "up"
  BY <1>1, IdleTypes DEF AfterWrite, ToFind, EvalState, EvalIdle
<1>2. CASE st.next = "down" /\ st.prev # "down"
  BY <1>2, IdleTypes DEF AfterWrite, ToOpen, EvalState, EvalIdle
<1>3. CASE st.next # "up" /\ ~(st.next = "down" /\ st.prev # "down")
  BY <1>3, IdleTypes DEF AfterWrite, EvalState, EvalIdle
<1>4. QED
  BY <1>1, <1>2, <1>3

\* Ids below a bound: a nonempty set of incidents has a newest one.
LEMMA NewestExists ==
  ASSUME NEW S \in SUBSET Incident, S # {}, NEW n \in Nat, \A i \in S : i.id < n
  PROVE  NewestOf(S) \in S
<1> DEFINE gaps == {n - i.id : i \in S}
           less == {ss \in Nat \X Nat : ss[1] < ss[2]}
<1>1. gaps \in SUBSET Nat /\ gaps # {}
  BY DEF Incident
<1>2. IsWellFoundedOn(less, Nat)
  BY NatLessThanWellFounded DEF OpToRel
<1>3. \A i \in S : i.id \in Nat /\ n - i.id \in gaps
  BY DEF Incident
<1>4. \A g \in gaps : \E i \in S : g = n - i.id
  OBVIOUS
<1> HIDE DEF gaps
<1>5. PICK g \in gaps : \A h \in gaps : ~ (<<h, g>> \in less)
  <2> HIDE DEF less
  <2>1. QED
    BY <1>1, <1>2, WFMin
<1>6. ASSUME NEW h \in gaps PROVE g <= h
  <2>1. g \in Nat /\ h \in Nat
    BY <1>1
  <2>2. h < g => <<h, g>> \in less
    BY <2>1
  <2>3. QED
    BY <1>5, <2>1, <2>2
<1>7. PICK i \in S : g = n - i.id
  BY <1>4
<1>8. \A j \in S : j.id <= i.id
  BY <1>3, <1>6, <1>7
<1>9. QED
  BY <1>8 DEF NewestOf

(***************************************************************************)
(* Type correctness.                                                       *)
(***************************************************************************)
\* Ids are handed out once, in ascending order (AUTOINCREMENT).
IdsFresh ==
  /\ \A i \in incidents : i.id < nextId
  /\ \A i, j \in incidents : i.id = j.id => i = j

TypeInv == TypeOK /\ IdsFresh

\* A result that is filed changes the results and a bound, and nothing else.
LEMMA FileType ==
  ASSUME TypeOK, NEW r \in Regions, NEW s \in Cast, File(r, s)
  PROVE  /\ results' \in [Regions -> Result]
         /\ \A q \in Regions : results'[q].at >= results[q].at
         /\ left' \in [Events -> Nat]
         /\ UNCHANGED <<now, monitor, incidents, nextId, eval, agent>>
<1>1. PICK at \in {t \in 1 .. now : now - t <= MaxLag} : results' = Recorded(r, at, s)
  BY DEF File
<1>2. at \in Nat
  BY DEF TypeOK
<1>3. left' \in [Events -> Nat]
  BY DEF File, Spend, TypeOK
<1>4. QED
  BY <1>1, <1>2, <1>3, RecordedType DEF File, TypeOK

\* A new incident takes the next id.
LEMMA CreateType ==
  ASSUME TypeInv, NEW o \in Owners, NEW d \in SUBSET Regions, NEW n \in Nat, Create(o, d, n)
  PROVE  /\ incidents' \in SUBSET Incident /\ nextId' \in Nat
         /\ IdsFresh'
BY DEF TypeInv, TypeOK, IdsFresh, Create, Incident

\* Closing incidents keeps the ids as they are.
LEMMA CloseType ==
  ASSUME TypeInv, incidents' \subseteq incidents, nextId' = nextId
  PROVE  incidents' \in SUBSET Incident /\ IdsFresh'
BY DEF TypeInv, TypeOK, IdsFresh

\* The job's own incident that it looks up is one that is open.
LEMMA OwnFound ==
  ASSUME TypeInv, OwnOpen # {}
  PROVE  /\ NewestOf(OwnOpen) \in incidents
         /\ NewestOf(OwnOpen).owner = "consensus"
         /\ NewestOf(OwnOpen).id \in Nat /\ NewestOf(OwnOpen).id < nextId
<1>1. /\ OwnOpen \in SUBSET Incident /\ OwnOpen \subseteq incidents
      /\ \A i \in OwnOpen : i.owner = "consensus" /\ i.id < nextId
  BY DEF TypeInv, TypeOK, IdsFresh, OwnOpen, OpenOf
<1>2. nextId \in Nat
  BY DEF TypeInv, TypeOK
<1>3. NewestOf(OwnOpen) \in OwnOpen
  BY <1>1, <1>2, NewestExists
<1>4. QED
  BY <1>1, <1>3 DEF Incident

\* What an evaluation holds after it has read the votes.
LEMMA ReadVotesType ==
  ASSUME TypeOK, NEW e \in Evaluators, ReadVotes(e)
  PROVE  \/ eval' = [eval EXCEPT ![e] = EvalIdle]
         \/ \E st \in EvalState :
              /\ eval' = [eval EXCEPT ![e] = st]
              /\ st.pc = "maintenance" /\ st.todo = eval[e].todo
              /\ st.prev = eval[e].prev /\ st.at = eval[e].at
              /\ Voters(st.at) # {}
              /\ st.down \subseteq Voters(st.at)
              /\ st.next = "down" => Cardinality(st.down) >= Required(st.voters, MinRegions)
<1> DEFINE votes == Votes(eval[e].at)
           st == [eval[e] EXCEPT !.pc = "maintenance",
                                 !.next = ConsensusStatus(votes, MinRegions),
                                 !.down = Saw(votes, "down"),
                                 !.voters = Cardinality(DOMAIN votes)]
<1>1. eval[e] \in EvalState /\ eval[e].at \in Nat
  BY DEF TypeOK, EvalState
<1>2. DOMAIN votes = Voters(eval[e].at)
  BY DEF Votes
<1>3. /\ Voters(eval[e].at) \subseteq Regions
      /\ Cardinality(Voters(eval[e].at)) \in Nat
  BY <1>1, VotersType DEF TypeOK
<1>4. Saw(votes, "down") \subseteq Voters(eval[e].at)
  BY <1>2 DEF Saw
<1>5. \/ eval' = [eval EXCEPT ![e] = EvalIdle]
      \/ DOMAIN votes # {} /\ eval' = [eval EXCEPT ![e] = st]
  BY DEF ReadVotes, Done, Go
<1>6. /\ ConsensusStatus(votes, MinRegions) \in Verdicts
      /\ ConsensusStatus(votes, MinRegions) = "down" =>
           Cardinality(Saw(votes, "down")) >= Required(Cardinality(DOMAIN votes), MinRegions)
  BY VerdictType
<1> HIDE DEF votes
<1>7. /\ st \in EvalState
      /\ st.pc = "maintenance" /\ st.todo = eval[e].todo
      /\ st.prev = eval[e].prev /\ st.at = eval[e].at
      /\ st.down = Saw(votes, "down") /\ st.voters = Cardinality(DOMAIN votes)
      /\ st.next = ConsensusStatus(votes, MinRegions)
  BY <1>1, <1>2, <1>3, <1>4, <1>6 DEF EvalState
<1> HIDE DEF st
<1>8. QED
  BY <1>2, <1>4, <1>5, <1>6, <1>7

\* Every statement of the consensus job keeps the types.
LEMMA EvaluateType ==
  ASSUME TypeInv, NEW e \in Evaluators, Evaluate(e)
  PROVE  TypeInv'
<1> USE DEF TypeInv
<1>1. eval[e] \in EvalState
  BY DEF TypeOK
<1>2. ASSUME eval' = eval \/ \E st \in EvalState : eval' = [eval EXCEPT ![e] = st]
      PROVE  eval' \in [Evaluators -> EvalState]
  BY <1>2 DEF TypeOK
<1>3. CASE StartEvaluation(e)
  <2> DEFINE st == [EvalIdle EXCEPT !.pc = "votes", !.at = now,
                                    !.prev = monitor.status, !.failures = monitor.failures]
  <2>1. st \in EvalState
    BY IdleTypes DEF EvalState, TypeOK
  <2> HIDE DEF st
  <2>2. eval' = [eval EXCEPT ![e] = st] \/ eval' = [eval EXCEPT ![e] = EvalIdle]
    BY <1>3 DEF StartEvaluation, Go, Done, st
  <2>3. QED
    BY <1>2, <1>3, <2>1, <2>2, IdleTypes DEF StartEvaluation, TypeOK, IdsFresh
<1>4. CASE ReadVotes(e)
  BY <1>2, <1>4, ReadVotesType, IdleTypes DEF ReadVotes, TypeOK, IdsFresh
<1>5. CASE CheckMaintenance(e)
  <2> DEFINE st == [eval[e] EXCEPT !.pc = "write"]
  <2>1. st \in EvalState
    BY <1>1 DEF EvalState
  <2> HIDE DEF st
  <2>2. eval' = [eval EXCEPT ![e] = st] \/ eval' = [eval EXCEPT ![e] = EvalIdle]
    BY <1>5 DEF CheckMaintenance, Go, Done, st
  <2>3. QED
    BY <1>2, <1>5, <2>1, <2>2, IdleTypes DEF CheckMaintenance, TypeOK, IdsFresh
<1>6. CASE WriteVerdict(e)
  <2>1. /\ NextFailures(eval[e]) \in 0 .. FailureCap /\ eval[e].next \in Verdicts
    BY <1>1, BumpType, ConsensusAssumption DEF NextFailures, EvalState
  <2>2. monitor' \in [enabled: BOOLEAN, status: Verdicts, failures: 0 .. FailureCap]
    BY <1>6, <2>1 DEF WriteVerdict, TypeOK
  <2>3. AfterWrite(eval[e]) \in EvalState
    BY <1>1, AfterWriteType
  <2>4. QED
    BY <1>2, <1>6, <2>2, <2>3 DEF WriteVerdict, Go, TypeOK, IdsFresh
<1>7. CASE FindOwnIncident(e)
  <2> DEFINE st == [eval[e] EXCEPT !.pc = "resolve", !.todo = {NewestOf(OwnOpen).id}]
  <2>1. OwnOpen # {} => st \in EvalState
    BY <1>1, OwnFound DEF EvalState
  <2> HIDE DEF st
  <2>2. \/ OwnOpen # {} /\ eval' = [eval EXCEPT ![e] = st]
        \/ eval' = [eval EXCEPT ![e] = EvalIdle]
    BY <1>7 DEF FindOwnIncident, Go, Done, st
  <2>3. QED
    BY <1>2, <1>7, <2>1, <2>2, IdleTypes DEF FindOwnIncident, TypeOK, IdsFresh
<1>8. CASE ResolveOwnIncident(e)
  <2>1. incidents' \in SUBSET Incident /\ IdsFresh'
    BY <1>8, CloseType DEF ResolveOwnIncident
  <2>2. eval' \in [Evaluators -> EvalState]
    BY <1>2, <1>8, IdleTypes DEF ResolveOwnIncident, Done, Go
  <2>3. QED
    BY <1>8, <2>1, <2>2 DEF ResolveOwnIncident, TypeOK
<1>9. CASE OpenOwnIncident(e)
  <2>1. incidents' \in SUBSET Incident /\ nextId' \in Nat /\ IdsFresh'
    BY <1>1, <1>9, CreateType DEF OpenOwnIncident, EvalState
  <2>2. eval' \in [Evaluators -> EvalState]
    BY <1>2, <1>9, IdleTypes DEF OpenOwnIncident, Done, Go
  <2>3. QED
    BY <1>9, <2>1, <2>2 DEF OpenOwnIncident, TypeOK
<1>10. QED
  BY <1>3, <1>4, <1>5, <1>6, <1>7, <1>8, <1>9 DEF Evaluate

\* So does every statement of the metrics path.
LEMMA LegacyType ==
  ASSUME TypeInv, NEW a \in Agents,
         \/ \E s, f \in {"up", "degraded"} : StartLegacyPush(a, s, f)
         \/ LegacyPush(a)
  PROVE  TypeInv'
<1> USE DEF TypeInv
<1>1. agent[a] \in AgentState
  BY DEF TypeOK
<1>2. ASSUME \E st \in AgentState : agent' = [agent EXCEPT ![a] = st]
      PROVE  agent' \in [Agents -> AgentState]
  BY <1>2 DEF TypeOK
<1>3. ASSUME NEW s \in {"up", "degraded"}, NEW f \in {"up", "degraded"}, StartLegacyPush(a, s, f)
      PROVE  TypeInv'
  <2> DEFINE st == [AgentIdle EXCEPT !.pc = "write", !.at = now, !.prev = monitor.status,
                                     !.fleet = f, !.failures = monitor.failures]
  <2>1. st \in AgentState
    BY IdleTypes DEF AgentState, TypeOK
  <2> HIDE DEF st
  <2>2. agent' \in [Agents -> AgentState]
    BY <1>2, <1>3, <2>1 DEF StartLegacyPush, AgentGo, st
  <2>3. results' \in [Regions -> Result]
    BY <1>3, RecordedType, ConsensusAssumption DEF StartLegacyPush, TypeOK
  <2>4. left' \in [Events -> Nat]
    BY <1>3 DEF StartLegacyPush, Spend, TypeOK
  <2>5. QED
    BY <1>3, <2>2, <2>3, <2>4 DEF StartLegacyPush, TypeOK, IdsFresh
<1>4. CASE WriteFleetStatus(a)
  <2>1. /\ Bump(agent[a].failures) \in 0 .. FailureCap
        /\ agent[a].fleet \in {"up", "degraded"}
    BY <1>1, BumpType DEF AgentState
  <2>2. monitor' \in [enabled: BOOLEAN, status: Verdicts, failures: 0 .. FailureCap]
    <3> DEFINE n == IF agent[a].fleet = "up" THEN 0 ELSE Bump(agent[a].failures)
    <3>1. n \in 0 .. FailureCap
      BY <2>1, ConsensusAssumption
    <3>2. monitor' = [monitor EXCEPT !.status = agent[a].fleet, !.failures = n]
      BY <1>4 DEF WriteFleetStatus
    <3> HIDE DEF n
    <3>3. QED
      BY <2>1, <3>1, <3>2 DEF TypeOK
  <2>3. [agent[a] EXCEPT !.pc = "clear"] \in AgentState
    BY <1>1 DEF AgentState
  <2>4. QED
    BY <1>2, <1>4, <2>2, <2>3 DEF WriteFleetStatus, AgentGo, TypeOK, IdsFresh
<1>5. CASE ClearMissedPush(a)
  <2>1. incidents' \in SUBSET Incident /\ IdsFresh'
    BY <1>5, CloseType DEF ClearMissedPush
  <2>2. [agent[a] EXCEPT !.pc = "edge"] \in AgentState
    BY <1>1 DEF AgentState
  <2>3. QED
    BY <1>2, <1>5, <2>1, <2>2 DEF ClearMissedPush, AgentGo, TypeOK
<1>6. CASE FleetEdge(a)
  <2>1. incidents' \in SUBSET Incident /\ nextId' \in Nat /\ IdsFresh'
    <3>1. ASSUME Create("server_metrics", {}, 0)
          PROVE  incidents' \in SUBSET Incident /\ nextId' \in Nat /\ IdsFresh'
      BY <3>1, CreateType
    <3>2. ASSUME incidents' \subseteq incidents, nextId' = nextId
          PROVE  incidents' \in SUBSET Incident /\ nextId' \in Nat /\ IdsFresh'
      BY <3>2, CloseType DEF TypeOK
    <3>3. QED
      BY <1>6, <3>1, <3>2 DEF FleetEdge
  <2>2. agent' \in [Agents -> AgentState]
    BY <1>2, <1>6, IdleTypes DEF FleetEdge, AgentGo
  <2>3. QED
    BY <1>6, <2>1, <2>2 DEF FleetEdge, TypeOK
<1>7. QED
  BY <1>3, <1>4, <1>5, <1>6 DEF LegacyPush

(***************************************************************************)
(* Every row, result, incident and process stays well typed, and incident  *)
(* ids are never handed out twice, however jobs, pushes, crashes and       *)
(* people interleave.                                                      *)
(***************************************************************************)
LEMMA IdsStayFresh == Spec => []TypeInv
<1>1. Init => TypeInv
  BY IdleTypes, ConsensusAssumption DEF Init, TypeInv, TypeOK, IdsFresh, Result
<1>2. TypeInv /\ [Next]_vars => TypeInv'
  <2> SUFFICES ASSUME TypeInv, [Next]_vars PROVE TypeInv'
    OBVIOUS
  <2>1. ASSUME NEW r \in Regions, NEW s \in Cast, File(r, s) PROVE TypeInv'
    BY <2>1, FileType DEF TypeInv, TypeOK, IdsFresh
  <2>2. ASSUME NEW e \in Evaluators, Crash(e) PROVE TypeInv'
    <3>1. left' \in [Events -> Nat] /\ eval' \in [Evaluators -> EvalState]
      BY <2>2, IdleTypes DEF Crash, Spend, Done, Go, TypeInv, TypeOK
    <3>2. QED
      BY <2>2, <3>1 DEF Crash, TypeInv, TypeOK, IdsFresh
  <2>3. ASSUME NEW a \in Agents, CrashLegacy(a) PROVE TypeInv'
    <3>1. left' \in [Events -> Nat] /\ agent' \in [Agents -> AgentState]
      BY <2>3, IdleTypes DEF CrashLegacy, Spend, AgentGo, TypeInv, TypeOK
    <3>2. QED
      BY <2>3, <3>1 DEF CrashLegacy, TypeInv, TypeOK, IdsFresh
  <2>4. CASE MissedPush
    <3>1. left' \in [Events -> Nat]
      BY <2>4 DEF MissedPush, Spend, TypeInv, TypeOK
    <3>2. incidents' \in SUBSET Incident /\ nextId' \in Nat /\ IdsFresh'
      BY <2>4, CreateType DEF MissedPush
    <3>3. QED
      BY <2>4, <3>1, <3>2 DEF MissedPush, TypeInv, TypeOK
  <2>5. CASE Advance
    BY <2>5 DEF Advance, TypeInv, TypeOK, IdsFresh
  <2>6. ASSUME NEW i \in incidents, ResolveByHand(i) PROVE TypeInv'
    <3>1. left' \in [Events -> Nat]
      BY <2>6 DEF ResolveByHand, Spend, TypeInv, TypeOK
    <3>2. incidents' \in SUBSET Incident /\ IdsFresh'
      BY <2>6, CloseType DEF ResolveByHand
    <3>3. QED
      BY <2>6, <3>1, <3>2 DEF ResolveByHand, TypeInv, TypeOK
  <2>7. CASE Toggle
    <3>1. left' \in [Events -> Nat]
      BY <2>7 DEF Toggle, Spend, TypeInv, TypeOK
    <3>2. QED
      BY <2>7, <3>1 DEF Toggle, TypeInv, TypeOK, IdsFresh
  <2>8. CASE UNCHANGED vars
    BY <2>8 DEF vars, TypeInv, TypeOK, IdsFresh
  <2>9. QED
    BY <2>1, <2>2, <2>3, <2>4, <2>5, <2>6, <2>7, <2>8, EvaluateType, LegacyType
       DEF Next, RecordCheck, IngestResult, Accepted
<1>3. QED
  BY <1>1, <1>2, PTL DEF Spec

\* Type correctness: through every check, job, push, crash and pause the row,
\* the results, the incidents and each process stay well typed.
THEOREM TypeCorrect == Spec => []TypeOK
BY IdsStayFresh, PTL DEF TypeInv

(***************************************************************************)
(* What an evaluation in flight holds.                                     *)
(*                                                                         *)
(* The three properties below are about one statement of the job, but      *)
(* whether it is safe depends on what the job read some statements before, *)
(* while other processes wrote.  HeldInv says what it still knows then.    *)
(***************************************************************************)
\* The incident it is about to close is its own, and stays so: ids are not
\* handed out again.
OwnHeld(st) ==
  \A n \in st.todo : n < nextId /\ \A i \in incidents : i.id = n => i.owner = "consensus"

Backed(down, voters) ==
  /\ Cardinality(down) >= Required(voters, MinRegions)
  /\ down \subseteq Configured \/ down \cap Configured = {}

\* A 'down' it has decided on was backed when the votes were read.
BackHeld(st) ==
  st.pc = "open" \/ (st.pc \in {"maintenance", "write"} /\ st.next = "down")
    => Backed(st.down, st.voters)

\* Past the votes, some region was heard of inside the window of its start.
Heard(at) == \E r \in Regions : results[r].at # Never /\ results[r].at >= at - Freshness
VoiceHeld(st) == st.pc \notin {"idle", "votes"} => Heard(st.at)

Held(st) == OwnHeld(st) /\ BackHeld(st) /\ VoiceHeld(st)

HeldInv == (\A e \in Evaluators : Held(eval[e])) /\ QuorumBacksEveryIncident

\* An evaluation at rest holds nothing.
LEMMA IdleHeld == Held(EvalIdle) /\ Held(EvalIdle)'
BY DEF EvalIdle, Held, OwnHeld, BackHeld, VoiceHeld

\* Newer results, fewer incidents and new ids take nothing away from it.
LEMMA HeldStays ==
  ASSUME TypeInv, results' \in [Regions -> Result], nextId' \in Nat, nextId' >= nextId,
         \A r \in Regions : results'[r].at >= results[r].at,
         \A i \in incidents' : i \in incidents \/ i.id >= nextId
  PROVE  \A st \in EvalState : Held(st) => Held(st)'
<1> SUFFICES ASSUME NEW st \in EvalState, Held(st) PROVE Held(st)'
  OBVIOUS
<1>1. OwnHeld(st)'
  <2> SUFFICES ASSUME NEW n \in st.todo
               PROVE  n < nextId' /\ \A i \in incidents' : i.id = n => i.owner = "consensus"
    BY DEF OwnHeld
  <2>1. /\ n \in Nat /\ n < nextId /\ nextId \in Nat
        /\ \A i \in incidents : i.id = n => i.owner = "consensus"
    BY DEF Held, OwnHeld, EvalState, TypeInv, TypeOK
  <2>2. QED
    BY <2>1
<1>2. BackHeld(st)'
  BY DEF Held, BackHeld, Backed
<1>3. VoiceHeld(st)'
  <2> SUFFICES ASSUME st.pc \notin {"idle", "votes"} PROVE Heard(st.at)'
    BY DEF VoiceHeld
  <2>1. PICK r \in Regions : results[r].at # Never /\ results[r].at >= st.at - Freshness
    BY DEF Held, VoiceHeld, Heard
  <2>2. /\ st.at \in Nat /\ Freshness \in Nat
        /\ results[r].at \in Nat /\ results'[r].at \in Nat /\ results'[r].at >= results[r].at
    BY ConsensusAssumption DEF EvalState, Result, TypeInv, TypeOK
  <2>3. results'[r].at # Never /\ results'[r].at >= st.at - Freshness
    BY <2>1, <2>2
  <2>4. QED
    BY <2>3 DEF Heard
<1>4. QED
  BY <1>1, <1>2, <1>3 DEF Held

\* The incidents that were backed stay backed, and one that opens has to be.
LEMMA QuorumStays ==
  ASSUME QuorumBacksEveryIncident,
         \A i \in incidents' : \/ i \in incidents \/ i.owner # "consensus"
                              \/ Backed(i.down, i.voters)
  PROVE  QuorumBacksEveryIncident'
BY DEF QuorumBacksEveryIncident, OpenOf, Backed

\* A step in which no evaluation takes on anything new.
LEMMA NothingNewHeld ==
  ASSUME TypeInv, TypeInv', HeldInv, nextId' >= nextId,
         \A r \in Regions : results'[r].at >= results[r].at,
         \A i \in incidents' : i \in incidents \/ (i.id >= nextId /\ i.owner # "consensus"),
         \A e \in Evaluators : eval'[e] = eval[e] \/ eval'[e] = EvalIdle
  PROVE  HeldInv'
<1>1. \A st \in EvalState : Held(st) => Held(st)'
  BY HeldStays DEF TypeInv, TypeOK
<1>2. ASSUME NEW e \in Evaluators PROVE Held(eval[e])'
  <2>1. eval[e] \in EvalState /\ eval'[e] \in EvalState
    BY DEF TypeInv, TypeOK
  <2>2. CASE eval'[e] = eval[e]
    BY <1>1, <2>1, <2>2 DEF HeldInv, Held, OwnHeld, BackHeld, Backed, VoiceHeld, Heard
  <2>3. CASE eval'[e] = EvalIdle
    BY <2>3, IdleHeld DEF Held, OwnHeld, BackHeld, Backed, VoiceHeld, Heard
  <2>4. QED
    BY <2>2, <2>3
<1>3. QuorumBacksEveryIncident'
  BY QuorumStays DEF HeldInv
<1>4. QED
  BY <1>2, <1>3 DEF HeldInv

\* A step of one evaluation that leaves results and ids alone: what the
\* others hold stays, and its own new state has to be held.
LEMMA OneMoves ==
  ASSUME TypeInv, TypeInv', HeldInv, NEW e \in Evaluators,
         results' = results, nextId' >= nextId,
         \A i \in incidents' : i \in incidents \/ i.id >= nextId,
         \A f \in Evaluators : f # e => eval'[f] = eval[f],
         Held(eval[e])', QuorumBacksEveryIncident'
  PROVE  HeldInv'
<1>1. \A st \in EvalState : Held(st) => Held(st)'
  <2>1. \A r \in Regions : results'[r].at >= results[r].at
    BY DEF TypeInv, TypeOK, Result
  <2>2. QED
    BY <2>1, HeldStays DEF TypeInv, TypeOK
<1>2. ASSUME NEW f \in Evaluators, f # e PROVE Held(eval[f])'
  <2>1. eval[f] \in EvalState /\ eval'[f] = eval[f]
    BY <1>2 DEF TypeInv, TypeOK
  <2>2. QED
    BY <1>1, <2>1 DEF HeldInv, Held, OwnHeld, BackHeld, Backed, VoiceHeld, Heard
<1>3. QED
  BY <1>2 DEF HeldInv

\* Every statement of the job keeps what the jobs in flight hold.
LEMMA EvaluateHeld ==
  ASSUME TypeInv, TypeInv', HeldInv, NEW e \in Evaluators, Evaluate(e)
  PROVE  HeldInv'
<1>1. /\ eval[e] \in EvalState /\ eval'[e] \in EvalState /\ Held(eval[e])
      /\ nextId \in Nat
  BY DEF TypeInv, TypeOK, HeldInv
<1>2. ASSUME NEW st, eval' = [eval EXCEPT ![e] = st]
      PROVE  eval'[e] = st /\ \A f \in Evaluators : f # e => eval'[f] = eval[f]
  BY <1>2 DEF TypeInv, TypeOK
<1>3. ASSUME UNCHANGED <<results, incidents, nextId>>, Held(eval[e])',
             \A f \in Evaluators : f # e => eval'[f] = eval[f]
      PROVE  HeldInv'
  <2>1. QuorumBacksEveryIncident'
    BY <1>3, QuorumStays DEF HeldInv
  <2>2. QED
    BY <1>1, <1>3, <2>1, OneMoves
<1>4. ASSUME eval' = [eval EXCEPT ![e] = EvalIdle], UNCHANGED <<results, incidents, nextId>>
      PROVE  HeldInv'
  <2>1. Held(eval[e])'
    BY <1>2, <1>4, IdleHeld DEF Held, OwnHeld, BackHeld, Backed, VoiceHeld, Heard
  <2>2. QED
    BY <1>2, <1>3, <1>4, <2>1
<1>5. CASE StartEvaluation(e)
  <2>1. UNCHANGED <<results, incidents, nextId>>
    BY <1>5 DEF StartEvaluation
  <2>2. CASE monitor.enabled
    <3> DEFINE st == [EvalIdle EXCEPT !.pc = "votes", !.at = now,
                                      !.prev = monitor.status, !.failures = monitor.failures]
    <3>1. st.pc = "votes" /\ st.todo = {}
      BY DEF EvalIdle
    <3> HIDE DEF st
    <3>2. eval' = [eval EXCEPT ![e] = st]
      BY <1>5, <2>2 DEF StartEvaluation, Go, st
    <3>3. Held(eval[e])'
      BY <1>2, <3>1, <3>2 DEF Held, OwnHeld, BackHeld, VoiceHeld
    <3>4. QED
      BY <1>2, <1>3, <2>1, <3>2, <3>3
  <2>3. CASE ~monitor.enabled
    BY <1>4, <1>5, <2>1, <2>3 DEF StartEvaluation, Done, Go
  <2>4. QED
    BY <2>2, <2>3
<1>6. CASE ReadVotes(e)
  <2>1. UNCHANGED <<results, incidents, nextId>>
    BY <1>6 DEF ReadVotes
  <2>2. CASE eval' = [eval EXCEPT ![e] = EvalIdle]
    BY <1>4, <2>1, <2>2
  <2>3. ASSUME NEW st \in EvalState,
               eval' = [eval EXCEPT ![e] = st],
               st.pc = "maintenance", st.todo = eval[e].todo,
               Voters(st.at) # {}, st.down \subseteq Voters(st.at),
               st.next = "down" => Cardinality(st.down) >= Required(st.voters, MinRegions)
        PROVE  HeldInv'
    <3>1. /\ Voters(st.at) \subseteq Regions
          /\ \A r \in Voters(st.at) : results[r].at # Never /\ results[r].at >= st.at - Freshness
          /\ Voters(st.at) \subseteq Configured \/ Voters(st.at) \cap Configured = {}
      BY <2>3, VotersType DEF EvalState, TypeInv, TypeOK
    <3>2. Heard(st.at) /\ (st.next = "down" => Backed(st.down, st.voters))
      BY <2>3, <3>1 DEF Heard, Backed
    <3>3. eval'[e] = st
      BY <1>2, <2>3
    <3>4. OwnHeld(eval[e])'
      BY <1>1, <2>1, <2>3, <3>3 DEF Held, OwnHeld
    <3>5. BackHeld(eval[e])'
      BY <2>3, <3>2, <3>3 DEF BackHeld, Backed
    <3>6. VoiceHeld(eval[e])'
      BY <2>1, <3>2, <3>3 DEF VoiceHeld, Heard
    <3>7. QED
      BY <1>2, <1>3, <2>1, <2>3, <3>4, <3>5, <3>6 DEF Held
  <2>4. QED
    BY <1>6, <2>2, <2>3, ReadVotesType DEF TypeInv
<1>7. CASE CheckMaintenance(e)
  <2> DEFINE st == [eval[e] EXCEPT !.pc = "write"]
  <2>1. UNCHANGED <<results, incidents, nextId>> /\ eval[e].pc = "maintenance"
    BY <1>7 DEF CheckMaintenance
  <2>2. /\ st.pc = "write" /\ st.todo = eval[e].todo /\ st.next = eval[e].next
        /\ st.down = eval[e].down /\ st.voters = eval[e].voters /\ st.at = eval[e].at
    BY <1>1 DEF EvalState
  <2> HIDE DEF st
  <2>3. eval' = [eval EXCEPT ![e] = EvalIdle] \/ eval' = [eval EXCEPT ![e] = st]
    BY <1>7 DEF CheckMaintenance, Go, Done, st
  <2>4. CASE eval' = [eval EXCEPT ![e] = st]
    <3>1. Held(eval[e])'
      BY <1>1, <1>2, <2>1, <2>2, <2>4 DEF Held, OwnHeld, BackHeld, Backed, VoiceHeld, Heard
    <3>2. QED
      BY <1>2, <1>3, <2>1, <2>4, <3>1
  <2>5. QED
    BY <1>4, <2>1, <2>3, <2>4
<1>8. CASE WriteVerdict(e)
  <2> DEFINE st == AfterWrite(eval[e])
  <2>1. /\ UNCHANGED <<results, incidents, nextId>> /\ eval[e].pc = "write"
        /\ eval' = [eval EXCEPT ![e] = st]
    BY <1>8 DEF WriteVerdict, Go
  <2>2. /\ st.pc \in {"idle", "find", "open"} /\ st.todo = {}
        /\ st.pc # "idle" => st.at = eval[e].at
        /\ st.pc = "open" => /\ eval[e].next = "down"
                             /\ st.down = eval[e].down /\ st.voters = eval[e].voters
    BY <1>1, AfterWriteType
  <2> HIDE DEF st
  <2>3. Held(eval[e])'
    BY <1>1, <1>2, <2>1, <2>2 DEF Held, OwnHeld, BackHeld, Backed, VoiceHeld, Heard
  <2>4. QED
    BY <1>2, <1>3, <2>1, <2>3
<1>9. CASE FindOwnIncident(e)
  <2> DEFINE st == [eval[e] EXCEPT !.pc = "resolve", !.todo = {NewestOf(OwnOpen).id}]
  <2>1. UNCHANGED <<results, incidents, nextId>> /\ eval[e].pc = "find"
    BY <1>9 DEF FindOwnIncident
  <2>2. /\ st.pc = "resolve" /\ st.todo = {NewestOf(OwnOpen).id} /\ st.at = eval[e].at
    BY <1>1 DEF EvalState
  <2> HIDE DEF st
  <2>3. \/ eval' = [eval EXCEPT ![e] = EvalIdle]
        \/ OwnOpen # {} /\ eval' = [eval EXCEPT ![e] = st]
    BY <1>9 DEF FindOwnIncident, Go, Done, st
  <2>4. CASE OwnOpen # {} /\ eval' = [eval EXCEPT ![e] = st]
    <3> DEFINE own == NewestOf(OwnOpen)
    <3>1. own \in incidents /\ own.owner = "consensus" /\ own.id < nextId
      BY <2>4, OwnFound
    <3> HIDE DEF own
    <3>2. \A i \in incidents : i.id = own.id => i.owner = "consensus"
      BY <3>1 DEF TypeInv, IdsFresh
    <3>3. OwnHeld(eval[e])'
      BY ZenonT(60), <1>2, <2>1, <2>2, <2>4, <3>1, <3>2 DEF OwnHeld, own
    <3>4. Held(eval[e])'
      BY <1>1, <1>2, <2>1, <2>2, <2>4, <3>3 DEF Held, BackHeld, VoiceHeld, Heard
    <3>5. QED
      BY <1>2, <1>3, <2>1, <2>4, <3>4
  <2>5. QED
    BY <1>4, <2>1, <2>3, <2>4
<1>10. CASE ResolveOwnIncident(e)
  <2>1. /\ eval' = [eval EXCEPT ![e] = EvalIdle] /\ UNCHANGED <<results, nextId>>
        /\ incidents' \subseteq incidents
    BY <1>10 DEF ResolveOwnIncident, Done, Go
  <2>2. Held(eval[e])' /\ QuorumBacksEveryIncident'
    BY <1>2, <2>1, IdleHeld, QuorumStays DEF HeldInv, Held, OwnHeld, BackHeld, VoiceHeld
  <2>3. QED
    BY <1>1, <1>2, <2>1, <2>2, OneMoves
<1>11. CASE OpenOwnIncident(e)
  <2> DEFINE new == [id |-> nextId, owner |-> "consensus", down |-> eval[e].down,
                     voters |-> eval[e].voters]
  <2>1. /\ eval' = [eval EXCEPT ![e] = EvalIdle] /\ results' = results
        /\ nextId' = nextId + 1 /\ incidents' = incidents \cup {new}
        /\ eval[e].pc = "open"
    BY <1>11 DEF OpenOwnIncident, Create, Done, Go
  <2>2. new.id = nextId /\ Backed(new.down, new.voters)
    BY <1>1, <2>1 DEF Held, BackHeld
  <2> HIDE DEF new
  <2>3. Held(eval[e])' /\ QuorumBacksEveryIncident'
    BY ZenonT(30), <1>2, <2>1, <2>2, IdleHeld, QuorumStays
       DEF HeldInv, Held, OwnHeld, BackHeld, VoiceHeld
  <2>4. nextId' >= nextId /\ \A i \in incidents' : i \in incidents \/ i.id >= nextId
    BY <1>1, <2>1, <2>2
  <2>5. QED
    BY <1>2, <2>1, <2>3, <2>4, OneMoves
<1>12. QED
  BY <1>5, <1>6, <1>7, <1>8, <1>9, <1>10, <1>11 DEF Evaluate

\* In every step of anybody else no evaluation takes on anything.
LEMMA OthersHoldNothing ==
  ASSUME TypeInv, [Next]_vars, \A e \in Evaluators : ~Evaluate(e)
  PROVE  /\ nextId' >= nextId
         /\ \A r \in Regions : results'[r].at >= results[r].at
         /\ \A i \in incidents' : i \in incidents \/ (i.id >= nextId /\ i.owner # "consensus")
         /\ \A e \in Evaluators : eval'[e] = eval[e] \/ eval'[e] = EvalIdle
         /\ eval' = eval \/ UNCHANGED <<monitor, incidents>>
<1> USE DEF TypeInv, TypeOK
<1>1. /\ nextId \in Nat /\ results \in [Regions -> Result]
      /\ \A r \in Regions : results[r].at >= results[r].at
  BY DEF Result
<1> DEFINE Goal == /\ nextId' >= nextId
                   /\ \A r \in Regions : results'[r].at >= results[r].at
                   /\ \A i \in incidents' : i \in incidents \/ (i.id >= nextId /\ i.owner # "consensus")
                   /\ \A e \in Evaluators : eval'[e] = eval[e] \/ eval'[e] = EvalIdle
                   /\ eval' = eval \/ UNCHANGED <<monitor, incidents>>
<1>2. ASSUME NEW o \in Owners \ {"consensus"}, Create(o, {}, 0)
      PROVE  /\ nextId' >= nextId
             /\ \A i \in incidents' : i \in incidents \/ (i.id >= nextId /\ i.owner # "consensus")
  BY <1>1, <1>2 DEF Create
<1>3. ASSUME NEW r \in Regions, NEW s \in Cast, File(r, s) PROVE Goal
  BY <1>1, <1>3, FileType
<1>4. ASSUME NEW e \in Evaluators, Crash(e) PROVE Goal
  BY <1>1, <1>4 DEF Crash, Done, Go
<1>5. ASSUME NEW a \in Agents, NEW s \in {"up", "degraded"}, NEW f \in {"up", "degraded"},
             StartLegacyPush(a, s, f)
      PROVE  Goal
  <2>1. \A r \in Regions : results'[r].at >= results[r].at
    BY <1>1, <1>5, RecordedType, ConsensusAssumption DEF StartLegacyPush
  <2>2. QED
    BY <1>1, <1>5, <2>1 DEF StartLegacyPush
<1>6. ASSUME NEW a \in Agents, LegacyPush(a) PROVE Goal
  <2>1. CASE WriteFleetStatus(a)
    BY <1>1, <2>1 DEF WriteFleetStatus
  <2>2. CASE ClearMissedPush(a)
    BY <1>1, <2>2 DEF ClearMissedPush
  <2>3. CASE FleetEdge(a)
    <3>1. /\ results' = results /\ eval' = eval
          /\ Create("server_metrics", {}, 0) \/ (incidents' \subseteq incidents /\ nextId' = nextId)
      BY <2>3 DEF FleetEdge
    <3>2. QED
      BY <1>1, <1>2, <3>1
  <2>4. QED
    BY <1>6, <2>1, <2>2, <2>3 DEF LegacyPush
<1>7. CASE \/ \E a \in Agents : CrashLegacy(a)
           \/ Advance \/ Toggle \/ UNCHANGED vars
           \/ \E i \in incidents : ResolveByHand(i)
  BY <1>1, <1>7 DEF CrashLegacy, Advance, Toggle, vars, ResolveByHand
<1>8. CASE MissedPush
  BY <1>1, <1>2, <1>8 DEF MissedPush
<1>9. QED
  BY <1>3, <1>4, <1>5, <1>6, <1>7, <1>8 DEF Next, RecordCheck, IngestResult, Accepted

\* Through every interleaving, an evaluation in flight knows what it needs.
LEMMA HeldThroughout == Spec => []HeldInv
<1>1. Init => HeldInv
  BY IdleHeld DEF Init, HeldInv, QuorumBacksEveryIncident, OpenOf
<1>2. TypeInv /\ TypeInv' /\ HeldInv /\ [Next]_vars => HeldInv'
  <2> SUFFICES ASSUME TypeInv, TypeInv', HeldInv, [Next]_vars PROVE HeldInv'
    OBVIOUS
  <2>1. CASE \E e \in Evaluators : Evaluate(e)
    BY <2>1, EvaluateHeld
  <2>2. CASE \A e \in Evaluators : ~Evaluate(e)
    BY <2>2, OthersHoldNothing, NothingNewHeld
  <2>3. QED
    BY <2>1, <2>2
<1>3. QED
  BY <1>1, <1>2, IdsStayFresh, PTL DEF Spec

(***************************************************************************)
(* Whatever filed late, crashed or overlapped, a consensus incident that   *)
(* is open was backed by the configured number of the voting regions.      *)
(***************************************************************************)
THEOREM IncidentsAreBacked == Spec => []QuorumBacksEveryIncident
BY HeldThroughout, PTL DEF HeldInv

(***************************************************************************)
(* The consensus job closes no incident of another job: what it looked up  *)
(* was its own, and no id names another row by the time it writes.         *)
(***************************************************************************)
THEOREM ClosesOnlyItsOwn == Spec => ForeignIncidentsUntouched
<1>1. ASSUME TypeInv, HeldInv, [Next]_vars
      PROVE  [\A e \in Evaluators : eval'[e] # eval[e] =>
                \A i \in incidents : i.owner # "consensus" => i \in incidents']_vars
  <2>1. CASE \A e \in Evaluators : ~Evaluate(e)
    BY <1>1, <2>1, OthersHoldNothing
  <2>2. ASSUME NEW e \in Evaluators, Evaluate(e), NEW i \in incidents, i.owner # "consensus"
        PROVE  i \in incidents'
    <3>1. CASE ResolveOwnIncident(e)
      <4>1. i.id \notin eval[e].todo
        BY <1>1, <2>2 DEF HeldInv, Held, OwnHeld
      <4>2. QED
        BY <3>1, <4>1 DEF ResolveOwnIncident
    <3>2. CASE ~ResolveOwnIncident(e)
      BY <2>2, <3>2 DEF Evaluate, StartEvaluation, ReadVotes, CheckMaintenance, WriteVerdict,
                        FindOwnIncident, OpenOwnIncident, Create
    <3>3. QED
      BY <3>1, <3>2
  <2>3. QED
    BY <2>1, <2>2
<1>2. QED
  BY <1>1, IdsStayFresh, HeldThroughout, PTL DEF Spec, ForeignIncidentsUntouched

(***************************************************************************)
(* The job decides nothing on silence: a row it rewrites and an incident   *)
(* it opens or closes rest on a region heard of inside its window.         *)
(***************************************************************************)
THEOREM NothingOnSilence == Spec => SilenceDecidesNothing
<1> DEFINE Moved == (\E e \in Evaluators : eval'[e] # eval[e])
                    /\ <<monitor, incidents>>' # <<monitor, incidents>>
           Backing == \E e \in Evaluators, r \in Regions :
                        /\ eval'[e] # eval[e]
                        /\ results[r].at # Never /\ results[r].at >= eval[e].at - Freshness
<1>1. ASSUME TypeInv, HeldInv, [Next]_vars PROVE [Moved => Backing]_vars
  <2>1. CASE \A e \in Evaluators : ~Evaluate(e)
    BY <1>1, <2>1, OthersHoldNothing
  <2>2. ASSUME NEW e \in Evaluators, Evaluate(e), Moved PROVE Backing
    <3>1. WriteVerdict(e) \/ ResolveOwnIncident(e) \/ OpenOwnIncident(e)
      BY <2>2 DEF Evaluate, StartEvaluation, ReadVotes, CheckMaintenance, FindOwnIncident
    <3>2. /\ eval[e].pc \in {"write", "resolve", "open"}
          /\ eval[e] \in EvalState /\ Held(eval[e])
      BY <1>1, <3>1 DEF WriteVerdict, ResolveOwnIncident, OpenOwnIncident, TypeInv, TypeOK, HeldInv
    <3>3. Heard(eval[e].at)
      BY <3>2 DEF Held, VoiceHeld
    <3>4. eval'[e] # eval[e]
      <4>1. CASE WriteVerdict(e)
        BY <1>1, <3>2, <4>1, AfterWriteType DEF WriteVerdict, Go, TypeInv, TypeOK
      <4>2. CASE ResolveOwnIncident(e) \/ OpenOwnIncident(e)
        BY <1>1, <3>2, <4>2 DEF ResolveOwnIncident, OpenOwnIncident, Done, Go, EvalIdle,
                                TypeInv, TypeOK
      <4>3. QED
        BY <3>1, <4>1, <4>2
    <3>5. QED
      BY <3>3, <3>4 DEF Heard
  <2>3. QED
    BY <2>1, <2>2
<1>2. QED
  BY <1>1, IdsStayFresh, HeldThroughout, PTL DEF Spec, SilenceDecidesNothing

(***************************************************************************)
(* Evaluations one at a time: DownIsAnnounced.  With two in flight it is   *)
(* false: one reads the row, the other writes it.                          *)
(***************************************************************************)
OneAtATime == ~Overlap \/ \A e, f \in Evaluators : e = f

Announced == monitor.status = "down" => HasOpen

\* The row an evaluation compares with is still the row; and past the write
\* it closes an incident only over a row that reads 'up'.
StepSound(st) ==
  /\ st.pc \in {"votes", "maintenance", "write"} => st.prev = monitor.status /\ Announced
  /\ st.pc \in {"find", "resolve"} => monitor.status = "up"

Solo == \A e, f \in Evaluators : eval[e].pc # "idle" /\ eval[f].pc # "idle" => e = f
WithinBudget == \A ev \in Events : left[ev] <= Budget[ev]

\* Between the write of an edge and the incident it announces the monitor is
\* down with nothing open, so the property alone is not inductive.
AnnouncedInv ==
  /\ Solo /\ WithinBudget
  /\ Undisturbed => /\ \A a \in Agents : agent[a].pc = "idle"
                    /\ AtRest => Announced
                    /\ \A e \in Evaluators : StepSound(eval[e])

\* A step of the only evaluation there is.
LEMMA EvaluateAnnounces ==
  ASSUME OneAtATime, TypeInv, TypeInv', AnnouncedInv, NEW e \in Evaluators, Evaluate(e)
  PROVE  AnnouncedInv'
<1>1. /\ eval[e] \in EvalState /\ eval'[e] \in EvalState
      /\ \A f \in Evaluators : f # e => eval[f].pc = "idle"
  <2>1. eval[e] \in EvalState /\ eval'[e] \in EvalState
    BY DEF TypeInv, TypeOK
  <2>2. CASE StartEvaluation(e)
    BY <2>1, <2>2, ConsensusAssumption DEF StartEvaluation, OneAtATime
  <2>3. CASE ~StartEvaluation(e)
    <3>1. eval[e].pc # "idle"
      BY <2>3 DEF Evaluate, ReadVotes, CheckMaintenance, WriteVerdict, FindOwnIncident,
                  ResolveOwnIncident, OpenOwnIncident
    <3>2. QED
      BY <2>1, <3>1 DEF AnnouncedInv, Solo
  <2>4. QED
    BY <2>1, <2>2, <2>3
<1>2. /\ UNCHANGED <<agent, left>>
      /\ \E st : eval' = [eval EXCEPT ![e] = st]
  BY DEF Evaluate, StartEvaluation, ReadVotes, CheckMaintenance, WriteVerdict,
         FindOwnIncident, ResolveOwnIncident, OpenOwnIncident, Go, Done
<1>3. \A f \in Evaluators : f # e => eval'[f] = eval[f] /\ eval'[f].pc = "idle"
  BY <1>1, <1>2 DEF TypeInv, TypeOK
<1>4. Solo' /\ WithinBudget'
  BY <1>2, <1>3 DEF AnnouncedInv, Solo, WithinBudget
<1>5. SUFFICES ASSUME Undisturbed PROVE (AtRest => Announced)' /\ StepSound(eval[e])'
  BY <1>2, <1>3, <1>4 DEF AnnouncedInv, Undisturbed, StepSound
<1>6. /\ eval[e].pc = "idle" => Announced
      /\ StepSound(eval[e])
      /\ AtRest' => eval'[e].pc = "idle"
  BY <1>1, <1>5 DEF AnnouncedInv, AtRest
<1>7. \A st : eval' = [eval EXCEPT ![e] = st] => eval'[e] = st
  BY DEF TypeInv, TypeOK
<1>8. CASE StartEvaluation(e)
  <2> DEFINE st == [EvalIdle EXCEPT !.pc = "votes", !.at = now,
                                    !.prev = monitor.status,
                                    !.failures = monitor.failures]
  <2>4. st.pc = "votes" /\ st.prev = monitor.status
    BY DEF EvalIdle
  <2>5. eval' = [eval EXCEPT ![e] = st] \/ eval' = [eval EXCEPT ![e] = EvalIdle]
    BY <1>8 DEF StartEvaluation, Go, Done
  <2> HIDE DEF st
  <2>1. \/ eval'[e] = EvalIdle
        \/ eval'[e].pc = "votes" /\ eval'[e].prev = monitor.status
    BY <1>7, <2>4, <2>5
  <2>2. Announced /\ UNCHANGED <<monitor, incidents>>
    BY <1>6, <1>8 DEF StartEvaluation
  <2>3. QED
    BY <2>1, <2>2 DEF StepSound, EvalIdle, Announced, HasOpen, OpenOf
<1>9. CASE ReadVotes(e)
  <2>1. /\ \/ eval'[e] = EvalIdle
           \/ eval'[e].pc = "maintenance" /\ eval'[e].prev = eval[e].prev
        /\ eval[e].pc = "votes" /\ UNCHANGED <<monitor, incidents>>
    BY <1>7, <1>9, ReadVotesType DEF ReadVotes, TypeInv
  <2>2. QED
    BY <1>6, <2>1 DEF StepSound, EvalIdle, Announced, HasOpen, OpenOf
<1>10. CASE CheckMaintenance(e)
  <2>1. /\ \/ eval'[e] = EvalIdle
           \/ eval'[e].pc = "write" /\ eval'[e].prev = eval[e].prev
        /\ eval[e].pc = "maintenance" /\ UNCHANGED <<monitor, incidents>>
    BY <1>1, <1>7, <1>10 DEF CheckMaintenance, Go, Done, EvalState
  <2>2. QED
    BY <1>6, <2>1 DEF StepSound, EvalIdle, Announced, HasOpen, OpenOf
<1>11. CASE WriteVerdict(e)
  <2>1. /\ eval'[e] = AfterWrite(eval[e])
        /\ eval[e].pc = "write" /\ incidents' = incidents
    BY <1>7, <1>11 DEF WriteVerdict, Go
  <2>2. eval[e].prev = monitor.status /\ Announced
    BY <1>6, <2>1 DEF StepSound
  <2>3. monitor'.status = eval[e].next
    BY <1>11, <2>2 DEF WriteVerdict, TypeInv, TypeOK
  <2>4. /\ eval'[e].pc \in {"idle", "find", "open"}
        /\ eval'[e].pc = "find" => eval[e].next = "up"
        /\ eval[e].next = "down" /\ eval[e].prev # "down" => eval'[e].pc = "open"
    BY <1>1, <2>1, AfterWriteType
  <2>5. QED
    BY <1>6, <2>1, <2>2, <2>3, <2>4 DEF StepSound, Announced, HasOpen, OpenOf
<1>12. CASE FindOwnIncident(e)
  <2> DEFINE st == [eval[e] EXCEPT !.pc = "resolve", !.todo = {NewestOf(OwnOpen).id}]
  <2>3. st.pc = "resolve"
    BY <1>1 DEF EvalState
  <2>4. eval' = [eval EXCEPT ![e] = st] \/ eval' = [eval EXCEPT ![e] = EvalIdle]
    BY <1>12 DEF FindOwnIncident, Go, Done
  <2>5. eval[e].pc = "find" /\ UNCHANGED <<monitor, incidents>>
    BY <1>12 DEF FindOwnIncident
  <2> HIDE DEF st
  <2>1. /\ eval'[e] = EvalIdle \/ eval'[e].pc = "resolve"
        /\ eval[e].pc = "find" /\ UNCHANGED <<monitor, incidents>>
    BY <1>7, <2>3, <2>4, <2>5
  <2>2. QED
    BY <1>6, <2>1 DEF StepSound, EvalIdle, Announced
<1>13. CASE ResolveOwnIncident(e)
  <2>1. eval'[e] = EvalIdle /\ eval[e].pc = "resolve" /\ monitor' = monitor
    BY <1>7, <1>13 DEF ResolveOwnIncident, Go, Done
  <2>2. QED
    BY <1>6, <2>1 DEF StepSound, EvalIdle, Announced
<1>14. CASE OpenOwnIncident(e)
  <2>1. /\ eval'[e] = EvalIdle
        /\ \E i \in incidents' : i.owner = "consensus"
    <3> DEFINE i == [id |-> nextId, owner |-> "consensus",
                     down |-> eval[e].down, voters |-> eval[e].voters]
    <3>1. i \in incidents' /\ i.owner = "consensus"
      BY <1>14 DEF OpenOwnIncident, Create
    <3>2. eval' = [eval EXCEPT ![e] = EvalIdle]
      BY <1>14 DEF OpenOwnIncident, Go, Done
    <3> HIDE DEF i
    <3>3. QED
      BY <1>7, <3>1, <3>2
  <2>2. QED
    BY <2>1 DEF StepSound, EvalIdle, Announced, HasOpen, OpenOf
<1>15. QED
  BY <1>8, <1>9, <1>10, <1>11, <1>12, <1>13, <1>14 DEF Evaluate

\* Nobody else disturbs it, as long as the behaviour counts as undisturbed.
LEMMA OthersAnnounce ==
  ASSUME TypeInv, TypeInv', AnnouncedInv, [Next]_vars, \A e \in Evaluators : ~Evaluate(e)
  PROVE  AnnouncedInv'
<1>1. \A ev \in Events : left[ev] \in Nat /\ left'[ev] \in Nat /\ Budget[ev] \in Nat
  BY ConsensusAssumption DEF TypeInv, TypeOK
<1>2. \A e \in Evaluators : eval'[e] = eval[e] \/ eval'[e] = EvalIdle
  BY OthersHoldNothing
<1>3. Solo'
  BY <1>2 DEF AnnouncedInv, Solo, EvalIdle
<1>4. \/ UNCHANGED left
      \/ \E ev \in Events : Spend(ev)
  BY DEF Next, RecordCheck, IngestResult, File, Crash, StartLegacyPush, LegacyPush,
         WriteFleetStatus, ClearMissedPush, FleetEdge, CrashLegacy, MissedPush, Advance,
         ResolveByHand, Toggle, vars
<1>5. ASSUME NEW ev \in Events, Spend(ev)
      PROVE  /\ \A x \in Events : left'[x] <= left[x]
             /\ left'[ev] # Budget[ev]
  <2>1. /\ left'[ev] = left[ev] - 1 /\ left[ev] <= Budget[ev]
        /\ \A x \in Events : x # ev => left'[x] = left[x]
    BY <1>5 DEF Spend, AnnouncedInv, WithinBudget, TypeInv, TypeOK
  <2>2. QED
    BY <1>1, <2>1
<1>6. /\ \A x \in Events : left'[x] <= left[x]
      /\ WithinBudget'
  <2>1. \A x \in Events : left'[x] <= left[x]
    BY <1>1, <1>4, <1>5
  <2>2. QED
    BY <1>1, <2>1 DEF AnnouncedInv, WithinBudget
<1>7. SUFFICES ASSUME Undisturbed'
      PROVE  /\ \A a \in Agents : agent'[a].pc = "idle"
             /\ (AtRest => Announced)'
             /\ \A e \in Evaluators : StepSound(eval[e])'
  BY <1>3, <1>6 DEF AnnouncedInv
<1>8. /\ Undisturbed
      /\ ~Spend("crash") /\ ~Spend("resolve") /\ ~Spend("push")
  BY <1>1, <1>5, <1>6, <1>7 DEF Undisturbed, AnnouncedInv, WithinBudget
<1>9. /\ \A a \in Agents : agent[a].pc = "idle"
      /\ AtRest => Announced
      /\ \A e \in Evaluators : StepSound(eval[e])
  BY <1>8 DEF AnnouncedInv
<1>10. /\ UNCHANGED <<eval, agent>> /\ monitor'.status = monitor.status
       /\ incidents \subseteq incidents'
  <2>1. CASE UNCHANGED <<monitor, incidents, eval, agent>>
    BY <2>1
  <2>2. CASE MissedPush
    BY <2>2 DEF MissedPush, Create
  <2>3. CASE Toggle
    BY <2>3 DEF Toggle, TypeInv, TypeOK
  <2>4. \A a \in Agents : ~LegacyPush(a)
    BY <1>9 DEF LegacyPush, WriteFleetStatus, ClearMissedPush, FleetEdge
  <2>5. QED
    BY <1>8, <2>1, <2>2, <2>3, <2>4
       DEF Next, RecordCheck, IngestResult, File, Crash, StartLegacyPush, CrashLegacy,
           Advance, ResolveByHand, vars
<1>11. Announced => Announced'
  BY <1>10 DEF Announced, HasOpen, OpenOf
<1>12. QED
  BY <1>9, <1>10, <1>11 DEF AtRest, StepSound

(***************************************************************************)
(* When evaluations do not overlap, none crashed, and neither a push nor a *)
(* person interfered, a monitor that reads 'down' between two runs has a   *)
(* consensus incident open: no maintenance window, pause, silence or late  *)
(* result spends the edge without announcing it.                           *)
(***************************************************************************)
THEOREM EveryDownIsAnnounced ==
  ASSUME OneAtATime
  PROVE  Spec => []DownIsAnnounced
<1>1. Init => AnnouncedInv
  <2> SUFFICES ASSUME Init PROVE AnnouncedInv
    OBVIOUS
  <2>1. /\ \A e \in Evaluators : eval[e] = EvalIdle
        /\ \A a \in Agents : agent[a] = AgentIdle
        /\ monitor.status = "unknown"
        /\ \A ev \in Events : left[ev] = Budget[ev] /\ Budget[ev] \in Nat
    BY ConsensusAssumption DEF Init
  <2>2. QED
    BY <2>1 DEF AnnouncedInv, Solo, WithinBudget, StepSound, Announced, EvalIdle, AgentIdle
<1>2. TypeInv /\ TypeInv' /\ AnnouncedInv /\ [Next]_vars => AnnouncedInv'
  <2> SUFFICES ASSUME TypeInv, TypeInv', AnnouncedInv, [Next]_vars PROVE AnnouncedInv'
    OBVIOUS
  <2>1. CASE \E e \in Evaluators : Evaluate(e)
    BY <2>1, EvaluateAnnounces
  <2>2. CASE \A e \in Evaluators : ~Evaluate(e)
    BY <2>2, OthersAnnounce
  <2>3. QED
    BY <2>1, <2>2
<1>3. AnnouncedInv => DownIsAnnounced
  BY DEF AnnouncedInv, DownIsAnnounced, Announced
<1>4. QED
  BY <1>1, <1>2, <1>3, IdsStayFresh, PTL DEF Spec
=============================================================================
