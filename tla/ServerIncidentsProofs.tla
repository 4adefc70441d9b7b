------------------------- MODULE ServerIncidentsProofs -------------------------
(***************************************************************************)
(* Proofs about ServerIncidents for every set of requests, jobs, hosts,    *)
(* metrics and windows, with or without overlapping reconciles.            *)
(***************************************************************************)
EXTENDS ServerIncidents, FiniteSetTheorems, WellFoundedInduction, TLAPS

USE DEF Never, Kinds, Status, PCs

(***************************************************************************)
(* Types of the operators the actions are built from.                      *)
(***************************************************************************)
\* A request or job that is over is a process state, at rest.
LEMMA IdleType == Idle \in ProcState /\ Idle.pc = "idle"
BY ServerAssumption DEF Idle, ProcState, Breach

\* The fleet a push or tick reads is a set of host and metric pairs.
LEMMA FleetType ==
  ASSUME NEW s \in [Hosts -> Sample], NEW t, NEW w
  PROVE  Fleet(s, t, w) \in SUBSET Breach
BY DEF Fleet, Breach, Sample

\* Storing a push keeps one newest sample for every host.
LEMMA StoredType ==
  ASSUME NEW s \in [Hosts -> Sample], NEW h \in Hosts, NEW at \in Nat,
         NEW b \in SUBSET Metrics
  PROVE  Stored(s, h, at, b) \in [Hosts -> Sample]
BY DEF Stored, Sample

\* A fleet that reports is healthy or hot, never quiet or unknown.
LEMMA StatusFromFleetType ==
  ASSUME NEW f
  PROVE  StatusFromFleet(f) \in {"healthy", "hot"}
BY DEF StatusFromFleet

\* A reconcile starts by listing what to close, or by looking for what to open.
LEMMA ReconcileType ==
  ASSUME NEW st \in ProcState
  PROVE  /\ Reconcile(st) \in ProcState
         /\ Reconcile(st).pc \in {"list", "find"}
         /\ Reconcile(st).todo = {}
BY DEF Reconcile, ProcState

\* After its closes a reconcile goes on to the other kind, to opening, or ends.
LEMMA AfterCloseType ==
  ASSUME NEW st \in ProcState
  PROVE  /\ AfterClose(st) \in ProcState
         /\ AfterClose(st).pc \in {"idle", "list", "find"}
<1>1. CASE st.kind = "server_hot"
  BY <1>1, IdleType DEF AfterClose
<1>2. CASE st.kind = "server_silent" /\ st.status = "healthy"
  BY <1>2 DEF AfterClose, ProcState
<1>3. CASE st.kind = "server_silent" /\ st.status # "healthy" /\ st.breaching = {}
  BY <1>3, IdleType DEF AfterClose
<1>4. CASE st.kind = "server_silent" /\ st.status # "healthy" /\ st.breaching # {}
  BY <1>4 DEF AfterClose, ProcState
<1>5. QED
  BY <1>1, <1>2, <1>3, <1>4 DEF ProcState

\* A nonempty set of incidents has an oldest one.
LEMMA OldestExists ==
  ASSUME NEW S \in SUBSET Incident, S # {}
  PROVE  \E i \in S : \A j \in S : i.id <= j.id
<1> DEFINE ids == {i.id : i \in S}
<1>1. ids \in SUBSET Nat /\ ids # {}
  BY DEF Incident
<1> DEFINE less == {ss \in Nat \X Nat : ss[1] < ss[2]}
<1>2. IsWellFoundedOn(less, Nat)
  BY NatLessThanWellFounded DEF OpToRel
<1> HIDE DEF ids
<1>3. PICK n \in ids : \A m \in ids : ~ (<<m, n>> \in less)
  <2> HIDE DEF less
  <2>1. QED
    BY <1>1, <1>2, WFMin
<1>4. ASSUME NEW m \in ids PROVE n <= m
  <2>1. m \in Nat /\ n \in Nat
    BY <1>1
  <2>2. m < n => <<m, n>> \in less
    BY <2>1
  <2>3. QED
    BY <1>3, <2>1, <2>2
<1>5. QED
  BY <1>3, <1>4 DEF ids

\* A new server, with no sample and no request running, is well typed.
LEMMA TypeInit == Init => TypeOK
BY IdleType, ServerAssumption DEF Init, TypeOK, Sample, Procs, Events

(***************************************************************************)
(* Type correctness: through every push, tick, reconcile, crash and edit   *)
(* the row, the samples, the incidents and each chain stay well typed.     *)
(***************************************************************************)
THEOREM TypeCorrect == Spec => []TypeOK
<1>1. Init => TypeOK
  BY TypeInit
<1>2. TypeOK /\ [Next]_vars => TypeOK'
  <2> SUFFICES ASSUME TypeOK, [Next]_vars PROVE TypeOK'
    OBVIOUS
  <2> USE DEF TypeOK
  <2>1. ASSUME NEW p \in Handlers, NEW h \in Hosts, NEW b \in SUBSET Metrics,
               StartPush(p, h, b)
        PROVE  TypeOK'
    <3> DEFINE st == [Idle EXCEPT !.pc = "commit", !.at = now,
                                  !.window = server.window, !.host = h,
                                  !.breaches = b]
    <3>1. st \in ProcState
      BY IdleType DEF ProcState
    <3> HIDE DEF st
    <3>2. proc' \in [Procs -> ProcState]
      BY <2>1, <3>1 DEF StartPush, Go, st
    <3>3. left' \in [Events -> Nat]
      BY <2>1 DEF StartPush, Spend, Events
    <3>4. QED
      BY <2>1, <3>2, <3>3 DEF StartPush
  <2>2. ASSUME NEW p \in Handlers, CommitPush(p) PROVE TypeOK'
    <3> DEFINE st == proc[p]
               stored == Stored(samples, st.host, st.at, st.breaches)
               fleet == Fleet(stored, st.at, st.window)
               verdict == [st EXCEPT !.status = StatusFromFleet(fleet),
                                     !.breaching = fleet,
                                     !.host = Idle.host, !.breaches = {}]
    <3>1. st \in ProcState
      BY DEF Procs
    <3>2. stored \in [Hosts -> Sample]
      BY <3>1, StoredType DEF ProcState
    <3>3. /\ fleet \in SUBSET Breach
          /\ StatusFromFleet(fleet) \in {"healthy", "hot"}
      BY <3>2, FleetType, StatusFromFleetType
    <3>4. Idle.host \in Hosts /\ st.at \in Nat
      BY <3>1, IdleType DEF ProcState
    <3> HIDE DEF st, stored, fleet
    <3>5. verdict \in ProcState
      BY <3>1, <3>3, <3>4 DEF ProcState
    <3> HIDE DEF verdict
    <3>6. Reconcile(verdict) \in ProcState
      BY <3>5, ReconcileType
    <3>7. /\ samples' = stored
          /\ proc' = [proc EXCEPT ![p] = Reconcile(verdict)]
          /\ server' = IF server.exists
                       THEN [server EXCEPT !.status = StatusFromFleet(fleet),
                                           !.last_sample_at = st.at]
                       ELSE server
          /\ UNCHANGED <<now, incidents, nextId, left>>
      BY <2>2 DEF CommitPush, Go, st, stored, fleet, verdict
    <3>8. server' \in [exists: BOOLEAN, status: Status, last_sample_at: Nat,
                       window: Windows]
      BY <3>3, <3>4, <3>7
    <3>9. QED
      BY <3>2, <3>6, <3>7, <3>8
  <2>3. ASSUME NEW p \in Procs, ReconcileStep(p) PROVE TypeOK'
    <3>1. CASE ListOpen(p)
      <4>1. proc[p] \in ProcState /\ IdsOfKind(proc[p].kind) \in SUBSET Nat
        BY DEF IdsOfKind, OpenOfKind, Incident
      <4>2. [proc[p] EXCEPT !.pc = "close", !.todo = IdsOfKind(proc[p].kind)]
              \in ProcState
        BY <4>1 DEF ProcState
      <4>3. AfterClose(proc[p]) \in ProcState
        BY <4>1, AfterCloseType
      <4>4. QED
        BY <3>1, <4>2, <4>3 DEF ListOpen, Go
    <3>2. CASE CloseOne(p)
      BY SMTT(30), <3>2, AfterCloseType DEF CloseOne, Go, ProcState
    <3>3. CASE FindOpen(p)
      <4> DEFINE st == proc[p]
                 open == OpenFor(st)
                 first == Oldest(open)
                 create == [st EXCEPT !.pc = "create"]
                 rewrite == [st EXCEPT !.pc = "update", !.todo = {first.id}]
      <4>1. st \in ProcState
        OBVIOUS
      <4>2. create \in ProcState
        BY <4>1 DEF ProcState
      <4>3. open \in SUBSET Incident
        BY DEF OpenFor, OpenOfKind
      <4>4. ASSUME open # {} PROVE first \in open
        BY <4>3, <4>4, OldestExists DEF Oldest
      <4>5. ASSUME open # {} PROVE rewrite \in ProcState
        BY ZenonT(30), <4>1, <4>3, <4>4, <4>5 DEF ProcState, Incident
      <4> HIDE DEF st, open, first, create, rewrite
      <4>6. \/ proc' = [proc EXCEPT ![p] = create]
            \/ open # {} /\ proc' = [proc EXCEPT ![p] = rewrite]
            \/ proc' = [proc EXCEPT ![p] = Idle]
        BY <3>3 DEF FindOpen, Go, Done, st, open, first, create, rewrite
      <4>7. QED
        BY <3>3, <4>2, <4>5, <4>6, IdleType DEF FindOpen
    <3>4. CASE CreateIncident(p)
      BY <3>4, IdleType DEF CreateIncident, Go, Done, ProcState, Incident
    <3>5. CASE UpdateIncident(p)
      BY <3>5, IdleType DEF UpdateIncident, Go, Done, ProcState, Incident
    <3>6. QED
      BY <2>3, <3>1, <3>2, <3>3, <3>4, <3>5 DEF ReconcileStep
  <2>4. ASSUME NEW p \in Ticks, TickStep(p) PROVE TypeOK'
    <3>1. CASE StartTick(p)
      BY <3>1, IdleType DEF StartTick, Go, ProcState, Procs
    <3>2. CASE TickReadRow(p)
      <4> DEFINE st == proc[p]
                 read == [st EXCEPT !.baseline = server.last_sample_at,
                                    !.window = server.window,
                                    !.status = server.status]
                 inside == [read EXCEPT !.pc = "fleet"]
                 silent == [read EXCEPT !.pc = "claim", !.status = "quiet"]
      <4>1. st \in ProcState
        BY DEF Procs
      <4>2. read \in ProcState
        BY <4>1 DEF ProcState
      <4>3. inside \in ProcState /\ silent \in ProcState
        BY <4>2 DEF ProcState
      <4>4. Reconcile(read) \in ProcState
        BY <4>2, ReconcileType
      <4>5. \E st2 \in {Idle, inside, silent, Reconcile(read)} :
              proc' = [proc EXCEPT ![p] = st2]
        BY <3>2 DEF TickReadRow, Go, Done
      <4> HIDE DEF st, read, inside, silent
      <4>6. proc' \in [Procs -> ProcState]
        BY <4>3, <4>4, <4>5, IdleType
      <4>7. QED
        BY <3>2, <4>6 DEF TickReadRow
    <3>3. CASE TickReadFleet(p)
      <4> DEFINE st == proc[p]
                 fleet == Fleet(samples, st.at, st.window)
                 verdict == [st EXCEPT !.status = StatusFromFleet(fleet),
                                       !.breaching = fleet]
                 claim == [verdict EXCEPT !.pc = "claim"]
      <4>1. st \in ProcState
        BY DEF Procs
      <4>2. /\ fleet \in SUBSET Breach
            /\ StatusFromFleet(fleet) \in {"healthy", "hot"}
        BY FleetType, StatusFromFleetType
      <4> HIDE DEF st, fleet
      <4>3. verdict \in ProcState
        BY <4>1, <4>2 DEF ProcState
      <4>4. claim \in ProcState /\ Reconcile(verdict) \in ProcState
        BY <4>3, ReconcileType DEF ProcState
      <4>5. \E st2 \in {claim, Reconcile(verdict)} :
              proc' = [proc EXCEPT ![p] = st2]
        BY <3>3 DEF TickReadFleet, ReconcileUnchanged, Go, st, fleet
      <4> HIDE DEF verdict, claim
      <4>6. proc' \in [Procs -> ProcState]
        BY <4>4, <4>5
      <4>7. QED
        BY <3>3, <4>6 DEF TickReadFleet
    <3>4. CASE TickClaim(p)
      BY <3>4, IdleType, ReconcileType DEF TickClaim, Go, Done, ProcState, Procs
    <3>5. QED
      BY <2>3, <2>4, <3>1, <3>2, <3>3, <3>4 DEF TickStep, Procs
  <2>5. ASSUME NEW p \in Procs, Crash(p) PROVE TypeOK'
    BY <2>5, IdleType DEF Crash, Go, Done, Spend, Events
  <2>6. CASE Advance
    BY <2>6 DEF Advance
  <2>7. ASSUME NEW w \in Windows, SaveWindow(w) PROVE TypeOK'
    BY <2>7 DEF SaveWindow, Spend, Events
  <2>8. ASSUME NEW i \in incidents, ResolveByHand(i) PROVE TypeOK'
    BY <2>8 DEF ResolveByHand, Spend, Events
  <2>9. CASE DeleteServer
    <3>1. [at |-> Never, breaches |-> {}] \in Sample
      BY DEF Sample
    <3>2. samples' \in [Hosts -> Sample]
      BY <2>9, <3>1 DEF DeleteServer
    <3>3. left' \in [Events -> Nat]
      BY <2>9 DEF DeleteServer, Spend, Events
    <3>4. QED
      BY <2>9, <3>2, <3>3 DEF DeleteServer
  <2>10. CASE UNCHANGED vars
    BY <2>10 DEF vars
  <2>11. QED
    BY <2>1, <2>2, <2>3, <2>4, <2>5, <2>6, <2>7, <2>8, <2>9, <2>10
       DEF Next, PushStep, Procs
<1>3. QED
  BY <1>1, <1>2, PTL DEF Spec

(***************************************************************************)
(* The baseline.  A tick acts, possibly much later, on a row it has read;  *)
(* what makes that safe is that last_sample_at is never null again, that   *)
(* 'unknown' means null, and that the overdue verdict it carries refers to *)
(* the baseline its write compares with.                                   *)
(***************************************************************************)
Reconciling == {"list", "close", "find", "create", "update"}

HeardFrom == server.exists => server.last_sample_at # Never

\* What a process may rely on at each of its program points.
ProcOK(p) ==
  LET st == proc[p]
  IN  /\ st.at <= now
      /\ st.pc = "commit" => st.at # Never
      /\ st.pc \in {"fleet", "claim"} \cup Reconciling => HeardFrom
      /\ st.pc \in {"fleet", "claim"} => st.baseline # Never
      /\ st.pc = "claim" => st.status # "unknown"
      /\ st.pc = "claim" /\ st.status = "quiet" =>
           Overdue(st.at, st.baseline, st.window)

BaselineInv ==
  /\ TypeOK
  /\ server.last_sample_at <= now
  /\ server.status = "unknown" <=> server.last_sample_at = Never
  /\ incidents # {} => HeardFrom
  /\ \A p \in Procs : ProcOK(p)

\* Starting a reconcile keeps the instant the push or tick judged at.
LEMMA ReconcileKeeps ==
  ASSUME NEW st \in ProcState
  PROVE  /\ Reconcile(st).at = st.at
         /\ Reconcile(st).pc \in {"list", "find"}
BY DEF Reconcile, ProcState

\* Going on after the closes keeps that instant too, or ends the process.
LEMMA AfterCloseKeeps ==
  ASSUME NEW st \in ProcState
  PROVE  /\ AfterClose(st).at \in {0, st.at}
         /\ AfterClose(st).pc \in {"idle", "list", "find"}
<1>1. CASE AfterClose(st) = Idle
  BY <1>1 DEF Idle
<1>2. CASE AfterClose(st) = [st EXCEPT !.pc = "list", !.kind = "server_hot", !.todo = {}]
  BY <1>2 DEF ProcState
<1>3. CASE AfterClose(st) = [st EXCEPT !.pc = "find", !.kind = "server_hot", !.todo = {}]
  BY <1>3 DEF ProcState
<1>4. QED
  BY <1>1, <1>2, <1>3 DEF AfterClose, ProcState

\* A step that changes one process keeps what the others rely on.
LEMMA OthersKeep ==
  ASSUME BaselineInv, NEW p \in Procs, NEW st,
         proc' = [proc EXCEPT ![p] = st],
         now' = now, HeardFrom => HeardFrom', ProcOK(p)'
  PROVE  \A q \in Procs : ProcOK(q)'
<1> SUFFICES ASSUME NEW q \in Procs, q # p PROVE ProcOK(q)'
  OBVIOUS
<1>1. proc'[q] = proc[q]
  BY DEF BaselineInv, TypeOK
<1>2. ProcOK(q)
  BY DEF BaselineInv
<1>3. QED
  BY <1>1, <1>2 DEF ProcOK, Overdue

\* Reconciling moves only within the incidents: it never touches the row.
LEMMA ReconcileStepKeeps ==
  ASSUME BaselineInv, TypeOK', NEW p \in Procs, ReconcileStep(p)
  PROVE  BaselineInv'
<1>1. proc[p] \in ProcState /\ ProcOK(p)
  BY DEF BaselineInv, TypeOK
<1>2. proc[p].pc \in Reconciling /\ UNCHANGED <<now, server>> /\ HeardFrom
  BY <1>1 DEF ReconcileStep, ListOpen, CloseOne, FindOpen, CreateIncident,
              UpdateIncident, Reconciling, ProcOK
<1>3. PICK st : /\ proc' = [proc EXCEPT ![p] = st]
                /\ st.at \in {0, proc[p].at}
                /\ st.pc \in Reconciling \cup {"idle"}
  <2>1. Idle.at = 0 /\ Idle.pc = "idle"
    BY DEF Idle
  <2>2. CASE ListOpen(p)
    <3> DEFINE closing == [proc[p] EXCEPT !.pc = "close",
                                          !.todo = IdsOfKind(proc[p].kind)]
    <3>1. closing.at = proc[p].at /\ closing.pc = "close"
      BY <1>1 DEF ProcState
    <3>2. \/ proc' = [proc EXCEPT ![p] = AfterClose(proc[p])]
          \/ proc' = [proc EXCEPT ![p] = closing]
      BY <2>2 DEF ListOpen, Go
    <3> HIDE DEF closing
    <3>3. QED
      BY <3>1, <3>2, <1>1, AfterCloseKeeps DEF Reconciling
  <2>3. CASE CloseOne(p)
    <3>1. PICK id \in proc[p].todo :
            \/ proc' = [proc EXCEPT ![p] = AfterClose(proc[p])]
            \/ proc' = [proc EXCEPT ![p] =
                          [proc[p] EXCEPT !.todo = proc[p].todo \ {id}]]
      BY <2>3 DEF CloseOne, Go
    <3> DEFINE closing == [proc[p] EXCEPT !.todo = proc[p].todo \ {id}]
    <3>2. closing.at = proc[p].at /\ closing.pc = proc[p].pc
      BY <1>1 DEF ProcState
    <3> HIDE DEF closing
    <3>3. proc' = [proc EXCEPT ![p] = AfterClose(proc[p])]
          \/ proc' = [proc EXCEPT ![p] = closing]
      BY <3>1 DEF closing
    <3>4. QED
      BY <1>1, <1>2, <3>2, <3>3, AfterCloseKeeps DEF Reconciling
  <2>4. CASE FindOpen(p)
    <3> DEFINE open == OpenFor(proc[p])
               creating == [proc[p] EXCEPT !.pc = "create"]
               updating == [proc[p] EXCEPT !.pc = "update",
                                           !.todo = {Oldest(open).id}]
    <3>1. /\ creating.at = proc[p].at /\ creating.pc = "create"
          /\ updating.at = proc[p].at /\ updating.pc = "update"
      BY <1>1 DEF ProcState
    <3>2. \/ proc' = [proc EXCEPT ![p] = creating]
          \/ proc' = [proc EXCEPT ![p] = updating]
          \/ proc' = [proc EXCEPT ![p] = Idle]
      BY <2>4 DEF FindOpen, Go, Done
    <3> HIDE DEF creating, updating
    <3>3. QED
      BY <2>1, <3>1, <3>2 DEF Reconciling
  <2>5. CASE CreateIncident(p) \/ UpdateIncident(p)
    BY <2>1, <2>5 DEF CreateIncident, UpdateIncident, Go, Done, Reconciling
  <2>6. QED
    BY <2>2, <2>3, <2>4, <2>5 DEF ReconcileStep
<1>4. proc'[p] = st
  BY <1>3 DEF BaselineInv, TypeOK
<1>5. HeardFrom'
  BY <1>2 DEF HeardFrom
<1>6. ProcOK(p)'
  BY <1>1, <1>2, <1>3, <1>4, <1>5 DEF ProcOK, Reconciling, BaselineInv, TypeOK
<1>7. QED
  BY <1>2, <1>3, <1>5, <1>6, OthersKeep DEF BaselineInv

\* What a tick knows after each of its own steps.
LEMMA TickStepKeeps ==
  ASSUME BaselineInv, TypeOK', NEW p \in Ticks, TickStep(p)
  PROVE  BaselineInv'
<1>0. p \in Procs /\ proc[p] \in ProcState /\ ProcOK(p)
  BY DEF BaselineInv, TypeOK, Procs
<1>1. CASE StartTick(p)
  <2> DEFINE st == [Idle EXCEPT !.pc = "row", !.at = now]
  <2>1. st.pc = "row" /\ st.at = now
    BY IdleType DEF ProcState
  <2>2. proc' = [proc EXCEPT ![p] = st] /\ UNCHANGED <<now, server, incidents>>
    BY <1>1 DEF StartTick, Go
  <2> HIDE DEF st
  <2>3. HeardFrom => HeardFrom'
    BY <2>2 DEF HeardFrom
  <2>4. ProcOK(p)'
    BY <1>0, <2>1, <2>2 DEF ProcOK, Reconciling, BaselineInv, TypeOK
  <2>5. QED
    BY <1>0, <2>2, <2>3, <2>4, OthersKeep DEF BaselineInv, HeardFrom
<1>2. CASE TickReadRow(p)
  <2> DEFINE st == proc[p]
             read == [st EXCEPT !.baseline = server.last_sample_at,
                                !.window = server.window,
                                !.status = server.status]
             inside == [read EXCEPT !.pc = "fleet"]
             silent == [read EXCEPT !.pc = "claim", !.status = "quiet"]
  <2>1. UNCHANGED <<now, server, incidents>>
    BY <1>2 DEF TickReadRow
  <2>2. read \in ProcState /\ read.at = st.at
    BY <1>0 DEF ProcState, BaselineInv, TypeOK
  <2>3. /\ inside.pc = "fleet" /\ inside.at = st.at
        /\ inside.baseline = server.last_sample_at
        /\ silent.pc = "claim" /\ silent.at = st.at /\ silent.status = "quiet"
        /\ silent.baseline = server.last_sample_at
        /\ silent.window = server.window
    BY <1>0 DEF ProcState
  <2>4. Reconcile(read).at = st.at /\ Reconcile(read).pc \in {"list", "find"}
    BY <2>2, ReconcileKeeps
  <2>5. Idle.at = 0 /\ Idle.pc = "idle"
    BY DEF Idle
  <2>6. PICK new \in {Idle, inside, silent, Reconcile(read)} :
          /\ proc' = [proc EXCEPT ![p] = new]
          /\ new # Idle => ~NeverHeardFrom
          /\ new = silent /\ new # Idle /\ new # inside /\ new # Reconcile(read)
               => Overdue(st.at, server.last_sample_at, server.window)
    <3>1. CASE NeverHeardFrom
      BY <1>2, <3>1 DEF TickReadRow, Done, Go
    <3>2. CASE ~NeverHeardFrom
      <4>1. read.baseline = server.last_sample_at /\ read.window = server.window
            /\ read.status = server.status
        BY <1>0 DEF ProcState
      <4> HIDE DEF read
      <4>2. CASE ~Overdue(st.at, server.last_sample_at, server.window)
        BY <1>2, <3>2, <4>1, <4>2 DEF TickReadRow, Go, read
      <4>3. CASE Overdue(st.at, server.last_sample_at, server.window)
        BY <1>2, <3>2, <4>1, <4>3 DEF TickReadRow, Go, read
      <4>4. QED
        BY <4>2, <4>3
    <3>3. QED
      BY <3>1, <3>2
  <2> HIDE DEF st, read, inside, silent
  <2>7. proc'[p] = new
    BY <1>0, <2>6 DEF BaselineInv, TypeOK
  <2>8. ProcOK(p)'
    <3>1. st.at <= now /\ st.at \in Nat
      BY <1>0 DEF ProcOK, ProcState, st
    <3>2. CASE new = Idle
      BY <2>1, <2>5, <2>7, <3>2 DEF ProcOK, Reconciling, BaselineInv, TypeOK
    <3>3. ASSUME new # Idle PROVE HeardFrom' /\ server.last_sample_at # Never
      BY <2>1, <2>6, <3>3 DEF NeverHeardFrom, HeardFrom
    <3>4. CASE new = inside /\ new # Idle
      BY <2>1, <2>3, <2>7, <3>1, <3>3, <3>4 DEF ProcOK, Reconciling
    <3>5. CASE new = Reconcile(read) /\ new # Idle
      BY <2>1, <2>4, <2>7, <3>1, <3>3, <3>5 DEF ProcOK, Reconciling
    <3>6. CASE new = silent /\ new # Idle /\ new # inside /\ new # Reconcile(read)
      BY <2>1, <2>3, <2>6, <2>7, <3>1, <3>3, <3>6 DEF ProcOK, Reconciling
    <3>7. QED
      BY <2>6, <3>2, <3>4, <3>5, <3>6
  <2>9. HeardFrom => HeardFrom'
    BY <2>1 DEF HeardFrom
  <2>10. QED
    BY <1>0, <2>1, <2>6, <2>8, <2>9, OthersKeep DEF BaselineInv, HeardFrom
<1>3. CASE TickReadFleet(p)
  <2> DEFINE st == proc[p]
             fleet == Fleet(samples, st.at, st.window)
             verdict == [st EXCEPT !.status = StatusFromFleet(fleet),
                                   !.breaching = fleet]
             claim == [verdict EXCEPT !.pc = "claim"]
  <2>1. UNCHANGED <<now, server, incidents>> /\ st.pc = "fleet"
    BY <1>3 DEF TickReadFleet
  <2>2. /\ fleet \in SUBSET Breach
        /\ StatusFromFleet(fleet) \in {"healthy", "hot"}
    BY FleetType, StatusFromFleetType DEF BaselineInv, TypeOK
  <2> HIDE DEF fleet
  <2>3. verdict \in ProcState /\ verdict.at = st.at
    BY <1>0, <2>2 DEF ProcState
  <2>4. /\ claim.at = st.at /\ claim.pc = "claim"
        /\ claim.baseline = st.baseline
        /\ claim.status \in {"healthy", "hot"}
    BY <1>0, <2>2 DEF ProcState
  <2>5. Reconcile(verdict).at = st.at /\ Reconcile(verdict).pc \in {"list", "find"}
    BY <2>3, ReconcileKeeps
  <2>6. PICK new \in {claim, Reconcile(verdict)} : proc' = [proc EXCEPT ![p] = new]
    BY <1>3 DEF TickReadFleet, ReconcileUnchanged, Go, fleet
  <2> HIDE DEF st, verdict, claim
  <2>7. proc'[p] = new
    BY <1>0, <2>6 DEF BaselineInv, TypeOK
  <2>8. HeardFrom' /\ st.at <= now /\ st.baseline # Never
    BY <1>0, <2>1 DEF ProcOK, HeardFrom, st
  <2>9. ProcOK(p)'
    <3>1. CASE new = claim
      BY <2>1, <2>4, <2>7, <2>8, <3>1 DEF ProcOK, Reconciling
    <3>2. CASE new = Reconcile(verdict)
      BY <2>1, <2>5, <2>7, <2>8, <3>2 DEF ProcOK, Reconciling
    <3>3. QED
      BY <2>6, <3>1, <3>2
  <2>10. QED
    BY <1>0, <2>1, <2>6, <2>8, <2>9, OthersKeep DEF BaselineInv, HeardFrom
<1>4. CASE TickClaim(p)
  <2> DEFINE st == proc[p]
  <2>1. UNCHANGED <<now, incidents>> /\ st.pc = "claim"
    BY <1>4 DEF TickClaim
  <2>2. /\ st.baseline # Never /\ st.status # "unknown" /\ st.at <= now
        /\ HeardFrom
    <3>1. st.at <= now
      BY <1>0 DEF ProcOK
    <3>2. HeardFrom
      BY <1>0, <2>1 DEF ProcOK
    <3>3. st.baseline # Never
      BY <1>0, <2>1 DEF ProcOK
    <3>4. st.status # "unknown"
      BY <1>0, <2>1 DEF ProcOK
    <3>5. QED
      BY <3>1, <3>2, <3>3, <3>4
  <2>3. Reconcile(st).at = st.at /\ Reconcile(st).pc \in {"list", "find"}
    BY <1>0, ReconcileKeeps
  <2>4. Idle.at = 0 /\ Idle.pc = "idle"
    BY DEF Idle
  <2>5. CASE BaselineStands(st)
    <3>1. /\ server' = [server EXCEPT !.status = st.status]
          /\ proc' = [proc EXCEPT ![p] = Reconcile(st)]
      BY <1>4, <2>5 DEF TickClaim, Go
    <3>2. /\ server'.last_sample_at = server.last_sample_at
          /\ server'.status = st.status /\ server'.exists = server.exists
          /\ server.last_sample_at = st.baseline
      BY <2>5, <3>1 DEF BaselineInv, TypeOK, BaselineStands
    <3>3. HeardFrom'
      BY <2>2, <3>2 DEF HeardFrom
    <3>4. proc'[p] = Reconcile(st)
      BY <1>0, <3>1 DEF BaselineInv, TypeOK
    <3>5. ProcOK(p)'
      BY <2>1, <2>2, <2>3, <3>3, <3>4 DEF ProcOK, Reconciling
    <3>6. \A q \in Procs : ProcOK(q)'
      BY <1>0, <2>1, <3>1, <3>3, <3>5, OthersKeep
    <3>7. QED
      BY <2>1, <2>2, <3>2, <3>3, <3>6 DEF BaselineInv
  <2>6. CASE ~BaselineStands(st)
    <3>1. UNCHANGED server /\ proc' = [proc EXCEPT ![p] = Idle]
      BY <1>4, <2>6 DEF TickClaim, Done, Go
    <3>2. proc'[p] = Idle /\ HeardFrom'
      BY <1>0, <2>2, <3>1 DEF BaselineInv, TypeOK, HeardFrom
    <3>3. ProcOK(p)'
      BY <2>1, <2>4, <3>2 DEF ProcOK, Reconciling, BaselineInv, TypeOK
    <3>4. QED
      BY <1>0, <2>1, <3>1, <3>2, <3>3, OthersKeep DEF BaselineInv, HeardFrom
  <2>7. QED
    BY <2>5, <2>6
<1>5. QED
  BY <1>0, <1>1, <1>2, <1>3, <1>4, ReconcileStepKeeps DEF TickStep

(***************************************************************************)
(* The inductive invariant: what every push, tick and reconcile in flight  *)
(* still relies on when it writes, its compare-and-set included.           *)
(***************************************************************************)
THEOREM Baseline == Spec => []BaselineInv
<1>1. Init => BaselineInv
  <2> SUFFICES ASSUME Init PROVE BaselineInv
    OBVIOUS
  <2>1. Idle.at = 0 /\ Idle.pc = "idle"
    BY DEF Idle
  <2>2. TypeOK
    BY TypeInit
  <2>3. ASSUME NEW p \in Procs PROVE ProcOK(p)
    BY <2>1, <2>3 DEF Init, ProcOK, Reconciling
  <2>4. QED
    BY <2>2, <2>3 DEF Init, BaselineInv
<1>2. TypeOK' /\ BaselineInv /\ [Next]_vars => BaselineInv'
  <2> SUFFICES ASSUME TypeOK', BaselineInv, [Next]_vars PROVE BaselineInv'
    OBVIOUS
  <2>0. Idle.at = 0 /\ Idle.pc = "idle"
    BY DEF Idle
  <2>1. ASSUME NEW p \in Handlers, NEW h \in Hosts, NEW b \in SUBSET Metrics,
               StartPush(p, h, b)
        PROVE  BaselineInv'
    <3> DEFINE st == [Idle EXCEPT !.pc = "commit", !.at = now,
                                  !.window = server.window, !.host = h,
                                  !.breaches = b]
    <3>1. st.pc = "commit" /\ st.at = now
      BY IdleType DEF ProcState
    <3>2. /\ proc' = [proc EXCEPT ![p] = st]
          /\ UNCHANGED <<now, server, incidents>>
      BY <2>1 DEF StartPush, Go
    <3> HIDE DEF st
    <3>3. ProcOK(p)' /\ p \in Procs
      BY <3>1, <3>2 DEF ProcOK, Reconciling, BaselineInv, TypeOK, Procs
    <3>4. HeardFrom => HeardFrom'
      BY <3>2 DEF HeardFrom
    <3>5. QED
      BY <3>2, <3>3, <3>4, OthersKeep DEF BaselineInv, HeardFrom
  <2>2. ASSUME NEW p \in Handlers, CommitPush(p) PROVE BaselineInv'
    <3>1. p \in Procs /\ proc[p] \in ProcState /\ ProcOK(p) /\ proc[p].pc = "commit"
      BY <2>2 DEF BaselineInv, TypeOK, Procs, CommitPush
    <3> DEFINE st == proc[p]
               fleet == Fleet(Stored(samples, st.host, st.at, st.breaches),
                              st.at, st.window)
               status == StatusFromFleet(fleet)
               verdict == [st EXCEPT !.status = status, !.breaching = fleet,
                                     !.host = Idle.host, !.breaches = {}]
    <3>2. st.at \in Nat /\ st.at # Never /\ st.at <= now
      BY <3>1 DEF ProcOK, ProcState
    <3>3. status \in {"healthy", "hot"} /\ fleet \in SUBSET Breach
      BY <3>1, StatusFromFleetType, FleetType, StoredType
         DEF ProcState, BaselineInv, TypeOK
    <3> HIDE DEF fleet, status
    <3>4. verdict \in ProcState /\ verdict.at = st.at
      BY <3>1, <3>3, IdleType DEF ProcState
    <3>5. Reconcile(verdict).at = st.at /\ Reconcile(verdict).pc \in {"list", "find"}
      BY <3>4, ReconcileKeeps
    <3>6. /\ proc' = [proc EXCEPT ![p] = Reconcile(verdict)]
          /\ server' = IF server.exists
                       THEN [server EXCEPT !.status = status, !.last_sample_at = st.at]
                       ELSE server
          /\ UNCHANGED <<now, incidents>>
      BY <2>2 DEF CommitPush, Go, status, fleet
    <3> HIDE DEF st, verdict
    <3>7. /\ server'.exists => /\ server'.last_sample_at = st.at
                               /\ server'.status = status
          /\ ~server'.exists => server' = server
      BY <3>6 DEF BaselineInv, TypeOK
    <3>8. HeardFrom'
      BY <3>2, <3>7 DEF HeardFrom
    <3>9. proc'[p] = Reconcile(verdict)
      BY <3>1, <3>6 DEF BaselineInv, TypeOK
    <3>10. ProcOK(p)'
      BY <3>2, <3>5, <3>6, <3>8, <3>9 DEF ProcOK, Reconciling
    <3>11. \A q \in Procs : ProcOK(q)'
      BY <3>1, <3>6, <3>8, <3>10, OthersKeep
    <3>12. QED
      BY <3>2, <3>3, <3>6, <3>7, <3>8, <3>11 DEF BaselineInv, TypeOK
  <2>3. ASSUME NEW p \in Procs, Crash(p) PROVE BaselineInv'
    <3>1. proc' = [proc EXCEPT ![p] = Idle] /\ UNCHANGED <<now, server, incidents>>
      BY <2>3 DEF Crash, Done, Go
    <3>2. ProcOK(p)'
      BY <2>0, <3>1 DEF ProcOK, Reconciling, BaselineInv, TypeOK
    <3>3. HeardFrom => HeardFrom'
      BY <3>1 DEF HeardFrom
    <3>4. QED
      BY <3>1, <3>2, <3>3, OthersKeep DEF BaselineInv, HeardFrom
  <2>4. CASE Advance
    <3>1. now' = now + 1 /\ UNCHANGED <<server, incidents, proc>> /\ now \in Nat
      BY <2>4 DEF Advance, BaselineInv, TypeOK
    <3>2. ASSUME NEW p \in Procs PROVE ProcOK(p)'
      BY <3>1 DEF BaselineInv, TypeOK, ProcOK, HeardFrom, Overdue, ProcState
    <3>3. QED
      BY <3>1, <3>2 DEF BaselineInv, HeardFrom, TypeOK
  <2>5. ASSUME NEW w \in Windows, SaveWindow(w) PROVE BaselineInv'
    <3>1. /\ UNCHANGED <<now, incidents, proc>>
          /\ server'.last_sample_at = server.last_sample_at
          /\ server'.status = server.status /\ server'.exists = server.exists
      BY <2>5 DEF SaveWindow, BaselineInv, TypeOK
    <3>2. QED
      BY <3>1 DEF BaselineInv, ProcOK, HeardFrom, Overdue
  <2>6. ASSUME NEW i \in incidents, ResolveByHand(i) PROVE BaselineInv'
    BY <2>6 DEF ResolveByHand, BaselineInv, ProcOK, HeardFrom, Overdue
  <2>7. CASE DeleteServer
    <3>1. /\ UNCHANGED <<now, proc>> /\ incidents' = {}
          /\ server'.last_sample_at = server.last_sample_at
          /\ server'.status = server.status /\ ~server'.exists
      BY <2>7 DEF DeleteServer, BaselineInv, TypeOK
    <3>2. QED
      BY <3>1 DEF BaselineInv, ProcOK, HeardFrom, Overdue
  <2>8. CASE UNCHANGED vars
    BY <2>8 DEF vars, BaselineInv, ProcOK, HeardFrom, Overdue
  <2>9. QED
    BY <2>1, <2>2, <2>3, <2>4, <2>5, <2>6, <2>7, <2>8, ReconcileStepKeeps,
       TickStepKeeps DEF Next, PushStep, Procs
<1>3. QED
  BY <1>1, <1>2, TypeCorrect, PTL DEF Spec

\* An agent that was never heard from is not an agent that went quiet.
THEOREM NobodyPagedTooEarly == Spec => []NoIncidentBeforeFirstSample
<1>1. BaselineInv => NoIncidentBeforeFirstSample
  BY DEF BaselineInv, NoIncidentBeforeFirstSample, HeardFrom
<1>2. QED
  BY <1>1, Baseline, PTL

\* However late a tick writes, it silences only a box whose baseline is overdue.
THEOREM QuietIsOverdue == Spec => QuietOnlyWhenOverdue
<1> DEFINE A == server.status # "quiet" /\ server'.status = "quiet"
                 => \E p \in Ticks :
                      Overdue(now, server.last_sample_at, proc[p].window)
<1>1. BaselineInv /\ BaselineInv' /\ [Next]_vars => A
  <2> SUFFICES ASSUME BaselineInv, [Next]_vars,
                      server.status # "quiet", server'.status = "quiet"
               PROVE  \E p \in Ticks :
                        Overdue(now, server.last_sample_at, proc[p].window)
    OBVIOUS
  <2>1. ASSUME NEW p \in Ticks, TickClaim(p)
        PROVE  Overdue(now, server.last_sample_at, proc[p].window)
    <3>1. proc[p] \in ProcState /\ ProcOK(p) /\ proc[p].pc = "claim"
      BY <2>1 DEF BaselineInv, TypeOK, Procs, TickClaim
    <3>2. /\ server.last_sample_at = proc[p].baseline
          /\ proc[p].status = "quiet"
      BY <2>1 DEF TickClaim, BaselineStands, BaselineInv, TypeOK
    <3>3. now \in Nat /\ proc[p].window \in Nat /\ proc[p].at \in Nat
          /\ proc[p].baseline \in Nat
      BY <3>1, ServerAssumption DEF ProcState, BaselineInv, TypeOK
    <3>4. QED
      BY <3>1, <3>2, <3>3 DEF ProcOK, Overdue
  <2>2. ASSUME NEW p \in Handlers, CommitPush(p) PROVE FALSE
    <3> DEFINE fleet == Fleet(Stored(samples, proc[p].host, proc[p].at,
                                     proc[p].breaches),
                              proc[p].at, proc[p].window)
    <3>1. server' = IF server.exists
                    THEN [server EXCEPT !.status = StatusFromFleet(fleet),
                                        !.last_sample_at = proc[p].at]
                    ELSE server
      BY <2>2 DEF CommitPush
    <3>2. StatusFromFleet(fleet) \in {"healthy", "hot"}
      BY StatusFromFleetType
    <3>3. QED
      BY <3>1, <3>2 DEF BaselineInv, TypeOK
  <2>3. ASSUME NEW p \in Procs, ReconcileStep(p) PROVE FALSE
    BY <2>3 DEF ReconcileStep, ListOpen, CloseOne, FindOpen, CreateIncident,
                UpdateIncident
  <2>4. ASSUME NEW w \in Windows, SaveWindow(w) PROVE FALSE
    BY <2>4 DEF SaveWindow, BaselineInv, TypeOK
  <2>5. ASSUME DeleteServer PROVE FALSE
    BY <2>5 DEF DeleteServer, BaselineInv, TypeOK
  <2>6. QED
    BY <2>1, <2>2, <2>3, <2>4, <2>5
       DEF Next, PushStep, TickStep, StartPush, StartTick, TickReadRow,
           TickReadFleet, Crash, Advance, ResolveByHand, vars, Procs
<1>2. QED
  BY <1>1, Baseline, PTL DEF Spec, QuietOnlyWhenOverdue

(***************************************************************************)
(* The detailed specification implements the abstract one: whatever pushes *)
(* and ticks interleave, the row moves as ServerStatus promises its        *)
(* readers.  Two processes write the status; a commit is a Sample, a claim *)
(* is a Reassess, a GoQuiet or no move, and nothing else moves the row.    *)
(***************************************************************************)
LEMMA CommitIsSample ==
  ASSUME BaselineInv, NEW p \in Handlers, CommitPush(p)
  PROVE  StatusOfTheBox!Sample \/ UNCHANGED <<now, server>>
<1> DEFINE fleet == Fleet(Stored(samples, proc[p].host, proc[p].at,
                                 proc[p].breaches),
                          proc[p].at, proc[p].window)
<1>1. /\ server' = IF server.exists
                   THEN [server EXCEPT !.status = StatusFromFleet(fleet),
                                       !.last_sample_at = proc[p].at]
                   ELSE server
      /\ now' = now /\ proc[p].pc = "commit"
  BY DEF CommitPush
<1>2. StatusFromFleet(fleet) \in {"healthy", "hot"}
  BY StatusFromFleetType
<1> HIDE DEF fleet
<1>3. proc[p].at \in 1 .. now
  BY <1>1 DEF BaselineInv, TypeOK, Procs, ProcOK, ProcState
<1>4. CASE server.exists
  BY <1>1, <1>2, <1>3, <1>4
     DEF BaselineInv, TypeOK, StatusOfTheBox!Sample, StatusOfTheBox!Answering
<1>5. QED
  BY <1>1, <1>4

\* A tick that writes its verdict (claimServerStatus, the
\* compare-and-set of CheckStaleServers) reassesses the box, sends it quiet for a
\* baseline that outlived a window, or writes nothing.
LEMMA ClaimIsReassessment ==
  ASSUME BaselineInv, NEW p \in Ticks, TickClaim(p)
  PROVE  \/ StatusOfTheBox!Reassess \/ StatusOfTheBox!GoQuiet
         \/ UNCHANGED <<now, server>>
<1>1. proc[p] \in ProcState /\ ProcOK(p) /\ proc[p].pc = "claim" /\ now' = now
  BY DEF BaselineInv, TypeOK, Procs, TickClaim
<1>2. CASE ~BaselineStands(proc[p])
  BY <1>1, <1>2 DEF TickClaim
<1>3. CASE BaselineStands(proc[p])
  <2>1. /\ server' = [server EXCEPT !.status = proc[p].status]
        /\ server.last_sample_at = proc[p].baseline
    BY <1>3 DEF TickClaim, BaselineStands
  <2>2. /\ proc[p].status \in {"healthy", "hot", "quiet"}
        /\ server.last_sample_at # Never
        /\ server.status \in {"healthy", "hot", "quiet"}
    BY <1>1, <2>1 DEF ProcOK, ProcState, BaselineInv, TypeOK
  <2>3. /\ server'.status = proc[p].status
        /\ server'.last_sample_at = server.last_sample_at
    BY <2>1 DEF BaselineInv, TypeOK
  <2>4. CASE proc[p].status # "quiet"
    BY <1>1, <2>2, <2>3, <2>4
       DEF StatusOfTheBox!Reassess, StatusOfTheBox!Answering,
           StatusOfTheBox!Never
  <2>5. CASE proc[p].status = "quiet" /\ server.status = "quiet"
    BY <1>1, <2>1, <2>5 DEF BaselineInv, TypeOK
  <2>6. CASE proc[p].status = "quiet" /\ server.status # "quiet"
    <3>1. proc[p].window \in Windows /\ proc[p].window \in Nat
          /\ now \in Nat /\ proc[p].at \in Nat /\ proc[p].baseline \in Nat
      BY <1>1, ServerAssumption DEF ProcState, BaselineInv, TypeOK
    <3>2. now >= server.last_sample_at + proc[p].window
      BY <1>1, <2>1, <2>6, <3>1 DEF ProcOK, Overdue
    <3>3. QED
      BY <1>1, <2>2, <2>3, <2>6, <3>1, <3>2
         DEF StatusOfTheBox!GoQuiet, StatusOfTheBox!Answering
  <2>7. QED
    BY <2>4, <2>5, <2>6
<1>4. QED
  BY <1>2, <1>3

\* Whatever pushes and ticks interleave, the status and the baseline of the row
\* move as the abstract ServerStatus promises everyone who reads them.
THEOREM KeepsStatusPromise == Spec => StatusPromise
<1> DEFINE readers == <<now, server.status, server.last_sample_at>>
<1>1. Init => StatusOfTheBox!Init
  BY DEF Init, StatusOfTheBox!Init, StatusOfTheBox!Never
<1>2. BaselineInv /\ [Next]_vars => [StatusOfTheBox!Next]_readers
  <2> SUFFICES ASSUME BaselineInv, [Next]_vars
               PROVE  StatusOfTheBox!Next \/ UNCHANGED readers
    OBVIOUS
  <2>1. ASSUME NEW p \in Handlers, CommitPush(p)
        PROVE  StatusOfTheBox!Next \/ UNCHANGED readers
    BY <2>1, CommitIsSample DEF StatusOfTheBox!Next
  <2>2. ASSUME NEW p \in Ticks, TickClaim(p)
        PROVE  StatusOfTheBox!Next \/ UNCHANGED readers
    BY <2>2, ClaimIsReassessment DEF StatusOfTheBox!Next
  <2>3. ASSUME NEW p \in Procs, ReconcileStep(p) PROVE UNCHANGED readers
    BY <2>3 DEF ReconcileStep, ListOpen, CloseOne, FindOpen, CreateIncident,
                UpdateIncident
  <2>4. CASE Advance
    BY <2>4 DEF Advance, StatusOfTheBox!Next, StatusOfTheBox!Tick
  <2>5. ASSUME NEW w \in Windows, SaveWindow(w) PROVE UNCHANGED readers
    BY <2>5 DEF SaveWindow, BaselineInv, TypeOK
  <2>6. CASE DeleteServer
    BY <2>6 DEF DeleteServer, BaselineInv, TypeOK
  <2>7. QED
    BY <2>1, <2>2, <2>3, <2>4, <2>5, <2>6
       DEF Next, PushStep, TickStep, StartPush, StartTick, TickReadRow,
           TickReadFleet, Crash, ResolveByHand, vars, Procs
<1>3. QED
  BY <1>1, <1>2, Baseline, PTL DEF Spec, StatusPromise, StatusOfTheBox!Spec

(***************************************************************************)
(* How many incidents the races can open of a kind, that runs one after    *)
(* another open one, and that they leave open what the status says.        *)
(***************************************************************************)
\* The processes that looked, saw nothing of kind k open, and are about to
\* open one: openServerIncidentOfKind between its read and its insert.
Creating(k) == {p \in Procs : proc[p].pc = "create" /\ proc[p].kind = k}

(***************************************************************************)
(* IncidentsNeverStack is not inductive: what bounds the incidents is that *)
(* a process about to open one saw none, so that it is counted before the  *)
(* insert.  The open incidents and the pending inserts together never      *)
(* exceed the processes.                                                   *)
(***************************************************************************)
Bounded(k) ==
  /\ IsFiniteSet(OpenOfKind(k))
  /\ Cardinality(OpenOfKind(k)) + Cardinality(Creating(k)) <= Cardinality(Procs)

StackInv == \A k \in Kinds : Bounded(k)

\* There are finitely many processes, so finitely many pending inserts.
LEMMA CreatingFinite ==
  ASSUME NEW k
  PROVE  /\ IsFiniteSet(Procs) /\ Cardinality(Procs) \in Nat
         /\ IsFiniteSet(Creating(k)) /\ Cardinality(Creating(k)) \in Nat
         /\ Cardinality(Creating(k)) <= Cardinality(Procs)
<1>1. IsFiniteSet(Procs)
  BY FS_Union, ServerAssumption DEF Procs
<1>2. Creating(k) \in SUBSET Procs
  BY DEF Creating
<1>3. QED
  BY <1>1, <1>2, FS_Subset, FS_CardinalityType

\* The same of the next state.
LEMMA CreatingFiniteNext ==
  ASSUME NEW k
  PROVE  IsFiniteSet(Creating(k)') /\ Cardinality(Creating(k)') \in Nat
<1>1. Creating(k)' \in SUBSET Procs
  BY DEF Creating
<1>2. QED
  BY <1>1, CreatingFinite, FS_Subset, FS_CardinalityType

\* A step that adds neither an incident nor a pending insert keeps the bound.
LEMMA FewerIsBounded ==
  ASSUME NEW k, Bounded(k),
         OpenOfKind(k)' \subseteq OpenOfKind(k),
         Creating(k)' \subseteq Creating(k)
  PROVE  Bounded(k)'
<1>1. /\ IsFiniteSet(OpenOfKind(k)') /\ Cardinality(OpenOfKind(k)') \in Nat
      /\ Cardinality(OpenOfKind(k)) \in Nat
      /\ Cardinality(OpenOfKind(k)') <= Cardinality(OpenOfKind(k))
  BY FS_Subset, FS_CardinalityType DEF Bounded
<1>2. /\ Cardinality(Creating(k)') \in Nat
      /\ Cardinality(Creating(k)') <= Cardinality(Creating(k))
  BY CreatingFinite, CreatingFiniteNext, FS_Subset
<1>3. Cardinality(Procs)' = Cardinality(Procs)
  OBVIOUS
<1>4. QED
  BY <1>1, <1>2, <1>3, CreatingFinite DEF Bounded

\* Moving one process to any point but the insert adds no pending insert.
LEMMA NoNewCreator ==
  ASSUME NEW k, NEW p \in Procs, NEW st, TypeOK,
         proc' = [proc EXCEPT ![p] = st], st.pc # "create"
  PROVE  Creating(k)' \subseteq Creating(k) \ {p}
<1> SUFFICES ASSUME NEW q \in Creating(k)' PROVE q \in Creating(k) \ {p}
  OBVIOUS
<1>1. q \in Procs /\ proc'[q].pc = "create" /\ proc'[q].kind = k
  BY DEF Creating
<1>2. q # p
  BY <1>1 DEF TypeOK
<1>3. QED
  BY <1>1, <1>2 DEF Creating, TypeOK

\* Looking: a process that goes on to insert saw nothing open, and then there
\* is nothing to add to the pending inserts.
LEMMA FindKeepsBound ==
  ASSUME TypeOK, NEW k \in Kinds, Bounded(k), NEW p \in Procs, FindOpen(p)
  PROVE  Bounded(k)'
<1>1. OpenOfKind(k)' = OpenOfKind(k) /\ proc[p] \in ProcState
  BY DEF FindOpen, OpenOfKind, TypeOK
<1>2. CASE OpenOfKind(proc[p].kind) = {} /\ proc[p].kind = k
  <2>1. OpenOfKind(k)' = {}
    BY <1>1, <1>2
  <2>2. /\ Cardinality(Creating(k)') \in Nat
        /\ Cardinality(Creating(k)') <= Cardinality(Procs)
    <3>1. Creating(k)' \in SUBSET Procs
      BY DEF Creating
    <3>2. QED
      BY <3>1, CreatingFinite, CreatingFiniteNext, FS_Subset
  <2>3. IsFiniteSet(OpenOfKind(k)') /\ Cardinality(OpenOfKind(k)') = 0
    BY <2>1, FS_EmptySet
  <2>4. QED
    BY <2>2, <2>3, CreatingFinite DEF Bounded
<1>3. CASE OpenOfKind(proc[p].kind) = {} /\ proc[p].kind # k
  <2> DEFINE st == [proc[p] EXCEPT !.pc = "create"]
  <2>1. proc' = [proc EXCEPT ![p] = st]
    BY <1>3 DEF FindOpen, OpenFor, Go
  <2>2. st.kind = proc[p].kind
    BY <1>1 DEF ProcState
  <2> HIDE DEF st
  <2>3. Creating(k)' \subseteq Creating(k)
    BY <1>3, <2>1, <2>2 DEF Creating, TypeOK
  <2>4. QED
    BY <1>1, <2>3, FewerIsBounded
<1>4. CASE OpenOfKind(proc[p].kind) # {}
  <2> DEFINE updating == [proc[p] EXCEPT !.pc = "update",
                            !.todo = {Oldest(OpenFor(proc[p])).id}]
  <2>1. proc' = [proc EXCEPT ![p] = updating] \/ proc' = [proc EXCEPT ![p] = Idle]
    BY <1>4 DEF FindOpen, OpenFor, Go, Done
  <2>2. updating.pc = "update" /\ Idle.pc = "idle"
    BY <1>1, IdleType DEF ProcState
  <2> HIDE DEF updating
  <2>3. Creating(k)' \subseteq Creating(k) \ {p}
    BY <2>1, <2>2, NoNewCreator
  <2>4. QED
    BY <1>1, <2>3, FewerIsBounded
<1>5. QED
  BY <1>2, <1>3, <1>4

\* Inserting: one pending insert becomes at most one incident.
LEMMA CreateKeepsBound ==
  ASSUME TypeOK, NEW k \in Kinds, Bounded(k), NEW p \in Procs, CreateIncident(p)
  PROVE  Bounded(k)'
<1>1. /\ proc[p] \in ProcState /\ proc[p].pc = "create"
      /\ proc' = [proc EXCEPT ![p] = Idle]
  BY DEF CreateIncident, Done, Go, TypeOK
<1>2. Creating(k)' \subseteq Creating(k) \ {p}
  BY <1>1, IdleType, NoNewCreator
<1> DEFINE new == [id |-> nextId, kind |-> proc[p].kind, hosts |-> proc[p].breaching]
<1>3. incidents' = incidents \/ incidents' = incidents \cup {new}
  BY DEF CreateIncident
<1>4. CASE incidents' = incidents \/ proc[p].kind # k
  <2>1. OpenOfKind(k)' \subseteq OpenOfKind(k)
    BY <1>3, <1>4 DEF OpenOfKind
  <2>2. QED
    BY <1>2, <2>1, FewerIsBounded
<1>5. CASE incidents' = incidents \cup {new} /\ proc[p].kind = k
  <2>1. p \in Creating(k)
    BY <1>1, <1>5 DEF Creating
  <2>2. /\ Cardinality(Creating(k)') \in Nat
        /\ Cardinality(Creating(k)') <= Cardinality(Creating(k)) - 1
    <3>1. /\ IsFiniteSet(Creating(k) \ {p})
          /\ Cardinality(Creating(k) \ {p}) = Cardinality(Creating(k)) - 1
      BY <2>1, CreatingFinite, FS_RemoveElement
    <3>2. QED
      BY <1>2, <3>1, CreatingFiniteNext, FS_Subset
  <2>3. OpenOfKind(k)' = OpenOfKind(k) \cup {new}
    BY <1>5 DEF OpenOfKind
  <2> HIDE DEF new
  <2>4. /\ IsFiniteSet(OpenOfKind(k)')
        /\ Cardinality(OpenOfKind(k)) \in Nat
        /\ Cardinality(OpenOfKind(k)') \in Nat
        /\ Cardinality(OpenOfKind(k)') <= Cardinality(OpenOfKind(k)) + 1
    <3> DEFINE S == OpenOfKind(k)
               T == OpenOfKind(k)'
    <3>1. T = S \cup {new} /\ IsFiniteSet(S)
      BY <2>3 DEF Bounded
    <3> HIDE DEF S, T
    <3>2. /\ IsFiniteSet(T)
          /\ Cardinality(T) = IF new \in S THEN Cardinality(S) ELSE Cardinality(S) + 1
      BY <3>1, FS_AddElement
    <3>3. Cardinality(S) \in Nat
      BY <3>1, FS_CardinalityType
    <3>4. QED
      BY <3>2, <3>3 DEF S, T
  <2>5. QED
    BY <2>2, <2>4, CreatingFinite DEF Bounded
<1>6. QED
  BY <1>3, <1>4, <1>5

\* Rewriting the breach set of an incident adds none of any kind.
LEMMA UpdateKeepsBound ==
  ASSUME TypeOK, NEW k \in Kinds, Bounded(k), NEW p \in Procs, UpdateIncident(p)
  PROVE  Bounded(k)'
<1>1. /\ proc[p] \in ProcState
      /\ proc' = [proc EXCEPT ![p] = Idle]
  BY DEF UpdateIncident, Done, Go, TypeOK
<1>2. Creating(k)' \subseteq Creating(k) \ {p}
  BY <1>1, IdleType, NoNewCreator
<1> DEFINE rewritten(i) == IF i.id \in proc[p].todo
                           THEN [i EXCEPT !.hosts = proc[p].breaching] ELSE i
           f == [i \in OpenOfKind(k) |-> rewritten(i)]
<1>3. incidents' = {rewritten(i) : i \in incidents}
  BY DEF UpdateIncident
<1>4. \A i \in incidents : rewritten(i).kind = i.kind
  BY DEF TypeOK, Incident
<1> HIDE DEF rewritten
<1>5. OpenOfKind(k)' = {rewritten(i) : i \in OpenOfKind(k)}
  BY <1>3, <1>4 DEF OpenOfKind
<1>6. f \in Surjection(OpenOfKind(k), OpenOfKind(k)')
  BY <1>5 DEF Surjection
<1>7. /\ IsFiniteSet(OpenOfKind(k)')
      /\ Cardinality(OpenOfKind(k)') \in Nat /\ Cardinality(OpenOfKind(k)) \in Nat
      /\ Cardinality(OpenOfKind(k)') <= Cardinality(OpenOfKind(k))
  BY <1>6, FS_Surjection, FS_CardinalityType DEF Bounded
<1>8. /\ Cardinality(Creating(k)') \in Nat
      /\ Cardinality(Creating(k)') <= Cardinality(Creating(k))
  BY <1>2, CreatingFinite, CreatingFiniteNext, FS_Subset
<1>9. QED
  BY <1>7, <1>8, CreatingFinite DEF Bounded

\* Every other step moves a process elsewhere, or only removes incidents.
AddsNothing(k) == /\ OpenOfKind(k)' \subseteq OpenOfKind(k)
                  /\ Creating(k)' \subseteq Creating(k)

\* While nobody looks for, inserts or rewrites an incident (the three statements
\* of openIncident, src/app/lib/incidents.ts), no incident of any kind
\* appears and no insert becomes pending.
LEMMA OtherStepsAddNothing ==
  ASSUME TypeOK, NEW k \in Kinds, [Next]_vars,
         \A p \in Procs : ~(FindOpen(p) \/ CreateIncident(p) \/ UpdateIncident(p))
  PROVE  AddsNothing(k)
<1>1. ASSUME NEW p \in Procs, NEW st, proc' = [proc EXCEPT ![p] = st],
             st.pc # "create", OpenOfKind(k)' \subseteq OpenOfKind(k)
      PROVE  AddsNothing(k)
  BY <1>1, NoNewCreator DEF AddsNothing
<1>2. ASSUME NEW p \in Handlers, NEW h \in Hosts, NEW b \in SUBSET Metrics,
             StartPush(p, h, b)
      PROVE  AddsNothing(k)
  <2> DEFINE st == [Idle EXCEPT !.pc = "commit", !.at = now,
                                !.window = server.window, !.host = h,
                                !.breaches = b]
  <2>1. st.pc = "commit"
    BY IdleType DEF ProcState
  <2>2. proc' = [proc EXCEPT ![p] = st] /\ OpenOfKind(k)' = OpenOfKind(k)
    BY <1>2 DEF StartPush, Go, OpenOfKind
  <2> HIDE DEF st
  <2>3. QED
    BY <1>1, <2>1, <2>2 DEF Procs
<1>3. ASSUME NEW p \in Handlers, CommitPush(p) PROVE AddsNothing(k)
  <2> DEFINE fleet == Fleet(Stored(samples, proc[p].host, proc[p].at,
                                   proc[p].breaches),
                            proc[p].at, proc[p].window)
             verdict == [proc[p] EXCEPT !.status = StatusFromFleet(fleet),
                                        !.breaching = fleet,
                                        !.host = Idle.host, !.breaches = {}]
  <2>1. p \in Procs /\ proc[p] \in ProcState
    BY DEF Procs, TypeOK
  <2>2. StatusFromFleet(fleet) \in {"healthy", "hot"} /\ fleet \in SUBSET Breach
    BY <2>1, StatusFromFleetType, FleetType, StoredType DEF ProcState, TypeOK
  <2>3. /\ proc' = [proc EXCEPT ![p] = Reconcile(verdict)]
        /\ OpenOfKind(k)' = OpenOfKind(k)
    BY <1>3 DEF CommitPush, Go, OpenOfKind
  <2> HIDE DEF fleet
  <2>4. verdict \in ProcState
    BY <2>1, <2>2, IdleType DEF ProcState, Status
  <2> HIDE DEF verdict
  <2>5. Reconcile(verdict).pc # "create"
    BY <2>4, ReconcileType
  <2>6. QED
    BY <1>1, <2>1, <2>3, <2>5
<1>4. ASSUME NEW p \in Ticks, StartTick(p) PROVE AddsNothing(k)
  <2> DEFINE st == [Idle EXCEPT !.pc = "row", !.at = now]
  <2>1. st.pc = "row"
    BY IdleType DEF ProcState
  <2>2. proc' = [proc EXCEPT ![p] = st] /\ OpenOfKind(k)' = OpenOfKind(k)
    BY <1>4 DEF StartTick, Go, OpenOfKind
  <2>3. p \in Procs /\ st.pc # "create"
    BY <2>1 DEF Procs
  <2> HIDE DEF st
  <2>4. QED
    BY <1>1, <2>2, <2>3
<1>5. ASSUME NEW p \in Ticks, TickReadRow(p) PROVE AddsNothing(k)
  <2> DEFINE read == [proc[p] EXCEPT !.baseline = server.last_sample_at,
                                     !.window = server.window,
                                     !.status = server.status]
             fleet == [read EXCEPT !.pc = "fleet"]
             claim == [read EXCEPT !.pc = "claim", !.status = "quiet"]
  <2>1. p \in Procs /\ read \in ProcState
    <3>1. p \in Procs
      BY DEF Procs
    <3>2. proc[p] \in ProcState
      BY <3>1 DEF TypeOK
    <3>3. server.last_sample_at \in Nat /\ server.window \in Windows /\ server.status \in Status
      BY DEF TypeOK
    <3> HIDE DEF Status, PCs, Kinds
    <3>4. ASSUME NEW st \in ProcState
          PROVE  /\ [st EXCEPT !.baseline = server.last_sample_at] \in ProcState
                 /\ [st EXCEPT !.window = server.window] \in ProcState
                 /\ [st EXCEPT !.status = server.status] \in ProcState
      BY <3>3 DEF ProcState
    <3>5. read = [[[proc[p] EXCEPT !.baseline = server.last_sample_at]
                     EXCEPT !.window = server.window] EXCEPT !.status = server.status]
      OBVIOUS
    <3>6. QED
      BY <3>1, <3>2, <3>4, <3>5, Zenon
  <2>2. \/ proc' = [proc EXCEPT ![p] = Idle]
        \/ proc' = [proc EXCEPT ![p] = fleet]
        \/ proc' = [proc EXCEPT ![p] = claim]
        \/ proc' = [proc EXCEPT ![p] = Reconcile(read)]
    BY <1>5 DEF TickReadRow, Go, Done
  <2>3. OpenOfKind(k)' = OpenOfKind(k)
    BY <1>5 DEF TickReadRow, OpenOfKind
  <2> HIDE DEF read
  <2>4. fleet.pc = "fleet" /\ claim.pc = "claim"
    BY <2>1 DEF ProcState
  <2> HIDE DEF fleet, claim
  <2>5. Reconcile(read).pc # "create" /\ Idle.pc # "create"
    BY <2>1, ReconcileType, IdleType
  <2>6. QED
    BY <1>1, <2>1, <2>2, <2>3, <2>4, <2>5
<1>6. ASSUME NEW p \in Ticks, TickReadFleet(p) PROVE AddsNothing(k)
  <2> DEFINE fleet == Fleet(samples, proc[p].at, proc[p].window)
             verdict == [proc[p] EXCEPT !.status = StatusFromFleet(fleet),
                                        !.breaching = fleet]
             claim == [verdict EXCEPT !.pc = "claim"]
  <2>1. p \in Procs /\ proc[p] \in ProcState
    BY DEF Procs, TypeOK
  <2>2. StatusFromFleet(fleet) \in {"healthy", "hot"} /\ fleet \in SUBSET Breach
    BY <2>1, StatusFromFleetType, FleetType DEF ProcState, TypeOK
  <2>3. \/ proc' = [proc EXCEPT ![p] = claim]
        \/ proc' = [proc EXCEPT ![p] = Reconcile(verdict)]
    BY <1>6 DEF TickReadFleet, ReconcileUnchanged, Go
  <2>4. OpenOfKind(k)' = OpenOfKind(k)
    BY <1>6 DEF TickReadFleet, OpenOfKind
  <2> HIDE DEF fleet
  <2>5. verdict \in ProcState
    BY <2>1, <2>2 DEF ProcState, Status
  <2> HIDE DEF verdict
  <2>6. claim.pc = "claim"
    BY <2>5 DEF ProcState
  <2> HIDE DEF claim
  <2>7. Reconcile(verdict).pc # "create"
    BY <2>5, ReconcileType
  <2>8. QED
    BY <1>1, <2>1, <2>3, <2>4, <2>6, <2>7
<1>7. ASSUME NEW p \in Ticks, TickClaim(p) PROVE AddsNothing(k)
  <2>1. p \in Procs /\ proc[p] \in ProcState
    BY DEF Procs, TypeOK
  <2>2. \/ proc' = [proc EXCEPT ![p] = Idle]
        \/ proc' = [proc EXCEPT ![p] = Reconcile(proc[p])]
    BY <1>7 DEF TickClaim, Go, Done
  <2>3. OpenOfKind(k)' = OpenOfKind(k)
    BY <1>7 DEF TickClaim, OpenOfKind
  <2>4. QED
    BY <1>1, <2>1, <2>2, <2>3, ReconcileType, IdleType
<1>8. ASSUME NEW p \in Procs, ListOpen(p) PROVE AddsNothing(k)
  <2> DEFINE closing == [proc[p] EXCEPT !.pc = "close",
                                        !.todo = IdsOfKind(proc[p].kind)]
  <2>1. proc[p] \in ProcState
    BY DEF TypeOK
  <2>2. closing.pc = "close"
    BY <2>1 DEF ProcState
  <2>3. /\ \/ proc' = [proc EXCEPT ![p] = AfterClose(proc[p])]
           \/ proc' = [proc EXCEPT ![p] = closing]
        /\ OpenOfKind(k)' = OpenOfKind(k)
    BY <1>8 DEF ListOpen, Go, OpenOfKind
  <2> HIDE DEF closing
  <2>4. QED
    BY <1>1, <2>1, <2>2, <2>3, AfterCloseType
<1>9. ASSUME NEW p \in Procs, CloseOne(p) PROVE AddsNothing(k)
  <2>1. proc[p] \in ProcState /\ proc[p].pc = "close"
    BY <1>9 DEF TypeOK, CloseOne
  <2>2. PICK id \in proc[p].todo :
          /\ incidents' = {i \in incidents : i.id # id}
          /\ \/ proc' = [proc EXCEPT ![p] = AfterClose(proc[p])]
             \/ proc' = [proc EXCEPT ![p] =
                           [proc[p] EXCEPT !.todo = proc[p].todo \ {id}]]
    BY <1>9 DEF CloseOne, Go
  <2> DEFINE closing == [proc[p] EXCEPT !.todo = proc[p].todo \ {id}]
  <2>3. closing.pc = "close"
    BY <2>1 DEF ProcState
  <2>4. OpenOfKind(k)' \subseteq OpenOfKind(k)
    BY <2>2 DEF OpenOfKind
  <2>5. proc' = [proc EXCEPT ![p] = AfterClose(proc[p])]
        \/ proc' = [proc EXCEPT ![p] = closing]
    BY <2>2
  <2> HIDE DEF closing
  <2>6. QED
    BY <1>1, <2>1, <2>3, <2>4, <2>5, AfterCloseType
<1>10. ASSUME NEW p \in Procs, Crash(p) PROVE AddsNothing(k)
  <2>1. proc' = [proc EXCEPT ![p] = Idle] /\ OpenOfKind(k)' = OpenOfKind(k)
    BY <1>10 DEF Crash, Done, Go, OpenOfKind
  <2>2. QED
    BY <1>1, <2>1, IdleType
<1>11. ASSUME proc' = proc, incidents' \subseteq incidents PROVE AddsNothing(k)
  <2>1. Creating(k)' = Creating(k) /\ OpenOfKind(k)' \subseteq OpenOfKind(k)
    BY <1>11 DEF Creating, OpenOfKind
  <2>2. QED
    BY <2>1 DEF AddsNothing
<1>12. CASE \/ Advance \/ \E w \in Windows : SaveWindow(w)
            \/ \E i \in incidents : ResolveByHand(i)
            \/ DeleteServer \/ UNCHANGED vars
  BY <1>11, <1>12 DEF Advance, SaveWindow, ResolveByHand, DeleteServer, vars
<1>13. QED
  BY <1>2, <1>3, <1>4, <1>5, <1>6, <1>7, <1>8, <1>9, <1>10, <1>12
     DEF Next, PushStep, TickStep, ReconcileStep, Procs

(***************************************************************************)
(* However many pushes and ticks overlap, the incidents of a kind that are *)
(* open on a box never outnumber the requests and jobs that can race.      *)
(***************************************************************************)
THEOREM NeverMoreThanRace == Spec => []IncidentsNeverStack
<1>1. Init => StackInv
  <2> SUFFICES ASSUME Init, NEW k \in Kinds PROVE Bounded(k)
    BY DEF StackInv
  <2>1. OpenOfKind(k) = {}
    BY DEF Init, OpenOfKind
  <2>2. IsFiniteSet(OpenOfKind(k)) /\ Cardinality(OpenOfKind(k)) = 0
    BY <2>1, FS_EmptySet
  <2>3. QED
    BY <2>2, CreatingFinite DEF Bounded
<1>2. TypeOK /\ StackInv /\ [Next]_vars => StackInv'
  <2> SUFFICES ASSUME TypeOK, StackInv, [Next]_vars, NEW k \in Kinds
               PROVE  Bounded(k)'
    BY DEF StackInv
  <2>1. Bounded(k)
    BY DEF StackInv
  <2>2. QED
    BY <2>1, FindKeepsBound, CreateKeepsBound, UpdateKeepsBound,
       OtherStepsAddNothing, FewerIsBounded DEF AddsNothing
<1>3. StackInv => IncidentsNeverStack
  <2> SUFFICES ASSUME StackInv, NEW k \in Kinds
               PROVE  Cardinality(OpenOfKind(k)) <= Cardinality(Procs)
    BY DEF IncidentsNeverStack
  <2>1. Bounded(k) /\ Cardinality(OpenOfKind(k)) \in Nat
    BY FS_CardinalityType DEF StackInv, Bounded
  <2>2. QED
    BY <2>1, CreatingFinite DEF Bounded
<1>4. QED
  BY <1>1, <1>2, <1>3, TypeCorrect, PTL DEF Spec

(***************************************************************************)
(* Reconciles one after another: AtMostOneOfAKind.  It needs two more      *)
(* facts: that one process at most is under way, and that one about to     *)
(* insert still sees none of its kind open.                                *)
(***************************************************************************)
Alone == \A p, q \in Procs : proc[p].pc # "idle" /\ proc[q].pc # "idle" => p = q

OneOpen(k) == \A i, j \in OpenOfKind(k) : i = j

SerialInv ==
  ~Overlap => /\ Alone
              /\ \A k \in Kinds : OneOpen(k) /\ (Creating(k) = {} \/ ~HasOpen(k))

\* What a step spends is never the switch between the two kinds of behaviour.
LEMMA Spending ==
  ASSUME TypeOK, [Next]_vars
  PROVE  UNCHANGED left \/ \E e \in Events \ {"overlap"} : Spend(e)
<1>1. Events \ {"overlap"} = {"push", "crash", "save", "delete", "resolve"}
  BY DEF Events
<1>2. QED
  BY <1>1 DEF Next, PushStep, TickStep, ReconcileStep, StartPush, CommitPush,
       StartTick, TickReadRow, TickReadFleet, TickClaim, ListOpen, CloseOne,
       FindOpen, CreateIncident, UpdateIncident, Crash, Advance, SaveWindow,
       ResolveByHand, DeleteServer, vars

\* So a behaviour overlaps throughout or never does.
LEMMA OverlapStays ==
  ASSUME TypeOK, [Next]_vars
  PROVE  Overlap' <=> Overlap
BY Spending DEF Spend, Overlap, TypeOK, Events

\* A step of the one process leaves every other idle.
LEMMA StaysAlone ==
  ASSUME TypeOK, Alone, NEW p \in Procs, NEW st, Go(p, st),
         \/ proc[p].pc # "idle"
         \/ \A q \in Procs : proc[q].pc = "idle"
  PROVE  /\ Alone' /\ proc'[p] = st
         /\ \A q \in Procs : q # p => proc'[q] = proc[q] /\ proc[q].pc = "idle"
<1>1. /\ proc'[p] = st
      /\ \A q \in Procs : q # p => proc'[q] = proc[q] /\ proc[q].pc = "idle"
  BY DEF Go, TypeOK, Alone
<1>2. QED
  BY <1>1 DEF Alone

\* Every step is one process's, from where it is or from rest, or nobody's.
LEMMA OneMover ==
  ASSUME [Next]_vars, ~Overlap
  PROVE  \/ UNCHANGED proc
         \/ \E p \in Procs : /\ \E st : Go(p, st)
                             /\ \/ proc[p].pc # "idle"
                                \/ \A q \in Procs : proc[q].pc = "idle"
<1>1. ASSUME NEW p \in Procs, ReconcileStep(p)
      PROVE  (\E st : Go(p, st)) /\ proc[p].pc # "idle"
  BY <1>1 DEF ReconcileStep, ListOpen, CloseOne, FindOpen, CreateIncident,
              UpdateIncident, Done
<1>2. ASSUME NEW p \in Handlers, NEW h \in Hosts, NEW b \in SUBSET Metrics,
             StartPush(p, h, b)
      PROVE  (\E st : Go(p, st)) /\ \A q \in Procs : proc[q].pc = "idle"
  BY <1>2 DEF StartPush, MayStart
<1>3. ASSUME NEW p \in Handlers, CommitPush(p)
      PROVE  (\E st : Go(p, st)) /\ proc[p].pc # "idle"
  BY <1>3 DEF CommitPush
<1>4. ASSUME NEW p \in Ticks, StartTick(p)
      PROVE  (\E st : Go(p, st)) /\ \A q \in Procs : proc[q].pc = "idle"
  BY <1>4 DEF StartTick, MayStart
<1>5. ASSUME NEW p \in Ticks, TickReadRow(p) \/ TickReadFleet(p) \/ TickClaim(p)
      PROVE  (\E st : Go(p, st)) /\ proc[p].pc # "idle"
  BY <1>5 DEF TickReadRow, TickReadFleet, TickClaim, Done
<1>6. ASSUME NEW p \in Procs, Crash(p)
      PROVE  (\E st : Go(p, st)) /\ proc[p].pc # "idle"
  BY <1>6 DEF Crash, Done
<1>7. CASE \/ Advance \/ \E w \in Windows : SaveWindow(w)
           \/ \E i \in incidents : ResolveByHand(i)
           \/ DeleteServer \/ UNCHANGED vars
  BY <1>7 DEF Advance, SaveWindow, ResolveByHand, DeleteServer, vars
<1>8. QED
  BY <1>1, <1>2, <1>3, <1>4, <1>5, <1>6, <1>7 DEF Next, PushStep, TickStep, Procs

\* One process looks and inserts with nobody in between.
LEMMA StaysSerial ==
  ASSUME TypeOK, SerialInv, [Next]_vars
  PROVE  SerialInv'
<1> SUFFICES ASSUME ~Overlap, NEW k \in Kinds
             PROVE  Alone' /\ OneOpen(k)' /\ (Creating(k)' = {} \/ ~HasOpen(k)')
  <2>1. Kinds # {} /\ (Overlap' <=> Overlap)
    BY OverlapStays DEF Kinds
  <2>2. QED
    BY <2>1 DEF SerialInv
<1>1. Alone /\ OneOpen(k) /\ (Creating(k) = {} \/ ~HasOpen(k))
  BY DEF SerialInv
<1>2. Alone'
  <2>1. CASE UNCHANGED proc
    BY <1>1, <2>1 DEF Alone
  <2>2. CASE ~UNCHANGED proc
    BY <1>1, <2>2, OneMover, StaysAlone
  <2>3. QED
    BY <2>1, <2>2
<1>3. ASSUME NEW p \in Procs, FindOpen(p) PROVE Creating(k)' = {} \/ ~HasOpen(k)'
  <2>1. OpenOfKind(k)' = OpenOfKind(k) /\ proc[p].pc = "find"
    BY <1>3 DEF FindOpen, OpenOfKind
  <2>2. CASE ~HasOpen(k)
    BY <2>1, <2>2 DEF HasOpen
  <2>3. CASE HasOpen(k)
    <3>1. ASSUME NEW q \in Creating(k)' PROVE FALSE
      <4>1. q \in Procs /\ proc'[q].pc = "create" /\ proc'[q].kind = k
        BY <3>1 DEF Creating
      <4>2. CASE q # p
        BY <1>1, <1>3, <2>1, <2>3, <4>1, <4>2 DEF FindOpen, Go, Done, Creating, TypeOK
      <4>3. CASE q = p
        <5>1. proc[p] \in ProcState
          BY DEF TypeOK
        <5>2. CASE OpenFor(proc[p]) = {}
          BY <1>3, <2>3, <4>1, <4>3, <5>1, <5>2
             DEF FindOpen, OpenFor, Go, HasOpen, ProcState, TypeOK
        <5>3. CASE OpenFor(proc[p]) # {}
          <6> DEFINE updating == [proc[p] EXCEPT !.pc = "update",
                                    !.todo = {Oldest(OpenFor(proc[p])).id}]
          <6>1. Go(p, updating) \/ Go(p, Idle)
            BY <1>3, <5>3 DEF FindOpen, Done
          <6>2. updating.pc = "update" /\ Idle.pc = "idle"
            BY <5>1, IdleType DEF ProcState
          <6> HIDE DEF updating
          <6>3. QED
            BY <4>1, <4>3, <6>1, <6>2 DEF Go, TypeOK
        <5>4. QED
          BY <5>2, <5>3
      <4>4. QED
        BY <4>2, <4>3
    <3>2. QED
      BY <3>1
  <2>4. QED
    BY <2>2, <2>3
<1>4. ASSUME NEW p \in Procs, CreateIncident(p)
      PROVE  Creating(k)' = {} /\ OneOpen(k)'
  <2>1. proc[p] \in ProcState /\ proc[p].pc = "create" /\ Go(p, Idle)
    BY <1>4 DEF CreateIncident, Done, TypeOK
  <2>2. \A q \in Procs : proc'[q].pc = "idle"
    BY <1>1, <2>1, StaysAlone, IdleType
  <2> DEFINE new == [id |-> nextId, kind |-> proc[p].kind, hosts |-> proc[p].breaching]
  <2>3. incidents' = incidents \/ incidents' = incidents \cup {new}
    BY <1>4 DEF CreateIncident
  <2>4. p \in Creating(proc[p].kind) /\ new.kind = proc[p].kind
    BY <2>1 DEF Creating
  <2> HIDE DEF new
  <2>5. OneOpen(k)'
    BY <1>1, <2>3, <2>4 DEF OneOpen, OpenOfKind, HasOpen
  <2>6. QED
    BY <2>2, <2>5 DEF Creating
<1>5. ASSUME NEW p \in Procs, UpdateIncident(p)
      PROVE  Creating(k)' = {} /\ OneOpen(k)'
  <2>1. proc[p] \in ProcState /\ proc[p].pc = "update" /\ Go(p, Idle)
    BY <1>5 DEF UpdateIncident, Done, TypeOK
  <2>2. \A q \in Procs : proc'[q].pc = "idle"
    BY <1>1, <2>1, StaysAlone, IdleType
  <2> DEFINE rewritten(i) == IF i.id \in proc[p].todo
                             THEN [i EXCEPT !.hosts = proc[p].breaching] ELSE i
  <2>3. incidents' = {rewritten(i) : i \in incidents}
    BY <1>5 DEF UpdateIncident
  <2>4. \A i \in incidents : rewritten(i).kind = i.kind
    BY DEF TypeOK, Incident
  <2> HIDE DEF rewritten
  <2>5. OneOpen(k)'
    BY <1>1, <2>3, <2>4 DEF OneOpen, OpenOfKind
  <2>6. QED
    BY <2>2, <2>5 DEF Creating
<1>6. CASE AddsNothing(k)
  BY <1>1, <1>2, <1>6 DEF AddsNothing, OneOpen, HasOpen
<1>7. ASSUME NEW p \in Procs, FindOpen(p) PROVE OneOpen(k)'
  BY <1>1, <1>7 DEF FindOpen, OneOpen, OpenOfKind
<1>8. CASE \E p \in Procs : FindOpen(p) \/ CreateIncident(p) \/ UpdateIncident(p)
  <2>1. PICK p \in Procs : FindOpen(p) \/ CreateIncident(p) \/ UpdateIncident(p)
    BY <1>8
  <2>2. CASE FindOpen(p)
    BY <1>2, <1>3, <1>7, <2>2
  <2>3. CASE CreateIncident(p)
    BY <1>2, <1>4, <2>3
  <2>4. CASE UpdateIncident(p)
    BY <1>2, <1>5, <2>4
  <2>5. QED
    BY <2>1, <2>2, <2>3, <2>4
<1>9. CASE \A p \in Procs : ~(FindOpen(p) \/ CreateIncident(p) \/ UpdateIncident(p))
  BY <1>2, <1>6, <1>9, OtherStepsAddNothing
<1>10. QED
  BY <1>8, <1>9

\* It starts so, and stays so.
LEMMA SerialThroughout == Spec => []SerialInv
<1>1. Init => SerialInv
  <2> SUFFICES ASSUME Init PROVE SerialInv
    OBVIOUS
  <2>1. /\ \A p \in Procs : proc[p].pc = "idle"
        /\ \A k \in Kinds : OpenOfKind(k) = {}
    BY IdleType DEF Init, OpenOfKind
  <2>2. QED
    BY <2>1 DEF SerialInv, Alone, OneOpen, HasOpen
<1>2. TypeOK /\ SerialInv /\ [Next]_vars => SerialInv'
  BY StaysSerial
<1>3. QED
  BY <1>1, <1>2, TypeCorrect, PTL DEF Spec

(***************************************************************************)
(* Reconciles that do not overlap never open a second incident of a kind,  *)
(* whatever crashes between two statements, is retried, saved, deleted or  *)
(* resolved by hand.                                                       *)
(***************************************************************************)
THEOREM SerialOpensOne == Spec => []AtMostOneOfAKind
<1>1. TypeOK /\ SerialInv => AtMostOneOfAKind
  BY DEF SerialInv, AtMostOneOfAKind, OneOpen, OpenOfKind, TypeOK, Incident
<1>2. QED
  BY <1>1, SerialThroughout, TypeCorrect, PTL

(***************************************************************************)
(* ReconciledAtRest holds between runs only, so the invariant says what a  *)
(* run under way still owes: until it has written its verdict the          *)
(* incidents match the row; after that the row already says what it holds, *)
(* and what it has yet to list, close or open is exactly the difference.   *)
(***************************************************************************)
Matches(s) ==
  /\ s = "healthy" => incidents = {}
  /\ s = "hot" => ~HasOpen("server_silent") /\ HasOpen("server_hot")
  /\ s = "quiet" => HasOpen("server_silent")

Verdict(st) ==
  /\ st.status \in {"healthy", "hot", "quiet"}
  /\ st.status = "hot" => st.breaching # {}

ToClose(st) ==
  \/ st.kind = "server_silent" /\ st.status \in {"healthy", "hot"}
  \/ st.kind = "server_hot" /\ st.status = "healthy" /\ ~HasOpen("server_silent")

ToOpen(st) ==
  \/ st.kind = "server_silent" /\ st.status = "quiet"
  \/ st.kind = "server_hot" /\ st.status = "hot" /\ ~HasOpen("server_silent")

Owes(st) ==
  /\ st.pc \in {"list", "close"} => ToClose(st)
  /\ st.pc = "close" => IdsOfKind(st.kind) \subseteq st.todo
  /\ st.pc \in {"find", "create", "update"} => ToOpen(st)
  /\ st.pc = "update" => HasOpen(st.kind)

Chain(st) ==
  /\ st.pc # "idle" => st.at <= now
  /\ st.pc \in {"idle", "commit", "row", "fleet", "claim"} => Matches(server.status)
  /\ st.pc = "fleet" => st.status = server.status
  /\ st.pc \in {"fleet", "claim"} => st.baseline = server.last_sample_at
  /\ st.pc \in {"claim"} \cup Reconciling => Verdict(st)
  /\ st.pc \in Reconciling => st.status = server.status /\ Owes(st)

Uncut ==
  /\ ~Overlap
  /\ \A t \in Maintenance : now < t
  /\ \A e \in {"crash", "resolve", "delete"} : left[e] = Budget[e]

Reconciled ==
  /\ server.exists
  /\ (\A p \in Procs : proc[p].pc = "idle") => Matches(server.status)
  /\ \A p \in Procs : proc[p].pc # "idle" => Chain(proc[p])

RestInv == (\A e \in Events : left[e] <= Budget[e]) /\ (Uncut => Reconciled)

\* A process under way, or one of them when all are idle.
Here(p) == server.exists /\ Chain(proc[p])

\* A reconcile starts with everything still owed.
LEMMA ReconcileChain ==
  ASSUME NEW p \in Procs, NEW st \in ProcState, Verdict(st), server'.exists,
         st.status = server'.status, st.at <= now', proc'[p] = Reconcile(st)
  PROVE  Here(p)'
<1>1. CASE st.status = "quiet"
  <2> DEFINE next == [st EXCEPT !.pc = "find", !.kind = "server_silent", !.todo = {}]
  <2>1. /\ next.pc = "find" /\ next.kind = "server_silent" /\ next.status = st.status
        /\ next.at = st.at /\ next.breaching = st.breaching
    BY DEF ProcState
  <2>2. proc'[p] = next
    BY <1>1 DEF Reconcile
  <2> HIDE DEF next
  <2>3. QED
    BY <1>1, <2>1, <2>2 DEF Here, Chain, Owes, ToOpen, Verdict, Reconciling
<1>2. CASE st.status # "quiet"
  <2> DEFINE next == [st EXCEPT !.pc = "list", !.kind = "server_silent", !.todo = {}]
  <2>1. /\ next.pc = "list" /\ next.kind = "server_silent" /\ next.status = st.status
        /\ next.at = st.at /\ next.breaching = st.breaching
    BY DEF ProcState
  <2>2. proc'[p] = next
    BY <1>2 DEF Reconcile
  <2> HIDE DEF next
  <2>3. QED
    BY <1>2, <2>1, <2>2 DEF Here, Chain, Owes, ToClose, Verdict, Reconciling
<1>3. QED
  BY <1>1, <1>2

\* With the last incident of its kind closed it goes on, or nothing is owed.
LEMMA AfterCloseChain ==
  ASSUME TypeOK', NEW p \in Procs, NEW st \in ProcState, Verdict(st), server'.exists,
         st.status = server'.status, st.at <= now', proc'[p] = AfterClose(st),
         \/ st.kind = "server_silent" /\ st.status \in {"healthy", "hot"}
         \/ st.kind = "server_hot" /\ st.status = "healthy" /\ ~HasOpen("server_silent")',
         OpenOfKind(st.kind)' = {}
  PROVE  Here(p)'
<1>1. CASE st.kind = "server_hot"
  <2>1. incidents' = {}
    BY <1>1 DEF HasOpen, OpenOfKind, TypeOK, Incident, Kinds
  <2>2. proc'[p].pc = "idle" /\ proc'[p].at = 0
    BY <1>1 DEF AfterClose, Idle
  <2>3. Matches(server.status)'
    BY <1>1, <2>1 DEF Matches
  <2>4. 0 <= now'
    BY DEF TypeOK
  <2>5. QED
    BY <2>2, <2>3, <2>4 DEF Here, Chain, Reconciling
<1>2. CASE st.kind = "server_silent" /\ st.status = "healthy"
  <2> DEFINE next == [st EXCEPT !.pc = "list", !.kind = "server_hot", !.todo = {}]
  <2>1. /\ next.pc = "list" /\ next.kind = "server_hot" /\ next.status = st.status
        /\ next.at = st.at /\ next.breaching = st.breaching
    BY DEF ProcState
  <2>2. proc'[p] = next
    BY <1>2 DEF AfterClose
  <2>3. ~HasOpen("server_silent")'
    BY <1>2 DEF HasOpen
  <2> HIDE DEF next
  <2>4. QED
    BY <1>2, <2>1, <2>2, <2>3 DEF Here, Chain, Owes, ToClose, Verdict, Reconciling
<1>3. CASE st.kind = "server_silent" /\ st.status = "hot"
  <2> DEFINE next == [st EXCEPT !.pc = "find", !.kind = "server_hot", !.todo = {}]
  <2>1. /\ next.pc = "find" /\ next.kind = "server_hot" /\ next.status = st.status
        /\ next.at = st.at /\ next.breaching = st.breaching
    BY DEF ProcState
  <2>2. proc'[p] = next
    BY <1>3 DEF AfterClose, Verdict
  <2>3. ~HasOpen("server_silent")'
    BY <1>3 DEF HasOpen
  <2> HIDE DEF next
  <2>4. QED
    BY <1>3, <2>1, <2>2, <2>3 DEF Here, Chain, Owes, ToOpen, Verdict, Reconciling
<1>4. QED
  BY <1>1, <1>2, <1>3

\* The statements of a reconcile pay off what it owes, one by one.
LEMMA ReconcileStepChain ==
  ASSUME TypeOK, TypeOK', Uncut, NEW p \in Procs, Here(p), ReconcileStep(p)
  PROVE  Here(p)'
<1> DEFINE st == proc[p]
<1>1. /\ st \in ProcState /\ UNCHANGED <<now, server>>
      /\ st.pc \in Reconciling
  BY DEF ReconcileStep, ListOpen, CloseOne, FindOpen, CreateIncident,
         UpdateIncident, Reconciling, TypeOK
<1>2. /\ server.exists /\ st.at <= now /\ Verdict(st)
      /\ st.status = server.status /\ Owes(st)
  BY <1>1 DEF Here, Chain, Reconciling
<1>3. \A new : Go(p, new) => proc'[p] = new
  BY DEF Go, TypeOK
<1>4. 0 <= now /\ Idle.pc = "idle" /\ Idle.at = 0
  BY DEF TypeOK, Idle
<1>5. CASE ListOpen(p)
  <2>1. st.pc = "list" /\ incidents' = incidents
    BY <1>5 DEF ListOpen
  <2>2. CASE OpenOfKind(st.kind) = {}
    <3>1. proc'[p] = AfterClose(st)
      BY <1>3, <1>5, <2>2 DEF ListOpen
    <3>2. OpenOfKind(st.kind) = {} /\ UNCHANGED incidents
      BY <2>1, <2>2
    <3>3. ASSUME NEW s \in ProcState, s = st PROVE Here(p)'
      <4>1. OpenOfKind(s.kind)' = {}
        BY <3>2, <3>3 DEF OpenOfKind
      <4>2. \/ s.kind = "server_silent" /\ s.status \in {"healthy", "hot"}
            \/ s.kind = "server_hot" /\ s.status = "healthy" /\ ~HasOpen("server_silent")'
        BY <1>2, <2>1, <3>3 DEF Owes, ToClose, HasOpen, OpenOfKind
      <4>3. /\ Verdict(s) /\ server'.exists /\ s.status = server'.status /\ s.at <= now'
            /\ proc'[p] = AfterClose(s)
        BY <1>1, <1>2, <3>1, <3>3
      <4>4. QED
        BY <4>1, <4>2, <4>3, AfterCloseChain
    <3>4. QED
      BY <1>1, <3>3
  <2>3. CASE OpenOfKind(st.kind) # {}
    <3> DEFINE next == [st EXCEPT !.pc = "close", !.todo = IdsOfKind(st.kind)]
    <3>1. /\ next.pc = "close" /\ next.kind = st.kind /\ next.status = st.status
          /\ next.at = st.at /\ next.breaching = st.breaching
          /\ next.todo = IdsOfKind(st.kind)
      BY <1>1 DEF ProcState
    <3>2. proc'[p] = next
      BY <1>3, <1>5, <2>3 DEF ListOpen
    <3> HIDE DEF next
    <3>3. QED
      BY <1>1, <1>2, <2>1, <3>1, <3>2
         DEF Here, Chain, Owes, ToClose, Verdict, Reconciling, HasOpen, OpenOfKind, IdsOfKind
  <2>4. QED
    BY <2>2, <2>3
<1>6. CASE CloseOne(p)
  <2>1. PICK id \in st.todo :
          /\ st.pc = "close" /\ incidents' = {i \in incidents : i.id # id}
          /\ Go(p, IF st.todo \ {id} = {} THEN AfterClose(st)
                   ELSE [st EXCEPT !.todo = st.todo \ {id}])
    BY <1>6 DEF CloseOne
  <2>2. /\ IdsOfKind(st.kind) \subseteq st.todo /\ ToClose(st)
    BY <1>2, <2>1 DEF Owes
  <2>3. /\ \A i \in incidents' : i.kind = st.kind => i.id \in st.todo \ {id}
        /\ ~HasOpen("server_silent") => ~HasOpen("server_silent")'
    BY <2>1, <2>2 DEF IdsOfKind, OpenOfKind, HasOpen
  <2>4. CASE st.todo \ {id} = {}
    <3>1. proc'[p] = AfterClose(st) /\ \A i \in incidents' : i.kind # st.kind
      BY <1>3, <2>1, <2>3, <2>4
    <3>2. ASSUME NEW s \in ProcState, s = st PROVE Here(p)'
      <4>1. OpenOfKind(s.kind)' = {}
        BY <3>1, <3>2 DEF OpenOfKind
      <4>2. \/ s.kind = "server_silent" /\ s.status \in {"healthy", "hot"}
            \/ s.kind = "server_hot" /\ s.status = "healthy" /\ ~HasOpen("server_silent")'
        BY <2>2, <2>3, <3>2 DEF ToClose
      <4>3. /\ Verdict(s) /\ server'.exists /\ s.status = server'.status /\ s.at <= now'
            /\ proc'[p] = AfterClose(s)
        BY <1>1, <1>2, <3>1, <3>2
      <4>4. QED
        BY <4>1, <4>2, <4>3, AfterCloseChain
    <3>3. QED
      BY <1>1, <3>2
  <2>5. CASE st.todo \ {id} # {}
    <3> DEFINE next == [st EXCEPT !.todo = st.todo \ {id}]
    <3>1. /\ next.pc = "close" /\ next.kind = st.kind /\ next.status = st.status
          /\ next.at = st.at /\ next.breaching = st.breaching
          /\ next.todo = st.todo \ {id}
      BY <1>1, <2>1 DEF ProcState
    <3>2. proc'[p] = next
      BY <1>3, <2>1, <2>5
    <3> HIDE DEF next
    <3>3. Owes(proc[p])'
      BY <2>2, <2>3, <3>1, <3>2 DEF Owes, ToClose, IdsOfKind, OpenOfKind
    <3>4. QED
      BY <1>1, <1>2, <3>1, <3>2, <3>3 DEF Here, Chain, Verdict, Reconciling
  <2>6. QED
    BY <2>4, <2>5
<1>7. CASE FindOpen(p)
  <2>1. st.pc = "find" /\ incidents' = incidents
    BY <1>7 DEF FindOpen
  <2>2. ToOpen(st)
    BY <1>2, <2>1 DEF Owes
  <2>3. CASE OpenOfKind(st.kind) = {}
    <3> DEFINE next == [st EXCEPT !.pc = "create"]
    <3>1. /\ next.pc = "create" /\ next.kind = st.kind /\ next.status = st.status
          /\ next.at = st.at /\ next.breaching = st.breaching
      BY <1>1 DEF ProcState
    <3>2. proc'[p] = next
      BY <1>3, <1>7, <2>3 DEF FindOpen, OpenFor
    <3> HIDE DEF next
    <3>3. QED
      BY <1>1, <1>2, <2>1, <2>2, <3>1, <3>2
         DEF Here, Chain, Owes, ToOpen, Verdict, Reconciling, HasOpen, OpenOfKind
  <2>4. CASE OpenOfKind(st.kind) # {}
    <3> DEFINE next == [st EXCEPT !.pc = "update", !.todo = {Oldest(OpenFor(st)).id}]
    <3>1. /\ next.pc = "update" /\ next.kind = st.kind /\ next.status = st.status
          /\ next.at = st.at /\ next.breaching = st.breaching
      BY <1>1 DEF ProcState
    <3>2. Go(p, next) \/ Go(p, Idle)
      BY <1>7, <2>4 DEF FindOpen, OpenFor, Done
    <3> HIDE DEF next
    <3>3. CASE Go(p, next)
      BY <1>1, <1>2, <1>3, <2>1, <2>2, <2>4, <3>1, <3>3
         DEF Here, Chain, Owes, ToOpen, Verdict, Reconciling, HasOpen, OpenOfKind
    <3>4. CASE Go(p, Idle)
      <4>1. Matches(server.status)'
        BY <1>1, <1>2, <2>1, <2>2, <2>4 DEF Matches, ToOpen, HasOpen, OpenOfKind
      <4>2. QED
        BY <1>1, <1>2, <1>3, <1>4, <3>4, <4>1 DEF Here, Chain, Reconciling
    <3>5. QED
      BY <3>2, <3>3, <3>4
  <2>5. QED
    BY <2>3, <2>4
<1>8. CASE CreateIncident(p)
  <2>1. st.pc = "create" /\ Go(p, Idle)
    BY <1>8 DEF CreateIncident, Done
  <2>2. ToOpen(st)
    BY <1>2, <2>1 DEF Owes
  <2>3. st.at \notin Maintenance
    BY <1>1, <1>2, ServerAssumption DEF Uncut, ProcState, TypeOK
  <2> DEFINE new == [id |-> nextId, kind |-> st.kind, hosts |-> st.breaching]
  <2>4. incidents' = incidents \cup {new} /\ new.kind = st.kind
    BY <1>8, <2>3 DEF CreateIncident
  <2> HIDE DEF new
  <2>5. Matches(server.status)'
    BY <1>1, <1>2, <2>2, <2>4 DEF Matches, ToOpen, HasOpen, OpenOfKind
  <2>6. QED
    BY <1>1, <1>2, <1>3, <1>4, <2>1, <2>5 DEF Here, Chain, Reconciling
<1>9. CASE UpdateIncident(p)
  <2>1. st.pc = "update" /\ Go(p, Idle)
    BY <1>9 DEF UpdateIncident, Done
  <2>2. ToOpen(st) /\ HasOpen(st.kind)
    BY <1>2, <2>1 DEF Owes
  <2> DEFINE rewritten(i) == IF i.id \in st.todo
                             THEN [i EXCEPT !.hosts = st.breaching] ELSE i
  <2>3. incidents' = {rewritten(i) : i \in incidents}
    BY <1>9 DEF UpdateIncident
  <2>4. \A i \in incidents : rewritten(i).kind = i.kind
    BY DEF TypeOK, Incident
  <2> HIDE DEF rewritten
  <2>5. Matches(server.status)'
    BY <1>1, <1>2, <2>2, <2>3, <2>4 DEF Matches, ToOpen, HasOpen, OpenOfKind
  <2>6. QED
    BY <1>1, <1>2, <1>3, <1>4, <2>1, <2>5 DEF Here, Chain, Reconciling
<1>10. QED
  BY <1>5, <1>6, <1>7, <1>8, <1>9 DEF ReconcileStep

\* A push and a tick hold a verdict once they have taken it, and the row says
\* the same once they have written it.
LEMMA VerdictChain ==
  ASSUME TypeOK, TypeOK', Uncut, NEW p \in Procs, Here(p),
         \/ p \in Handlers /\ CommitPush(p)
         \/ p \in Ticks /\ (TickReadRow(p) \/ TickReadFleet(p) \/ TickClaim(p))
  PROVE  Here(p)'
<1> DEFINE st == proc[p]
<1>1. /\ st \in ProcState /\ UNCHANGED <<now, incidents>>
      /\ st.pc \in {"commit", "row", "fleet", "claim"}
  BY DEF CommitPush, TickReadRow, TickReadFleet, TickClaim, TypeOK
<1>2. server.exists /\ st.at <= now /\ Matches(server.status)
  BY <1>1 DEF Here, Chain
<1>3. \A new : Go(p, new) => proc'[p] = new
  BY DEF Go, TypeOK
<1>4. 0 <= now /\ Idle.pc = "idle" /\ Idle.at = 0
  BY DEF TypeOK, Idle
<1>5. ASSUME UNCHANGED server PROVE Matches(server.status)'
  BY <1>1, <1>2, <1>5 DEF Matches, HasOpen, OpenOfKind
<1>6. CASE p \in Handlers /\ CommitPush(p)
  <2> DEFINE fleet == Fleet(Stored(samples, st.host, st.at, st.breaches),
                            st.at, st.window)
             verdict == [st EXCEPT !.status = StatusFromFleet(fleet),
                                   !.breaching = fleet,
                                   !.host = Idle.host, !.breaches = {}]
  <2>1. StatusFromFleet(fleet) \in {"healthy", "hot"} /\ fleet \in SUBSET Breach
    BY <1>1, StatusFromFleetType, FleetType, StoredType DEF ProcState, TypeOK
  <2>2. StatusFromFleet(fleet) = "hot" => fleet # {}
    BY DEF StatusFromFleet
  <2>3. /\ proc'[p] = Reconcile(verdict)
        /\ server' = [server EXCEPT !.status = StatusFromFleet(fleet),
                                    !.last_sample_at = st.at]
    BY <1>2, <1>3, <1>6 DEF CommitPush
  <2> HIDE DEF fleet
  <2>4. /\ verdict \in ProcState /\ verdict.status = StatusFromFleet(fleet)
        /\ verdict.breaching = fleet /\ verdict.at = st.at
    BY <1>1, <2>1, IdleType DEF ProcState, Status
  <2>5. server'.exists /\ server'.status = StatusFromFleet(fleet)
    BY <1>2, <2>3 DEF TypeOK
  <2> HIDE DEF verdict
  <2>6. ASSUME NEW v \in ProcState, v = verdict PROVE Here(p)'
    <3>1. Verdict(v)
      BY <2>1, <2>2, <2>4, <2>6 DEF Verdict
    <3>2. v.status = server'.status /\ v.at <= now' /\ proc'[p] = Reconcile(v)
      BY <1>1, <1>2, <2>3, <2>4, <2>5, <2>6
    <3>3. QED
      BY <2>5, <3>1, <3>2, ReconcileChain
  <2>7. QED
    BY <2>4, <2>6
<1>7. CASE p \in Ticks /\ TickReadRow(p)
  <2> DEFINE read == [st EXCEPT !.baseline = server.last_sample_at,
                                !.window = server.window,
                                !.status = server.status]
             fleet == [read EXCEPT !.pc = "fleet"]
             claim == [read EXCEPT !.pc = "claim", !.status = "quiet"]
  <2>1. /\ read \in ProcState /\ read.status = server.status /\ read.at = st.at
        /\ fleet.pc = "fleet" /\ fleet.status = server.status /\ fleet.at = st.at
        /\ fleet.baseline = server.last_sample_at
        /\ claim.pc = "claim" /\ claim.status = "quiet" /\ claim.at = st.at
        /\ claim.baseline = server.last_sample_at
    BY <1>1 DEF TypeOK, ProcState
  <2>2. /\ UNCHANGED server
        /\ \/ Go(p, Idle) \/ Go(p, fleet) \/ Go(p, claim)
           \/ read.status = "quiet" /\ Go(p, Reconcile(read))
    BY <1>7 DEF TickReadRow, Done
  <2> HIDE DEF read, fleet, claim
  <2>3. CASE Go(p, Idle)
    BY <1>1, <1>2, <1>3, <1>4, <1>5, <2>2, <2>3 DEF Here, Chain, Reconciling
  <2>4. CASE Go(p, fleet)
    BY <1>1, <1>2, <1>3, <1>5, <2>1, <2>2, <2>4 DEF Here, Chain, Reconciling
  <2>5. CASE Go(p, claim)
    BY <1>1, <1>2, <1>3, <1>5, <2>1, <2>2, <2>5 DEF Here, Chain, Reconciling, Verdict
  <2>6. ASSUME read.status = "quiet", Go(p, Reconcile(read)),
               NEW v \in ProcState, v = read
        PROVE  Here(p)'
    <3>1. Verdict(v)
      BY <2>6 DEF Verdict
    <3>2. /\ v.status = server'.status /\ v.at <= now' /\ proc'[p] = Reconcile(v)
          /\ server'.exists
      BY <1>1, <1>2, <1>3, <2>1, <2>2, <2>6
    <3>3. QED
      BY <3>1, <3>2, ReconcileChain
  <2>7. QED
    BY <2>1, <2>2, <2>3, <2>4, <2>5, <2>6
<1>8. CASE p \in Ticks /\ TickReadFleet(p)
  <2> DEFINE fleet == Fleet(samples, st.at, st.window)
             verdict == [st EXCEPT !.status = StatusFromFleet(fleet),
                                   !.breaching = fleet]
             claim == [verdict EXCEPT !.pc = "claim"]
  <2>1. /\ UNCHANGED server
        /\ \/ Go(p, claim)
           \/ StatusFromFleet(fleet) = st.status /\ Go(p, Reconcile(verdict))
    BY <1>8 DEF TickReadFleet, ReconcileUnchanged
  <2>2. StatusFromFleet(fleet) \in {"healthy", "hot"} /\ fleet \in SUBSET Breach
    BY <1>1, StatusFromFleetType, FleetType DEF ProcState, TypeOK
  <2>3. StatusFromFleet(fleet) = "hot" => fleet # {}
    BY DEF StatusFromFleet
  <2>4. /\ st.pc = "fleet" /\ st.status = server.status
        /\ st.baseline = server.last_sample_at
    BY <1>8 DEF TickReadFleet, Here, Chain
  <2> HIDE DEF fleet
  <2>5. /\ verdict \in ProcState /\ verdict.status = StatusFromFleet(fleet)
        /\ verdict.breaching = fleet /\ verdict.at = st.at
        /\ claim.pc = "claim" /\ claim.status = verdict.status
        /\ claim.breaching = fleet /\ claim.at = st.at
        /\ claim.baseline = st.baseline
    BY <1>1, <2>2 DEF ProcState, Status
  <2>6. Verdict(verdict) /\ Verdict(claim)
    BY <2>2, <2>3, <2>5 DEF Verdict
  <2> HIDE DEF verdict, claim
  <2>8. CASE Go(p, claim)
    BY <1>1, <1>2, <1>3, <1>5, <2>1, <2>4, <2>5, <2>6, <2>8 DEF Here, Chain, Reconciling
  <2>9. ASSUME StatusFromFleet(fleet) = st.status, Go(p, Reconcile(verdict)),
               NEW v \in ProcState, v = verdict
        PROVE  Here(p)'
    <3>1. /\ Verdict(v) /\ v.status = server'.status /\ v.at <= now'
          /\ proc'[p] = Reconcile(v) /\ server'.exists
      BY <1>1, <1>2, <1>3, <2>1, <2>4, <2>5, <2>6, <2>9
    <3>2. QED
      BY <3>1, ReconcileChain
  <2>10. QED
    BY <2>1, <2>5, <2>8, <2>9
<1>9. CASE p \in Ticks /\ TickClaim(p)
  <2>1. /\ st.pc = "claim" /\ Verdict(st) /\ st.baseline = server.last_sample_at
    BY <1>9 DEF TickClaim, Here, Chain
  <2>2. /\ server' = [server EXCEPT !.status = st.status]
        /\ Go(p, Reconcile(st))
    BY <1>2, <1>9, <2>1 DEF TickClaim, BaselineStands
  <2>3. server'.status = st.status /\ server'.exists
    BY <1>2, <2>2 DEF TypeOK
  <2>4. ASSUME NEW v \in ProcState, v = st PROVE Here(p)'
    <3>1. /\ Verdict(v) /\ v.status = server'.status /\ v.at <= now'
          /\ proc'[p] = Reconcile(v)
      BY <1>1, <1>2, <1>3, <2>1, <2>2, <2>3, <2>4
    <3>2. QED
      BY <2>3, <3>1, ReconcileChain
  <2>5. QED
    BY <1>1, <2>4
<1>10. QED
  BY <1>6, <1>7, <1>8, <1>9

\* Nobody resolves, deletes or crashes while a behaviour counts as uncut.
LEMMA UncutBefore ==
  ASSUME TypeOK, RestInv, [Next]_vars
  PROVE  /\ \A e \in Events : left'[e] <= Budget[e]
         /\ Uncut' => /\ Uncut /\ now <= now'
                      /\ \A p \in Procs : ~Crash(p)
                      /\ \A i \in incidents : ~ResolveByHand(i)
                      /\ ~DeleteServer
<1>1. \A e \in Events : left[e] \in Nat /\ Budget[e] \in Nat /\ left[e] <= Budget[e]
  BY ServerAssumption DEF TypeOK, RestInv
<1>2. ASSUME NEW e \in Events, Spend(e)
      PROVE  /\ left'[e] = left[e] - 1
             /\ \A f \in Events : f # e => left'[f] = left[f]
  BY <1>2 DEF Spend, TypeOK
<1>3. \A e \in Events : left'[e] <= left[e]
  <2>1. CASE UNCHANGED left
    BY <1>1, <2>1
  <2>2. ASSUME NEW e \in Events, Spend(e) PROVE \A f \in Events : left'[f] <= left[f]
    BY <1>1, <1>2, <2>2
  <2>3. QED
    BY <2>1, <2>2, Spending
<1>4. \A e \in Events : left'[e] \in Int
  BY <1>1, <1>2, Spending
<1>5. \A e \in Events : left'[e] <= Budget[e]
  BY <1>1, <1>3, <1>4
<1>6. ASSUME Uncut', NEW e \in {"crash", "resolve", "delete"}
      PROVE  left[e] = Budget[e] /\ ~Spend(e)
  <2>1. e \in Events
    BY <1>6 DEF Events
  <2>2. left'[e] = Budget[e]
    BY <1>6 DEF Uncut
  <2>3. QED
    BY <1>1, <1>2, <1>3, <2>1, <2>2
<1>7. now \in Int /\ (now' = now \/ now' = now + 1)
  <2>1. UNCHANGED now \/ Advance
    BY DEF Next, PushStep, TickStep, ReconcileStep, StartPush, CommitPush, StartTick,
           TickReadRow, TickReadFleet, TickClaim, ListOpen, CloseOne, FindOpen,
           CreateIncident, UpdateIncident, Crash, SaveWindow, ResolveByHand,
           DeleteServer, vars
  <2>2. QED
    BY <2>1 DEF Advance, TypeOK
<1>8. Uncut' => \A t \in Maintenance : now < t
  BY <1>7, ServerAssumption DEF Uncut
<1>9. QED
  BY <1>5, <1>6, <1>7, <1>8, OverlapStays
     DEF Uncut, Crash, ResolveByHand, DeleteServer

\* Every step of an uncut behaviour pays something off, or owes what it starts.
LEMMA StaysReconciled ==
  ASSUME TypeOK, TypeOK', SerialInv, RestInv, [Next]_vars
  PROVE  RestInv'
<1> SUFFICES ASSUME Uncut'
             PROVE  Reconciled'
  BY UncutBefore DEF RestInv
<1>1. /\ Uncut /\ now <= now' /\ server.exists /\ Alone
      /\ \A p \in Procs : ~Crash(p)
      /\ \A i \in incidents : ~ResolveByHand(i)
      /\ ~DeleteServer
  BY UncutBefore DEF RestInv, Reconciled, Uncut, SerialInv, Kinds
<1>2. \A p \in Procs : \/ proc[p].pc # "idle"
                       \/ \A q \in Procs : proc[q].pc = "idle"
                       => Here(p)
  BY <1>1 DEF RestInv, Reconciled, Here, Chain, Reconciling
<1>3. ASSUME NEW p \in Procs, NEW st, Go(p, st), Here(p)',
             \/ proc[p].pc # "idle"
             \/ \A q \in Procs : proc[q].pc = "idle"
      PROVE  Reconciled'
  <2>1. \A q \in Procs : q # p => proc'[q].pc = "idle"
    BY <1>1, <1>3, StaysAlone
  <2>2. CASE proc'[p].pc # "idle"
    BY <1>3, <2>1, <2>2 DEF Here, Reconciled
  <2>3. CASE proc'[p].pc = "idle"
    <3>1. Matches(server.status)'
      BY <1>3, <2>3 DEF Here, Chain
    <3>2. QED
      BY <1>3, <2>1, <2>3, <3>1 DEF Here, Reconciled
  <2>4. QED
    BY <2>2, <2>3
<1>4. ASSUME NEW p \in Procs, ReconcileStep(p)
      PROVE  (\E st : Go(p, st)) /\ proc[p].pc # "idle"
  BY <1>4 DEF ReconcileStep, ListOpen, CloseOne, FindOpen, CreateIncident,
              UpdateIncident, Done
<1>5. ASSUME NEW p \in Procs, ReconcileStep(p) PROVE Reconciled'
  BY <1>1, <1>2, <1>3, <1>4, <1>5, ReconcileStepChain
<1>6. ASSUME NEW p \in Procs,
             \/ p \in Handlers /\ CommitPush(p)
             \/ p \in Ticks /\ (TickReadRow(p) \/ TickReadFleet(p) \/ TickClaim(p))
      PROVE  Reconciled'
  <2>1. (\E st : Go(p, st)) /\ proc[p].pc # "idle"
    BY <1>6 DEF CommitPush, TickReadRow, TickReadFleet, TickClaim, Done
  <2>2. Here(p)'
    BY <1>1, <1>2, <1>6, <2>1, VerdictChain
  <2>3. QED
    BY <1>3, <2>1, <2>2
<1>7. ASSUME NEW p \in Procs,
             \/ \E h \in Hosts, b \in SUBSET Metrics : StartPush(p, h, b)
             \/ StartTick(p)
      PROVE  Reconciled'
  <2>1. PICK st : Go(p, st) /\ st.pc \in {"commit", "row"} /\ st.at = now
    <3>1. CASE StartTick(p)
      <4> DEFINE st == [Idle EXCEPT !.pc = "row", !.at = now]
      <4>1. Go(p, st) /\ st.pc = "row" /\ st.at = now
        BY <3>1 DEF StartTick, Idle
      <4> HIDE DEF st
      <4>2. QED
        BY <4>1
    <3>2. ASSUME NEW h \in Hosts, NEW b \in SUBSET Metrics, StartPush(p, h, b)
          PROVE  \E st : Go(p, st) /\ st.pc \in {"commit", "row"} /\ st.at = now
      <4> DEFINE st == [Idle EXCEPT !.pc = "commit", !.at = now,
                                    !.window = server.window, !.host = h,
                                    !.breaches = b]
      <4>1. Go(p, st) /\ st.pc = "commit" /\ st.at = now
        BY <3>2 DEF StartPush, Idle
      <4> HIDE DEF st
      <4>2. QED
        BY <4>1
    <3>3. QED
      BY <1>7, <3>1, <3>2
  <2>2. /\ UNCHANGED <<now, server, incidents>>
        /\ \A q \in Procs : proc[q].pc = "idle"
    BY <1>1, <1>7 DEF StartPush, StartTick, MayStart, Uncut
  <2>3. proc'[p] = st /\ Matches(server.status) /\ now <= now
    BY <1>1, <1>2, <2>1, <2>2 DEF Here, Chain, Go, TypeOK
  <2>4. Here(p)'
    BY <1>1, <2>1, <2>2, <2>3 DEF Here, Chain, Matches, HasOpen, OpenOfKind, Reconciling
  <2>5. QED
    BY <1>3, <2>1, <2>2, <2>4
<1>8. ASSUME Advance \/ UNCHANGED vars \/ \E w \in Windows : SaveWindow(w)
      PROVE  Reconciled'
  <2>1. /\ UNCHANGED <<proc, incidents>>
        /\ server'.exists = server.exists /\ server'.status = server.status
        /\ server'.last_sample_at = server.last_sample_at
    BY <1>8 DEF Advance, SaveWindow, vars, TypeOK
  <2>2. \A st \in ProcState : Chain(st) => Chain(st)'
    BY <1>1, <2>1 DEF Chain, Matches, Owes, ToClose, ToOpen, HasOpen, OpenOfKind,
                      IdsOfKind, ProcState, TypeOK
  <2>3. \A p \in Procs : Chain(proc[p]) => Chain(proc[p])'
    BY <2>1, <2>2 DEF TypeOK
  <2>4. Reconciled /\ (Matches(server.status)' <=> Matches(server.status))
    BY <1>1, <2>1 DEF RestInv, Matches, HasOpen, OpenOfKind
  <2>5. QED
    BY <2>1, <2>3, <2>4 DEF Reconciled
<1>9. ASSUME NEW p \in Handlers,
             \/ \E h \in Hosts, b \in SUBSET Metrics : StartPush(p, h, b)
             \/ PushStep(p)
      PROVE  Reconciled'
  BY <1>5, <1>6, <1>7, <1>9 DEF PushStep, Procs
<1>10. ASSUME NEW p \in Ticks, TickStep(p) PROVE Reconciled'
  BY <1>5, <1>6, <1>7, <1>10 DEF TickStep, Procs
<1>11. QED
  BY <1>1, <1>8, <1>9, <1>10 DEF Next

(***************************************************************************)
(* When nothing is under way, nothing overlapped, crashed, was deleted or  *)
(* resolved by hand, and no maintenance window has begun, a healthy box    *)
(* has no incident open, a hot one its heat alone, a quiet one its silence *)
(* (beside the heat it may have gone quiet with).                          *)
(***************************************************************************)
THEOREM SerialRunsReconcile == Spec => []ReconciledAtRest
<1>1. Init => RestInv
  <2> SUFFICES ASSUME Init PROVE RestInv
    OBVIOUS
  <2>1. /\ \A p \in Procs : proc[p].pc = "idle"
        /\ server.exists /\ server.status = "unknown"
        /\ \A e \in Events : left[e] \in Nat /\ Budget[e] \in Nat /\ left[e] <= Budget[e]
    BY IdleType, ServerAssumption DEF Init, Events
  <2>2. QED
    BY <2>1 DEF RestInv, Reconciled, Matches
<1>2. TypeOK /\ TypeOK' /\ SerialInv /\ RestInv /\ [Next]_vars => RestInv'
  BY StaysReconciled
<1>3. RestInv => ReconciledAtRest
  BY DEF RestInv, Reconciled, Uncut, ReconciledAtRest, Undisturbed, Matches
<1>4. QED
  BY <1>1, <1>2, <1>3, TypeCorrect, SerialThroughout, PTL DEF Spec
=============================================================================
