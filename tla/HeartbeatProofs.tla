----------------------------- MODULE HeartbeatProofs -----------------------------
(***************************************************************************)
(* Proofs about Heartbeat for every set of pings and jobs, any cadence,    *)
(* grace and budget, and with or without overlap where a theorem does not  *)
(* say otherwise.                                                          *)
(***************************************************************************)
EXTENDS Heartbeat, FiniteSetTheorems, WellFoundedInduction, TLAPS

USE DEF Never, CreatedAt, Kinds, Causes, PCs

(***************************************************************************)
(* Type correctness.                                                       *)
(***************************************************************************)
\* A request or job that is over is at rest, and well typed.
LEMMA IdleType == Idle \in ProcState
BY DEF Idle, ProcState

\* Ids below a bound: a nonempty set of incidents has a newest one.
LEMMA NewestExists ==
  ASSUME NEW S \in SUBSET Incident, S # {}, NEW n \in Nat, \A i \in S : i.id < n
  PROVE  Newest(S) \in S
<1> DEFINE gaps == {n - i.id : i \in S}
           less == {ss \in Nat \X Nat : ss[1] < ss[2]}
<1>1. gaps \in SUBSET Nat /\ gaps # {}
  BY DEF Incident
<1>2. IsWellFoundedOn(less, Nat)
  BY NatLessThanWellFounded DEF OpToRel
<1>3. \A i \in S : i.id \in Nat /\ n - i.id \in gaps
  BY DEF Incident
<1>4. \A g \in gaps : \E i \in S : g = n - i.id
  OBVIOUS
<1> HIDE DEF gaps
<1>5. PICK g \in gaps : \A h \in gaps : ~ (<<h, g>> \in less)
  <2> HIDE DEF less
  <2>1. QED
    BY <1>1, <1>2, WFMin
<1>6. ASSUME NEW h \in gaps PROVE g <= h
  <2>1. g \in Nat /\ h \in Nat
    BY <1>1
  <2>2. h < g => <<h, g>> \in less
    BY <2>1
  <2>3. QED
    BY <1>5, <2>1, <2>2
<1>7. PICK i \in S : g = n - i.id
  BY <1>4
<1>8. \A j \in S : j.id <= i.id
  BY <1>3, <1>6, <1>7
<1>9. QED
  BY <1>8 DEF Newest

\* A stamp is the instant the request dated itself.
LEMMA StampedType ==
  ASSUME NEW row \in Row, NEW kind \in Kinds, NEW at \in Nat
  PROVE  /\ Stamped(row, kind, at) \in Row
         /\ Stamped(row, kind, at).last_started_at =
              (IF kind = "start" THEN at ELSE row.last_started_at)
         /\ Stamped(row, kind, at).last_fail_at =
              (IF kind = "fail" THEN at ELSE row.last_fail_at)
         /\ Stamped(row, kind, at).last_ping_at =
              (IF kind = "success" THEN at ELSE row.last_ping_at)
BY DEF Stamped, Row

\* Where a request goes after its stamp, from the status it read before it.
LEMMA AfterStampType ==
  ASSUME NEW st \in ProcState
  PROVE  /\ AfterStamp(st) \in ProcState
         /\ AfterStamp(st).at \in {0, st.at}
         /\ AfterStamp(st).cause \in {"missed", "failed", st.cause}
         /\ AfterStamp(st).pc \in {"idle", "down", "up"}
         /\ AfterStamp(st).pc = "down" => st.kind = "fail" /\ st.status # "down"
         /\ AfterStamp(st).pc = "up" => st.kind = "success" /\ st.status = "down"
         /\ AfterStamp(st).pc = "idle" =>
              st.kind = "start" \/ (st.kind = "fail" <=> st.status = "down")
BY ZenonT(30), IdleType DEF AfterStamp, At, ProcState, Idle

TypeInv ==
  /\ TypeOK
  /\ now <= MaxTime
  /\ \A i \in incidents : i.id < nextId

\* A step of one process moves that process alone.
LEMMA GoType ==
  ASSUME TypeInv, NEW p \in Procs, NEW st \in ProcState, Go(p, st)
  PROVE  proc' \in [Procs -> ProcState] /\ proc'[p] = st
BY DEF Go, TypeInv, TypeOK

\* Every step keeps the types, and hands out each id once.
LEMMA TypeStays == TypeInv /\ [Next]_vars => TypeInv'
<1> SUFFICES ASSUME TypeInv, [Next]_vars PROVE TypeInv'
  OBVIOUS
<1> USE HeartbeatAssumption
<1>1. \A p \in Procs : proc[p] \in ProcState
  BY DEF TypeInv, TypeOK
<1>2. ASSUME NEW p \in Procs, LookForIncident(p) \/ WriteDown(p) \/ WriteUp(p)
      PROVE  TypeInv'
  <2>1. \A pc \in PCs : At(proc[p], pc) \in ProcState
    BY ZenonT(30), <1>1 DEF At, ProcState
  <2>2. proc' \in [Procs -> ProcState]
    BY <1>2, <2>1, IdleType, GoType DEF LookForIncident, WriteDown, WriteUp, Done
  <2>3. QED
    BY <1>2, <2>2 DEF LookForIncident, WriteDown, WriteUp, TypeInv, TypeOK
<1>3. ASSUME NEW p \in Procs, CreateIncident(p) PROVE TypeInv'
  <2>1. proc' \in [Procs -> ProcState]
    BY <1>3, IdleType, GoType DEF CreateIncident, Done
  <2>2. proc[p].cause \in Causes
    BY <1>1 DEF ProcState
  <2>3. QED
    BY <1>3, <2>1, <2>2 DEF CreateIncident, TypeInv, TypeOK, Incident
<1>4. ASSUME NEW p \in Pings, NEW k \in Kinds, StartPing(p, k) PROVE TypeInv'
  <2> DEFINE st == [Idle EXCEPT !.pc = IF k = "start" THEN "stamp" ELSE "load",
                                !.kind = k, !.at = now]
  <2>1. st \in ProcState
    BY IdleType DEF ProcState, TypeInv, TypeOK
  <2>2. Go(p, st)
    BY <1>4 DEF StartPing
  <2> HIDE DEF st
  <2>3. proc' \in [Procs -> ProcState]
    BY <2>1, <2>2, GoType DEF Procs
  <2>4. QED
    BY SMTT(30), <1>4, <2>3 DEF StartPing, Spend, TypeInv, TypeOK, Events
<1>5. ASSUME NEW p \in Procs, LoadMonitor(p) PROVE TypeInv'
  <2> DEFINE st == [proc[p] EXCEPT !.pc = "stamp", !.status = status]
  <2>1. st \in ProcState
    BY ZenonT(30), <1>1 DEF ProcState, TypeInv, TypeOK
  <2>2. Go(p, st)
    BY <1>5 DEF LoadMonitor
  <2> HIDE DEF st
  <2>3. proc' \in [Procs -> ProcState]
    BY <2>1, <2>2, GoType
  <2>4. QED
    BY <1>5, <2>3 DEF LoadMonitor, TypeInv, TypeOK
<1>6. ASSUME NEW p \in Procs, StampRow(p) PROVE TypeInv'
  <2>1. AfterStamp(proc[p]) \in ProcState /\ heartbeat' \in Row
    BY <1>1, <1>6, AfterStampType, StampedType DEF StampRow, ProcState, TypeInv, TypeOK
  <2>2. proc' \in [Procs -> ProcState]
    BY <1>6, <2>1, GoType DEF StampRow
  <2>3. QED
    BY <1>6, <2>1, <2>2 DEF StampRow, TypeInv, TypeOK
<1>7. ASSUME NEW p \in Procs, FindIncident(p) PROVE TypeInv'
  <2>1. AfterFind(proc[p]) \in ProcState
    <3>1. CASE incidents = {}
      BY <3>1, IdleType DEF AfterFind
    <3>2. CASE incidents # {}
      <4>1. Newest(incidents) \in Incident
        BY <3>2, NewestExists DEF TypeInv, TypeOK
      <4>2. QED
        BY ZenonT(30), <1>1, <3>2, <4>1 DEF AfterFind, ProcState, Incident
    <3>3. QED
      BY <3>1, <3>2
  <2>2. proc' \in [Procs -> ProcState]
    BY <1>7, <2>1, GoType DEF FindIncident
  <2>3. QED
    BY <1>7, <2>2 DEF FindIncident, TypeInv, TypeOK
<1>8. ASSUME NEW p \in Procs, ResolveIncident(p) PROVE TypeInv'
  BY <1>8, IdleType, GoType DEF ResolveIncident, Done, TypeInv, TypeOK
<1>9. ASSUME NEW p \in Ticks, StartTick(p) PROVE TypeInv'
  <2> DEFINE st == [Idle EXCEPT !.pc = "monitor", !.at = now,
                                !.cause = Reason(heartbeat, now)]
  <2>1. st \in ProcState
    BY IdleType DEF ProcState, Reason, TypeInv, TypeOK
  <2>2. Go(p, st) \/ Go(p, Idle)
    BY <1>9 DEF StartTick, Done
  <2> HIDE DEF st
  <2>3. proc' \in [Procs -> ProcState]
    BY <2>1, <2>2, IdleType, GoType DEF Procs
  <2>4. QED
    BY <1>9, <2>3 DEF StartTick, TypeInv, TypeOK
<1>10. ASSUME NEW p \in Procs, LoadOverdueMonitor(p) PROVE TypeInv'
  <2> DEFINE st == [proc[p] EXCEPT !.pc = "down", !.at = now]
  <2>1. st \in ProcState
    BY ZenonT(30), <1>1 DEF ProcState, TypeInv, TypeOK
  <2>2. Go(p, st) \/ Go(p, Idle)
    BY <1>10 DEF LoadOverdueMonitor, Done
  <2> HIDE DEF st
  <2>3. proc' \in [Procs -> ProcState]
    BY <2>1, <2>2, IdleType, GoType
  <2>4. QED
    BY <1>10, <2>3 DEF LoadOverdueMonitor, TypeInv, TypeOK
<1>11. ASSUME NEW p \in Procs, Crash(p) PROVE TypeInv'
  BY SMTT(30), <1>11, IdleType, GoType DEF Crash, Done, Spend, TypeInv, TypeOK, Events
<1>12. CASE Advance
  BY <1>12 DEF Advance, TypeInv, TypeOK
<1>13. CASE ReportByHand \/ \E i \in incidents : ResolveByHand(i)
  <2>1. left' \in [Events -> Nat]
    <3>1. Spend("report") \/ Spend("resolve")
      BY <1>13 DEF ReportByHand, ResolveByHand
    <3>2. QED
      BY SMTT(30), <3>1 DEF Spend, TypeInv, TypeOK, Events
  <2>2. CASE ReportByHand
    BY <2>1, <2>2 DEF ReportByHand, TypeInv, TypeOK, Incident
  <2>3. CASE \E i \in incidents : ResolveByHand(i)
    BY <2>1, <2>3 DEF ResolveByHand, TypeInv, TypeOK
  <2>4. QED
    BY <1>13, <2>2, <2>3
<1>14. CASE UNCHANGED vars
  BY <1>14 DEF vars, TypeInv, TypeOK
<1>15. QED
  BY <1>2, <1>3, <1>4, <1>5, <1>6, <1>7, <1>8, <1>9, <1>10, <1>11, <1>12, <1>13, <1>14
     DEF Next, PingStep, TickStep, Procs

\* The clock stays inside its bound and no id is handed out twice.
LEMMA TypedThroughout == Spec => []TypeInv
<1>1. Init => TypeInv
  BY IdleType, HeartbeatAssumption DEF Init, TypeInv, TypeOK, Row, Events
<1>2. QED
  BY <1>1, TypeStays, PTL DEF Spec

(***************************************************************************)
(* Type correctness of the row, the incidents and every request and job.   *)
(***************************************************************************)
THEOREM TypeCorrect == Spec => []TypeOK
BY TypedThroughout, PTL DEF TypeInv

(***************************************************************************)
(* What one step does to the process that takes it.                        *)
(***************************************************************************)
LEMMA PingMoves ==
  ASSUME TypeInv, NEW p \in Procs
  PROVE  /\ \A k \in Kinds : StartPing(p, k) =>
              /\ proc'[p].pc = (IF k = "start" THEN "stamp" ELSE "load")
              /\ proc'[p].kind = k /\ proc'[p].at = now /\ proc'[p].cause = "missed"
         /\ LoadMonitor(p) =>
              /\ proc'[p].pc = "stamp" /\ proc'[p].kind = proc[p].kind
              /\ proc'[p].at = proc[p].at /\ proc'[p].cause = proc[p].cause
              /\ proc'[p].status = status
         /\ StampRow(p) => proc'[p] = AfterStamp(proc[p])
         /\ WriteUp(p) => /\ proc'[p].pc = "find" /\ proc'[p].at = proc[p].at
                          /\ proc'[p].cause = proc[p].cause
         /\ FindIncident(p) =>
              IF incidents = {} THEN proc'[p] = Idle
              ELSE /\ proc'[p].pc = "resolve" /\ proc'[p].todo = {Newest(incidents).id}
                   /\ proc'[p].at = proc[p].at /\ proc'[p].cause = proc[p].cause
<1>1. proc[p] \in ProcState /\ \A new : Go(p, new) => proc'[p] = new
  BY DEF TypeInv, TypeOK, Go
<1>2. ASSUME NEW k \in Kinds, StartPing(p, k)
      PROVE  /\ proc'[p].pc = (IF k = "start" THEN "stamp" ELSE "load")
             /\ proc'[p].kind = k /\ proc'[p].at = now /\ proc'[p].cause = "missed"
  <2> DEFINE new == [Idle EXCEPT !.pc = IF k = "start" THEN "stamp" ELSE "load",
                                 !.kind = k, !.at = now]
  <2>1. /\ new.pc = (IF k = "start" THEN "stamp" ELSE "load")
        /\ new.kind = k /\ new.at = now /\ new.cause = "missed"
    BY DEF Idle
  <2>2. Go(p, new)
    BY <1>2 DEF StartPing
  <2> HIDE DEF new
  <2>3. QED
    BY <1>1, <2>1, <2>2
<1>3. ASSUME LoadMonitor(p)
      PROVE  /\ proc'[p].pc = "stamp" /\ proc'[p].kind = proc[p].kind
             /\ proc'[p].at = proc[p].at /\ proc'[p].cause = proc[p].cause
             /\ proc'[p].status = status
  <2> DEFINE new == [proc[p] EXCEPT !.pc = "stamp", !.status = status]
  <2>1. /\ new.pc = "stamp" /\ new.kind = proc[p].kind /\ new.at = proc[p].at
        /\ new.cause = proc[p].cause /\ new.status = status
    BY <1>1 DEF ProcState
  <2>2. Go(p, new)
    BY <1>3 DEF LoadMonitor
  <2> HIDE DEF new
  <2>3. QED
    BY <1>1, <2>1, <2>2
<1>4. StampRow(p) => proc'[p] = AfterStamp(proc[p])
  BY <1>1 DEF StampRow
<1>5. WriteUp(p) => /\ proc'[p].pc = "find" /\ proc'[p].at = proc[p].at
                    /\ proc'[p].cause = proc[p].cause
  BY <1>1 DEF WriteUp, At, ProcState
<1>6. ASSUME FindIncident(p)
      PROVE  IF incidents = {} THEN proc'[p] = Idle
             ELSE /\ proc'[p].pc = "resolve" /\ proc'[p].todo = {Newest(incidents).id}
                  /\ proc'[p].at = proc[p].at /\ proc'[p].cause = proc[p].cause
  <2> DEFINE new == [proc[p] EXCEPT !.pc = "resolve", !.todo = {Newest(incidents).id}]
  <2>1. /\ new.pc = "resolve" /\ new.todo = {Newest(incidents).id}
        /\ new.at = proc[p].at /\ new.cause = proc[p].cause
    BY <1>1 DEF ProcState
  <2>2. Go(p, IF incidents = {} THEN Idle ELSE new)
    BY <1>6 DEF FindIncident, AfterFind
  <2> HIDE DEF new
  <2>3. QED
    BY <1>1, <2>1, <2>2
<1>7. QED
  BY <1>2, <1>3, <1>4, <1>5, <1>6

\* The steps a ping and the job share, and the job's own.
LEMMA DownMoves ==
  ASSUME TypeInv, NEW p \in Procs
  PROVE  /\ WriteDown(p) => /\ proc'[p].pc = "look" /\ proc'[p].at = proc[p].at
                            /\ proc'[p].cause = proc[p].cause
         /\ LookForIncident(p) =>
              IF proc[p].at \in Maintenance \/ SameCause(proc[p].cause) # {}
              THEN proc'[p] = Idle
              ELSE /\ proc'[p].pc = "create" /\ proc'[p].at = proc[p].at
                   /\ proc'[p].cause = proc[p].cause
         /\ CreateIncident(p) \/ ResolveIncident(p) \/ Crash(p) => proc'[p] = Idle
         /\ StartTick(p) =>
              IF IsDown(heartbeat, now)
              THEN /\ proc'[p].pc = "monitor" /\ proc'[p].at = now
                   /\ proc'[p].cause \in {"missed", "overran"}
              ELSE proc'[p] = Idle
         /\ LoadOverdueMonitor(p) =>
              IF status = "down" THEN proc'[p] = Idle
              ELSE /\ proc'[p].pc = "down" /\ proc'[p].at = now
                   /\ proc'[p].cause = proc[p].cause
<1>1. proc[p] \in ProcState /\ \A new : Go(p, new) => proc'[p] = new
  BY DEF TypeInv, TypeOK, Go
<1>2. WriteDown(p) => /\ proc'[p].pc = "look" /\ proc'[p].at = proc[p].at
                      /\ proc'[p].cause = proc[p].cause
  BY <1>1 DEF WriteDown, At, ProcState
<1>3. ASSUME LookForIncident(p)
      PROVE  IF proc[p].at \in Maintenance \/ SameCause(proc[p].cause) # {}
             THEN proc'[p] = Idle
             ELSE /\ proc'[p].pc = "create" /\ proc'[p].at = proc[p].at
                  /\ proc'[p].cause = proc[p].cause
  <2>1. At(proc[p], "create").pc = "create" /\ At(proc[p], "create").at = proc[p].at
        /\ At(proc[p], "create").cause = proc[p].cause
    BY <1>1 DEF At, ProcState
  <2>2. Go(p, IF proc[p].at \in Maintenance \/ SameCause(proc[p].cause) # {}
              THEN Idle ELSE At(proc[p], "create"))
    BY <1>3 DEF LookForIncident, Done
  <2>3. QED
    BY <1>1, <2>1, <2>2
<1>4. CreateIncident(p) \/ ResolveIncident(p) \/ Crash(p) => proc'[p] = Idle
  BY <1>1 DEF CreateIncident, ResolveIncident, Crash, Done
<1>5. ASSUME StartTick(p)
      PROVE  IF IsDown(heartbeat, now)
             THEN /\ proc'[p].pc = "monitor" /\ proc'[p].at = now
                  /\ proc'[p].cause \in {"missed", "overran"}
             ELSE proc'[p] = Idle
  <2> DEFINE new == [Idle EXCEPT !.pc = "monitor", !.at = now,
                                 !.cause = Reason(heartbeat, now)]
  <2>1. new.pc = "monitor" /\ new.at = now /\ new.cause \in {"missed", "overran"}
    BY DEF Idle, Reason
  <2>2. Go(p, IF IsDown(heartbeat, now) THEN new ELSE Idle)
    BY <1>5 DEF StartTick, Overdue, Done
  <2> HIDE DEF new
  <2>3. QED
    BY <1>1, <2>1, <2>2
<1>6. ASSUME LoadOverdueMonitor(p)
      PROVE  IF status = "down" THEN proc'[p] = Idle
             ELSE /\ proc'[p].pc = "down" /\ proc'[p].at = now
                  /\ proc'[p].cause = proc[p].cause
  <2> DEFINE new == [proc[p] EXCEPT !.pc = "down", !.at = now]
  <2>1. new.pc = "down" /\ new.at = now /\ new.cause = proc[p].cause
    BY <1>1 DEF ProcState
  <2>2. Go(p, IF status = "down" THEN Idle ELSE new)
    BY <1>6 DEF LoadOverdueMonitor, Done
  <2> HIDE DEF new
  <2>3. QED
    BY <1>1, <2>1, <2>2
<1>7. QED
  BY <1>2, <1>3, <1>4, <1>5, <1>6

\* Every step is one process's, from where it is or from rest, or nobody's.
Acts(p) == \/ p \in Pings /\ ((\E k \in Kinds : StartPing(p, k)) \/ PingStep(p))
           \/ p \in Ticks /\ TickStep(p)
           \/ Crash(p)

\* Every step of the model is one process moving, or nobody moving: the clock,
\* a person at an incident, or a stutter.
LEMMA OneMover ==
  ASSUME [Next]_vars
  PROVE  \/ \E p \in Procs : Acts(p)
         \/ Advance \/ ReportByHand \/ UNCHANGED vars
         \/ \E i \in incidents : ResolveByHand(i)
BY DEF Next, Acts, Procs

Alone == \A p, q \in Procs : proc[p].pc # "idle" /\ proc[q].pc # "idle" => p = q

\* Without overlap the others rest while one acts.
LEMMA StaysAlone ==
  ASSUME TypeInv, Alone, ~Overlap, NEW p \in Procs, Acts(p)
  PROVE  /\ Alone'
         /\ \A q \in Procs : q # p => proc'[q] = proc[q] /\ proc[q].pc = "idle"
         /\ \A q \in Procs : proc[p].pc = "idle" => proc[q].pc = "idle"
<1>1. PICK st : Go(p, st)
  BY DEF Acts, PingStep, TickStep, StartPing, LoadMonitor, StampRow, WriteDown,
         LookForIncident, CreateIncident, WriteUp, FindIncident, ResolveIncident,
         StartTick, LoadOverdueMonitor, Crash, Done
<1>2. proc[p].pc # "idle" \/ \A q \in Procs : proc[q].pc = "idle"
  BY DEF Acts, PingStep, TickStep, StartPing, LoadMonitor, StampRow, WriteDown,
         LookForIncident, CreateIncident, WriteUp, FindIncident, ResolveIncident,
         StartTick, LoadOverdueMonitor, Crash, MayStart
<1>3. \A q \in Procs : q # p => proc'[q] = proc[q] /\ proc[q].pc = "idle"
  BY <1>1, <1>2 DEF Go, TypeInv, TypeOK, Alone
<1>4. QED
  BY <1>2, <1>3 DEF Alone

\* What a step spends is never the switch between the two kinds of behaviour.
LEMMA Spending ==
  ASSUME TypeInv, [Next]_vars
  PROVE  /\ UNCHANGED left \/ \E e \in Events \ {"overlap"} : Spend(e)
         /\ Overlap' <=> Overlap
<1>1. UNCHANGED left \/ \E e \in {"ping", "crash", "report", "resolve"} : Spend(e)
  BY OneMover
     DEF Acts, PingStep, TickStep, StartPing, LoadMonitor, StampRow, WriteDown,
         LookForIncident, CreateIncident, WriteUp, FindIncident, ResolveIncident,
         StartTick, LoadOverdueMonitor, Crash, Advance, ReportByHand, ResolveByHand, vars
<1>2. QED
  BY <1>1 DEF Spend, Overlap, TypeInv, TypeOK, Events

(***************************************************************************)
(* OneIncidentPerCause: a process about to insert saw none of its cause,   *)
(* and nobody but a person, who reports under a cause of their own, can    *)
(* have inserted since.                                                    *)
(***************************************************************************)
CauseInv ==
  /\ \A p \in Procs : proc[p].cause # "reported"
  /\ ~Overlap =>
       /\ Alone
       /\ \A i, j \in Opened : i.cause = j.cause => i = j
       /\ \A p \in Procs : proc[p].pc = "create" => SameCause(proc[p].cause) = {}

\* No process ever opens an incident under the cause people report under.
LEMMA CausesOfItsOwn ==
  ASSUME TypeInv, CauseInv, NEW p \in Procs, Acts(p)
  PROVE  \A q \in Procs : proc'[q].cause # "reported"
<1>1. proc'[p].cause \in {"missed", "overran", "failed", proc[p].cause}
  <2>1. Idle.cause = "missed" /\ proc[p] \in ProcState
    BY DEF Idle, TypeInv, TypeOK
  <2>2. CASE StampRow(p)
    BY <2>1, <2>2, PingMoves, AfterStampType
  <2>3. CASE \/ \E k \in Kinds : StartPing(p, k)
             \/ LoadMonitor(p) \/ WriteUp(p) \/ FindIncident(p)
    BY <2>1, <2>3, PingMoves
  <2>4. CASE \/ WriteDown(p) \/ LookForIncident(p) \/ CreateIncident(p)
             \/ ResolveIncident(p) \/ Crash(p) \/ StartTick(p) \/ LoadOverdueMonitor(p)
    BY <2>1, <2>4, DownMoves
  <2>5. QED
    BY <2>2, <2>3, <2>4 DEF Acts, PingStep, TickStep
<1>2. PICK st : Go(p, st)
  BY DEF Acts, PingStep, TickStep, StartPing, LoadMonitor, StampRow, WriteDown,
         LookForIncident, CreateIncident, WriteUp, FindIncident, ResolveIncident,
         StartTick, LoadOverdueMonitor, Crash, Done
<1>3. \A q \in Procs : q # p => proc'[q] = proc[q]
  BY <1>2 DEF Go, TypeInv, TypeOK
<1>4. QED
  BY <1>1, <1>3 DEF CauseInv

\* Every step keeps it.
LEMMA CauseStays == TypeInv /\ CauseInv /\ [Next]_vars => CauseInv'
<1> SUFFICES ASSUME TypeInv, CauseInv, [Next]_vars PROVE CauseInv'
  OBVIOUS
<1>1. CASE UNCHANGED proc /\ Opened' \subseteq Opened
  BY <1>1, Spending DEF CauseInv, Alone, SameCause, Opened
<1>2. CASE Advance \/ ReportByHand \/ UNCHANGED vars \/ \E i \in incidents : ResolveByHand(i)
  <2>1. UNCHANGED proc /\ Opened' \subseteq Opened
    BY <1>2 DEF Advance, ReportByHand, ResolveByHand, vars, Opened
  <2>2. QED
    BY <1>1, <2>1
<1>3. ASSUME NEW p \in Procs, Acts(p) PROVE CauseInv'
  <2> SUFFICES ASSUME ~Overlap
               PROVE  /\ Alone'
                      /\ \A i, j \in Opened' : i.cause = j.cause => i = j
                      /\ \A q \in Procs : proc'[q].pc = "create" =>
                           \A i \in incidents' : i.cause # proc'[q].cause
    BY <1>3, CausesOfItsOwn, Spending DEF CauseInv, SameCause
  <2>1. /\ Alone'
        /\ \A q \in Procs : q # p => proc'[q] = proc[q] /\ proc[q].pc = "idle"
        /\ \A i, j \in Opened : i.cause = j.cause => i = j
        /\ proc[p].pc = "create" => SameCause(proc[p].cause) = {}
        /\ proc[p] \in ProcState /\ Idle.pc = "idle"
    BY <1>3, StaysAlone DEF CauseInv, TypeInv, TypeOK, Idle
  <2>2. CASE CreateIncident(p)
    <3>1. proc'[p] = Idle /\ proc[p].pc = "create"
      BY <2>2, DownMoves DEF CreateIncident
    <3> DEFINE new == [id |-> nextId, cause |-> proc[p].cause]
    <3>2. incidents' = incidents \cup {new} /\ new.cause = proc[p].cause
      BY <2>2 DEF CreateIncident
    <3> HIDE DEF new
    <3>3. \A i, j \in Opened' : i.cause = j.cause => i = j
      BY <2>1, <3>1, <3>2 DEF Opened, SameCause
    <3>4. QED
      BY <2>1, <3>1, <3>3
  <2>3. CASE ~CreateIncident(p)
    <3>1. Opened' \subseteq Opened /\ incidents' \subseteq incidents
      BY <1>3, <2>3 DEF Acts, PingStep, TickStep, StartPing, LoadMonitor, StampRow, WriteDown,
           LookForIncident, WriteUp, FindIncident, ResolveIncident,
           StartTick, LoadOverdueMonitor, Crash, Opened
    <3>2. proc'[p].pc = "create" => \A i \in incidents' : i.cause # proc'[p].cause
      <4>1. CASE LookForIncident(p)
        BY <2>1, <3>1, <4>1, DownMoves DEF SameCause
      <4>2. CASE ~LookForIncident(p)
        BY <1>3, <2>1, <2>3, <4>2, PingMoves, DownMoves, AfterStampType
           DEF Acts, PingStep, TickStep, Idle
      <4>3. QED
        BY <4>1, <4>2
    <3>3. QED
      BY <2>1, <3>1, <3>2
  <2>4. QED
    BY <2>2, <2>3
<1>4. QED
  BY <1>2, <1>3, OneMover

\* It holds throughout.
LEMMA CauseThroughout == Spec => []CauseInv
<1>1. Init => CauseInv
  BY DEF Init, CauseInv, Alone, Opened, Idle
<1>2. QED
  BY <1>1, CauseStays, TypedThroughout, PTL DEF Spec

(***************************************************************************)
(* Without overlap openIncident's dedup is exact: one cause never has two  *)
(* incidents open, whatever crashes, is reported or resolved by hand, and  *)
(* even when a success ping resolved the newest and left an older one.     *)
(***************************************************************************)
THEOREM NeverTwiceOpened == Spec => []OneIncidentPerCause
<1>1. CauseInv => OneIncidentPerCause
  BY DEF CauseInv, OneIncidentPerCause
<1>2. QED
  BY <1>1, CauseThroughout, PTL

(***************************************************************************)
(* DownHasAReason holds between runs only.  In between, a process that     *)
(* read the status still holds it, nothing is stamped later than its       *)
(* instant, and a job about to write 'down' still has its deadline passed. *)
(***************************************************************************)
StampedBy(t) ==
  /\ heartbeat.last_ping_at <= t
  /\ heartbeat.last_started_at <= t
  /\ heartbeat.last_fail_at <= t

HasReason ==
  \/ IsDown(heartbeat, now)
  \/ InFlight(heartbeat)
  \/ heartbeat.last_fail_at >= heartbeat.last_ping_at

Reasoned(st) ==
  /\ st.pc \in {"idle", "load", "stamp", "monitor"} => (status = "down" => HasReason)
  /\ st.pc \in {"down", "look", "create"} => HasReason
  /\ st.pc = "monitor" => IsDown(heartbeat, now)
  /\ st.pc \in {"load", "stamp"} => StampedBy(st.at)
  /\ st.pc = "stamp" /\ st.kind # "start" => st.status = status
  /\ st.pc = "up" => status = "down"
  /\ st.pc \in {"find", "resolve"} => status = "up"

WithinBudget == \A e \in Events : left[e] <= Budget[e]
Dated == StampedBy(now) /\ \A p \in Procs : proc[p].at <= now

ReasonInv ==
  /\ WithinBudget /\ Dated
  /\ ~Overlap /\ Untouched({"crash"}) =>
       /\ AtRest => (status = "down" => HasReason)
       /\ \A p \in Procs : proc[p].pc # "idle" => Reasoned(proc[p])

\* Events only ever get fewer, so what is untouched was untouched before.
LEMMA BudgetStays ==
  ASSUME TypeInv, WithinBudget, [Next]_vars
  PROVE  /\ WithinBudget'
         /\ \A e \in Events : left'[e] = Budget[e] => left[e] = Budget[e] /\ ~Spend(e)
<1>1. \A e \in Events : left[e] \in Nat /\ Budget[e] \in Nat /\ left[e] <= Budget[e]
  BY HeartbeatAssumption DEF TypeInv, TypeOK, WithinBudget
<1>2. ASSUME NEW e \in Events, Spend(e)
      PROVE  /\ left'[e] = left[e] - 1
             /\ \A f \in Events : f # e => left'[f] = left[f]
  BY <1>2 DEF Spend, TypeInv, TypeOK
<1>3. \A e \in Events : left'[e] \in Int /\ left'[e] <= left[e]
  <2>1. CASE UNCHANGED left
    BY <1>1, <2>1
  <2>2. ASSUME NEW e \in Events, Spend(e)
        PROVE  \A f \in Events : left'[f] \in Int /\ left'[f] <= left[f]
    BY <1>1, <1>2, <2>2
  <2>3. QED
    BY <2>1, <2>2, Spending
<1>4. ASSUME NEW e \in Events, left'[e] = Budget[e] PROVE left[e] = Budget[e] /\ ~Spend(e)
  BY <1>1, <1>2, <1>3, <1>4
<1>5. WithinBudget'
  BY <1>1, <1>3 DEF WithinBudget
<1>6. QED
  BY <1>4, <1>5

\* A deadline that has passed stays passed until the row is stamped.
LEMMA DeadlineStays ==
  ASSUME TypeInv, Dated, UNCHANGED heartbeat, now' \in Nat, now <= now',
         IsDown(heartbeat, now)
  PROVE  IsDown(heartbeat, now)'
<1>1. /\ heartbeat \in Row /\ now \in Nat \ {0} /\ now <= MaxTime
      /\ heartbeat.last_ping_at <= now
  BY DEF TypeInv, TypeOK, Dated, StampedBy
<1>2. Baseline(heartbeat) \in 1 .. MaxTime
  BY <1>1, HeartbeatAssumption DEF Baseline, Row
<1>3. NextExpected[Baseline(heartbeat)] \in Nat /\ Grace \in Nat
  BY <1>2, HeartbeatAssumption
<1>4. CASE Overran(heartbeat, now)
  BY <1>1, <1>3, <1>4 DEF IsDown, Overran, InFlight, Row
<1>5. CASE Missed(heartbeat, now)
  <2>1. Baseline(heartbeat)' = Baseline(heartbeat)
    BY DEF Baseline
  <2>2. Missed(heartbeat, now)'
    BY <1>1, <1>3, <1>5, <2>1 DEF Missed
  <2>3. QED
    BY <2>2 DEF IsDown
<1>6. QED
  BY <1>4, <1>5 DEF IsDown

\* So a reason for being down stays one until the row is stamped.
LEMMA ReasonStays ==
  ASSUME TypeInv, Dated, UNCHANGED heartbeat, now' \in Nat, now <= now', HasReason
  PROVE  HasReason'
BY DeadlineStays DEF HasReason, InFlight

\* Nothing is ever dated in the future.
LEMMA DatesStay ==
  ASSUME TypeInv, TypeInv', Dated, [Next]_vars
  PROVE  Dated' /\ now <= now'
<1>1. /\ now \in Nat /\ heartbeat \in Row
      /\ \A p \in Procs : proc[p] \in ProcState /\ proc[p].at <= now
      /\ StampedBy(now)
  BY DEF TypeInv, TypeOK, Dated
<1>2. CASE Advance \/ ReportByHand \/ UNCHANGED vars \/ \E i \in incidents : ResolveByHand(i)
  <2>1. UNCHANGED <<heartbeat, proc>> /\ (now' = now \/ now' = now + 1)
    BY <1>2 DEF Advance, ReportByHand, ResolveByHand, vars
  <2>2. QED
    BY <1>1, <2>1 DEF Dated, StampedBy, Row, ProcState
<1>3. ASSUME NEW p \in Procs, Acts(p) PROVE Dated' /\ now <= now'
  <2>1. UNCHANGED now
    BY <1>3 DEF Acts, PingStep, TickStep, StartPing, LoadMonitor, StampRow, WriteDown,
         LookForIncident, CreateIncident, WriteUp, FindIncident, ResolveIncident,
         StartTick, LoadOverdueMonitor, Crash
  <2>2. proc'[p].at \in {0, now, proc[p].at}
    <3>1. Idle.at = 0 /\ proc[p] \in ProcState
      BY <1>1 DEF Idle
    <3>2. CASE StampRow(p)
      BY <3>1, <3>2, PingMoves, AfterStampType
    <3>3. CASE \/ \E k \in Kinds : StartPing(p, k)
               \/ LoadMonitor(p) \/ WriteUp(p) \/ FindIncident(p)
      BY <3>1, <3>3, PingMoves
    <3>4. CASE \/ WriteDown(p) \/ LookForIncident(p) \/ CreateIncident(p)
               \/ ResolveIncident(p) \/ Crash(p) \/ StartTick(p) \/ LoadOverdueMonitor(p)
      BY <3>1, <3>4, DownMoves
    <3>5. QED
      BY <1>3, <3>2, <3>3, <3>4 DEF Acts, PingStep, TickStep
  <2>3. PICK st : Go(p, st)
    BY <1>3 DEF Acts, PingStep, TickStep, StartPing, LoadMonitor, StampRow, WriteDown,
         LookForIncident, CreateIncident, WriteUp, FindIncident, ResolveIncident,
         StartTick, LoadOverdueMonitor, Crash, Done
  <2>4. \A q \in Procs : q # p => proc'[q] = proc[q]
    BY <2>3 DEF Go, TypeInv, TypeOK
  <2>5. StampedBy(now)'
    <3>1. CASE StampRow(p)
      <4>1. proc[p].at \in Nat /\ proc[p].at <= now /\ proc[p].kind \in Kinds
        BY <1>1 DEF ProcState
      <4>2. QED
        BY ZenonT(120), <1>1, <2>1, <3>1, <4>1, StampedType DEF StampRow, StampedBy
    <3>2. CASE ~StampRow(p)
      <4>1. UNCHANGED heartbeat
        BY <1>3, <3>2 DEF Acts, PingStep, TickStep, StartPing, LoadMonitor, WriteDown,
           LookForIncident, CreateIncident, WriteUp, FindIncident, ResolveIncident,
           StartTick, LoadOverdueMonitor, Crash
      <4>2. QED
        BY <1>1, <2>1, <4>1 DEF StampedBy
    <3>3. QED
      BY <3>1, <3>2
  <2>6. QED
    BY <1>1, <2>1, <2>2, <2>4, <2>5 DEF Dated
<1>4. QED
  BY <1>2, <1>3, OneMover

\* The process under way, or one of them when all rest: what it does keeps
\* the reason of a monitor that is down.
LEMMA ActKeepsReason ==
  ASSUME TypeInv, TypeInv', Dated, NEW p \in Procs, Acts(p), ~Crash(p), Reasoned(proc[p])
  PROVE  Reasoned(proc[p])'
<1>1. /\ proc[p] \in ProcState /\ now \in Nat /\ heartbeat \in Row
      /\ StampedBy(now) /\ proc[p].at <= now
  BY DEF TypeInv, TypeOK, Dated
<1>2. UNCHANGED now
  BY DEF Acts, PingStep, TickStep, StartPing, LoadMonitor, StampRow, WriteDown,
         LookForIncident, CreateIncident, WriteUp, FindIncident, ResolveIncident,
         StartTick, LoadOverdueMonitor, Crash
<1>3. ASSUME UNCHANGED heartbeat
      PROVE  /\ HasReason' <=> HasReason
             /\ IsDown(heartbeat, now)' <=> IsDown(heartbeat, now)
             /\ \A t : StampedBy(t)' <=> StampedBy(t)
  BY <1>2, <1>3 DEF HasReason, IsDown, Overran, Missed, InFlight, Baseline, StampedBy
<1>4. Idle.pc = "idle"
  BY DEF Idle
<1>5. CASE \E k \in Kinds : StartPing(p, k)
  <2>1. PICK k \in Kinds : StartPing(p, k)
    BY <1>5
  <2>2. /\ proc'[p].pc = (IF k = "start" THEN "stamp" ELSE "load")
        /\ proc'[p].kind = k /\ proc'[p].at = now
        /\ UNCHANGED <<heartbeat, status>> /\ proc[p].pc = "idle"
    BY <2>1, PingMoves DEF StartPing, MayStart
  <2>3. StampedBy(proc[p].at)'
    BY <1>1, <2>2 DEF StampedBy
  <2>4. QED
    BY <1>3, <2>2, <2>3 DEF Reasoned
<1>6. CASE LoadMonitor(p)
  <2>1. /\ proc[p].pc = "load" /\ UNCHANGED <<heartbeat, status>>
        /\ proc'[p].pc = "stamp" /\ proc'[p].kind = proc[p].kind
        /\ proc'[p].at = proc[p].at /\ proc'[p].status = status
    BY <1>6, PingMoves DEF LoadMonitor
  <2>2. StampedBy(proc[p].at)'
    BY <2>1 DEF Reasoned, StampedBy
  <2>3. QED
    BY <1>3, <2>1, <2>2 DEF Reasoned
<1>7. CASE StampRow(p)
  <2>1. /\ proc[p].pc = "stamp" /\ UNCHANGED status
        /\ heartbeat' = Stamped(heartbeat, proc[p].kind, proc[p].at)
        /\ proc'[p] = AfterStamp(proc[p])
    BY <1>7, PingMoves DEF StampRow
  <2>2. /\ StampedBy(proc[p].at) /\ proc[p].kind \in Kinds /\ proc[p].at \in Nat
        /\ status = "down" => HasReason
        /\ proc[p].kind # "start" => proc[p].status = status
    BY <1>1, <2>1 DEF Reasoned, ProcState
  <2>3. /\ proc'[p].pc \in {"idle", "down", "up"}
        /\ proc'[p].pc = "down" => proc[p].kind = "fail"
        /\ proc'[p].pc = "up" => proc[p].kind = "success" /\ status = "down"
        /\ proc'[p].pc = "idle" /\ status = "down" => proc[p].kind \in {"start", "fail"}
    BY <1>1, <2>1, <2>2, AfterStampType
  <2>8. /\ heartbeat'.last_started_at =
              (IF proc[p].kind = "start" THEN proc[p].at ELSE heartbeat.last_started_at)
        /\ heartbeat'.last_fail_at =
              (IF proc[p].kind = "fail" THEN proc[p].at ELSE heartbeat.last_fail_at)
        /\ heartbeat'.last_ping_at =
              (IF proc[p].kind = "success" THEN proc[p].at ELSE heartbeat.last_ping_at)
    <3>1. heartbeat \in Row /\ proc[p].kind \in Kinds /\ proc[p].at \in Nat
      BY <1>1, <2>2
    <3>2. heartbeat' = Stamped(heartbeat, proc[p].kind, proc[p].at)
      BY <2>1
    <3>3. QED
      BY <3>1, <3>2 DEF Stamped, Row
  <2>4. CASE proc[p].kind = "start"
    <3>1. /\ heartbeat'.last_started_at = proc[p].at
          /\ heartbeat'.last_ping_at = heartbeat.last_ping_at
          /\ heartbeat'.last_fail_at = heartbeat.last_fail_at
      BY <2>4, <2>8
    <3>2. InFlight(heartbeat) => InFlight(heartbeat)'
      BY <1>1, <2>2, <3>1 DEF InFlight, StampedBy, Row
    <3>3. HasReason => HasReason'
      <4>1. Missed(heartbeat, now) => Missed(heartbeat, now)'
        BY <1>2, <3>1 DEF Missed, Baseline
      <4>2. Overran(heartbeat, now) => InFlight(heartbeat)
        BY DEF Overran
      <4>3. QED
        BY <3>1, <3>2, <4>1, <4>2 DEF HasReason, IsDown
    <3>4. QED
      BY <2>1, <2>2, <2>3, <2>4, <3>3 DEF Reasoned
  <2>5. CASE proc[p].kind = "fail"
    <3>1. heartbeat'.last_fail_at >= heartbeat'.last_ping_at
      BY <1>1, <2>2, <2>5, <2>8 DEF StampedBy, Row
    <3>2. HasReason'
      BY <3>1 DEF HasReason
    <3>3. QED
      BY <2>3, <2>5, <3>2 DEF Reasoned
  <2>6. CASE proc[p].kind = "success"
    BY <2>1, <2>3, <2>6 DEF Reasoned
  <2>7. QED
    BY <2>2, <2>4, <2>5, <2>6
<1>8. CASE WriteUp(p)
  <2>1. proc'[p].pc = "find" /\ status' = "up"
    BY <1>8, PingMoves DEF WriteUp
  <2>2. QED
    BY <2>1 DEF Reasoned
<1>9. CASE FindIncident(p) \/ ResolveIncident(p)
  <2>1. /\ proc'[p].pc \in {"idle", "resolve"} /\ UNCHANGED <<heartbeat, status>>
        /\ proc[p].pc \in {"find", "resolve"}
    BY <1>4, <1>9, PingMoves, DownMoves DEF FindIncident, ResolveIncident
  <2>2. QED
    BY <2>1 DEF Reasoned
<1>10. CASE WriteDown(p)
  <2>1. proc'[p].pc = "look" /\ proc[p].pc = "down" /\ UNCHANGED heartbeat
    BY <1>10, DownMoves DEF WriteDown
  <2>2. QED
    BY <1>3, <2>1 DEF Reasoned
<1>11. CASE LookForIncident(p) \/ CreateIncident(p)
  <2>1. /\ proc'[p].pc \in {"idle", "create"} /\ UNCHANGED heartbeat
        /\ proc[p].pc \in {"look", "create"}
    BY <1>4, <1>11, DownMoves DEF LookForIncident, CreateIncident
  <2>2. QED
    BY <1>3, <2>1 DEF Reasoned
<1>12. CASE StartTick(p)
  <2>1. /\ UNCHANGED <<heartbeat, status>> /\ proc[p].pc = "idle"
        /\ \/ proc'[p].pc = "idle"
           \/ proc'[p].pc = "monitor" /\ IsDown(heartbeat, now)
    BY <1>4, <1>12, DownMoves DEF StartTick, MayStart
  <2>2. QED
    BY <1>3, <2>1 DEF Reasoned
<1>13. CASE LoadOverdueMonitor(p)
  <2>1. /\ UNCHANGED <<heartbeat, status>> /\ proc[p].pc = "monitor"
        /\ proc'[p].pc \in {"idle", "down"}
    BY <1>4, <1>13, DownMoves DEF LoadOverdueMonitor
  <2>2. QED
    BY <1>3, <2>1 DEF Reasoned, HasReason
<1>14. QED
  BY <1>5, <1>6, <1>7, <1>8, <1>9, <1>10, <1>11, <1>12, <1>13
     DEF Acts, PingStep, TickStep

\* Every step of an undisturbed behaviour keeps it.
LEMMA ReasonKept ==
  ASSUME TypeInv, TypeInv', CauseInv, ReasonInv, [Next]_vars
  PROVE  ReasonInv'
<1>1. WithinBudget' /\ Dated' /\ now <= now' /\ now' \in Nat /\ Dated
  BY BudgetStays, DatesStay DEF ReasonInv, TypeInv, TypeOK
<1> SUFFICES ASSUME (~Overlap /\ Untouched({"crash"}))'
             PROVE  /\ (AtRest => (status = "down" => HasReason))'
                    /\ \A p \in Procs : proc'[p].pc # "idle" => Reasoned(proc[p])'
  BY <1>1 DEF ReasonInv
<1>2. ~Overlap /\ Untouched({"crash"}) /\ ~Spend("crash") /\ Alone
  BY BudgetStays, Spending DEF ReasonInv, Untouched, Events, CauseInv
<1>3. /\ AtRest => (status = "down" => HasReason)
      /\ \A p \in Procs : proc[p].pc # "idle" => Reasoned(proc[p])
  BY <1>2 DEF ReasonInv
<1>4. CASE Advance \/ ReportByHand \/ UNCHANGED vars \/ \E i \in incidents : ResolveByHand(i)
  <2>1. UNCHANGED <<heartbeat, status, proc>>
    BY <1>4 DEF Advance, ReportByHand, ResolveByHand, vars
  <2>2. /\ HasReason => HasReason'
        /\ IsDown(heartbeat, now) => IsDown(heartbeat, now)'
        /\ \A p \in Procs : StampedBy(proc[p].at) => StampedBy(proc[p].at)'
    BY <1>1, <2>1, ReasonStays, DeadlineStays DEF StampedBy
  <2>3. QED
    BY <1>3, <2>1, <2>2 DEF Reasoned, AtRest
<1>5. ASSUME NEW p \in Procs, Acts(p)
      PROVE  /\ (AtRest => (status = "down" => HasReason))'
             /\ \A q \in Procs : proc'[q].pc # "idle" => Reasoned(proc[q])'
  <2>1. /\ \A q \in Procs : q # p => proc'[q] = proc[q] /\ proc[q].pc = "idle"
        /\ proc[p].pc = "idle" => AtRest
    BY <1>2, <1>5, StaysAlone DEF AtRest
  <2>2. Reasoned(proc[p])
    BY <1>3, <2>1 DEF Reasoned
  <2>3. ~Crash(p)
    BY <1>2 DEF Crash
  <2>4. Reasoned(proc[p])'
    BY <1>1, <1>5, <2>2, <2>3, ActKeepsReason
  <2>5. proc'[p].pc = "idle" => (status = "down" => HasReason)'
    BY <2>4 DEF Reasoned
  <2>6. QED
    BY <2>1, <2>4, <2>5 DEF AtRest
<1>6. QED
  BY <1>4, <1>5, OneMover

(***************************************************************************)
(* Between requests and jobs that ran whole and one after another, a       *)
(* monitor that is down is overdue, in flight, or failed with no success   *)
(* since: no success ping ever leaves it down behind its back.             *)
(***************************************************************************)
THEOREM NeverDownForNothing == Spec => []DownHasAReason
<1>1. Init => ReasonInv
  BY HeartbeatAssumption
     DEF Init, ReasonInv, WithinBudget, Dated, StampedBy, Idle, Events, AtRest
<1>2. TypeInv /\ TypeInv' /\ CauseInv /\ ReasonInv /\ [Next]_vars => ReasonInv'
  BY ReasonKept
<1>3. ReasonInv => DownHasAReason
  BY DEF ReasonInv, DownHasAReason, HasReason
<1>4. QED
  BY <1>1, <1>2, <1>3, TypedThroughout, CauseThroughout, PTL DEF Spec

(***************************************************************************)
(* IncidentMatchesStatus, for a monitor without maintenance windows: one   *)
(* that goes down inside a window is down with no incident, on purpose.    *)
(***************************************************************************)
One == \E i \in incidents : incidents = {i}
SaysWhat == IF status = "down" THEN One ELSE incidents = {}

\* What is open while a process is under way.
Matched(st) ==
  /\ st.pc \in {"idle", "load", "stamp", "monitor"} => SaysWhat
  /\ st.pc = "stamp" /\ st.kind # "start" => st.status = status
  /\ st.pc \in {"down", "look", "create"} => incidents = {}
  /\ st.pc \in {"look", "create"} => status = "down"
  /\ st.pc = "down" => status # "down"
  /\ st.pc = "up" => status = "down" /\ One
  /\ st.pc \in {"find", "resolve"} => status = "up" /\ One
  /\ st.pc = "resolve" => \A i \in incidents : i.id \in st.todo

Quiet == ~Overlap /\ Untouched({"crash", "report", "resolve"})

MatchInv ==
  /\ WithinBudget
  /\ Quiet => /\ AtRest => SaysWhat
              /\ \A p \in Procs : proc[p].pc # "idle" => Matched(proc[p])

\* The process under way keeps what is open in line with the status.
LEMMA ActKeepsMatch ==
  ASSUME Maintenance = {}, TypeInv, NEW p \in Procs, Acts(p), ~Crash(p), Matched(proc[p])
  PROVE  Matched(proc[p])'
<1>1. proc[p] \in ProcState /\ Idle.pc = "idle"
  BY DEF TypeInv, TypeOK, Idle
<1>2. ASSUME UNCHANGED <<status, incidents>>
      PROVE  (SaysWhat' <=> SaysWhat) /\ (One' <=> One)
  BY <1>2 DEF SaysWhat, One
<1>3. CASE \E k \in Kinds : StartPing(p, k)
  <2>1. PICK k \in Kinds : StartPing(p, k)
    BY <1>3
  <2>2. /\ proc'[p].pc = (IF k = "start" THEN "stamp" ELSE "load") /\ proc'[p].kind = k
        /\ UNCHANGED <<status, incidents>> /\ proc[p].pc = "idle"
    BY <2>1, PingMoves DEF StartPing, MayStart
  <2>3. QED
    BY <1>2, <2>2 DEF Matched
<1>4. CASE LoadMonitor(p)
  <2>1. /\ proc[p].pc = "load" /\ UNCHANGED <<status, incidents>>
        /\ proc'[p].pc = "stamp" /\ proc'[p].status = status
    BY <1>4, PingMoves DEF LoadMonitor
  <2>2. QED
    BY <1>2, <2>1 DEF Matched
<1>5. CASE StampRow(p)
  <2>1. /\ proc[p].pc = "stamp" /\ UNCHANGED <<status, incidents>>
        /\ proc'[p] = AfterStamp(proc[p])
    BY <1>5, PingMoves DEF StampRow
  <2>2. /\ SaysWhat
        /\ proc[p].kind # "start" => proc[p].status = status
    BY <2>1 DEF Matched
  <2>3. /\ proc'[p].pc \in {"idle", "down", "up"}
        /\ proc'[p].pc = "down" => status # "down"
        /\ proc'[p].pc = "up" => status = "down"
    BY <1>1, <2>1, <2>2, AfterStampType
  <2>4. QED
    BY <1>2, <2>1, <2>2, <2>3 DEF Matched, SaysWhat, One
<1>6. CASE WriteUp(p)
  <2>1. /\ proc'[p].pc = "find" /\ status' = "up" /\ UNCHANGED incidents
        /\ proc[p].pc = "up"
    BY <1>6, PingMoves DEF WriteUp
  <2>2. QED
    BY <2>1 DEF Matched, One
<1>7. CASE FindIncident(p)
  <2>1. UNCHANGED <<status, incidents>> /\ proc[p].pc = "find"
    BY <1>7 DEF FindIncident
  <2>2. PICK i \in incidents : incidents = {i}
    BY <2>1 DEF Matched, One
  <2>3. proc'[p].pc = "resolve" /\ proc'[p].todo = {Newest(incidents).id}
    BY <1>7, <2>2, PingMoves
  <2>4. Newest(incidents) \in incidents
    BY <2>2, NewestExists DEF TypeInv, TypeOK
  <2>5. \A j \in incidents' : j.id \in proc'[p].todo
    BY <2>1, <2>2, <2>3, <2>4
  <2>6. QED
    BY <1>2, <2>1, <2>3, <2>5 DEF Matched
<1>8. CASE ResolveIncident(p)
  <2>1. /\ proc'[p].pc = "idle" /\ UNCHANGED status /\ proc[p].pc = "resolve"
        /\ incidents' = {i \in incidents : i.id \notin proc[p].todo}
    BY <1>1, <1>8, DownMoves DEF ResolveIncident
  <2>2. incidents' = {} /\ status' = "up"
    BY <2>1 DEF Matched
  <2>3. QED
    BY <2>1, <2>2 DEF Matched, SaysWhat
<1>9. CASE WriteDown(p)
  <2>1. /\ proc'[p].pc = "look" /\ proc[p].pc = "down"
        /\ status' = "down" /\ UNCHANGED incidents
    BY <1>9, DownMoves DEF WriteDown
  <2>2. QED
    BY <2>1 DEF Matched
<1>10. CASE LookForIncident(p)
  <2>1. proc[p].pc = "look" /\ UNCHANGED <<status, incidents>>
    BY <1>10 DEF LookForIncident
  <2>2. SameCause(proc[p].cause) = {}
    BY <2>1 DEF Matched, SameCause
  <2>3. proc'[p].pc = "create"
    BY <1>10, <2>2, DownMoves
  <2>4. QED
    BY <2>1, <2>3 DEF Matched
<1>11. CASE CreateIncident(p)
  <2>1. /\ proc'[p].pc = "idle" /\ proc[p].pc = "create" /\ UNCHANGED status
        /\ incidents' = incidents \cup {[id |-> nextId, cause |-> proc[p].cause]}
    BY <1>1, <1>11, DownMoves DEF CreateIncident
  <2>2. status' = "down" /\ incidents' = {[id |-> nextId, cause |-> proc[p].cause]}
    BY <2>1 DEF Matched
  <2>3. One'
    BY <2>2 DEF One
  <2>4. QED
    BY <2>1, <2>2, <2>3 DEF Matched, SaysWhat
<1>12. CASE StartTick(p) \/ LoadOverdueMonitor(p)
  <2>1. /\ UNCHANGED <<status, incidents>> /\ proc[p].pc \in {"idle", "monitor"}
        /\ proc'[p].pc \in {"idle", "monitor", "down"}
        /\ proc'[p].pc = "down" => status # "down"
    BY <1>1, <1>12, DownMoves DEF StartTick, LoadOverdueMonitor, MayStart
  <2>2. QED
    BY <1>2, <2>1 DEF Matched, SaysWhat
<1>13. QED
  BY <1>3, <1>4, <1>5, <1>6, <1>7, <1>8, <1>9, <1>10, <1>11, <1>12
     DEF Acts, PingStep, TickStep

(***************************************************************************)
(* Between requests and jobs that ran whole, one after another and with no *)
(* person in the incidents, a monitor that is never in maintenance has     *)
(* exactly one incident open while it is down, and none otherwise.         *)
(***************************************************************************)
THEOREM IncidentsSayWhatStatusSays ==
  ASSUME Maintenance = {}
  PROVE  Spec => []IncidentMatchesStatus
<1>1. Init => MatchInv
  BY HeartbeatAssumption
     DEF Init, MatchInv, WithinBudget, Idle, Events, AtRest, SaysWhat
<1>2. TypeInv /\ CauseInv /\ MatchInv /\ [Next]_vars => MatchInv'
  <2> SUFFICES ASSUME TypeInv, CauseInv, MatchInv, [Next]_vars PROVE MatchInv'
    OBVIOUS
  <2> SUFFICES ASSUME Quiet'
               PROVE  /\ (AtRest => SaysWhat)'
                      /\ \A p \in Procs : proc'[p].pc # "idle" => Matched(proc[p])'
    BY BudgetStays DEF MatchInv
  <2>1. /\ Quiet /\ Alone
        /\ ~Spend("crash") /\ ~Spend("report") /\ ~Spend("resolve")
    BY BudgetStays, Spending DEF MatchInv, Quiet, Untouched, Events, CauseInv
  <2>2. /\ AtRest => SaysWhat
        /\ \A p \in Procs : proc[p].pc # "idle" => Matched(proc[p])
    BY <2>1 DEF MatchInv
  <2>3. CASE Advance \/ ReportByHand \/ UNCHANGED vars \/ \E i \in incidents : ResolveByHand(i)
    <3>1. UNCHANGED <<status, incidents, proc>>
      BY <2>1, <2>3 DEF Advance, ReportByHand, ResolveByHand, vars
    <3>2. QED
      BY <2>2, <3>1 DEF Matched, SaysWhat, One, AtRest
  <2>4. ASSUME NEW p \in Procs, Acts(p)
        PROVE  /\ (AtRest => SaysWhat)'
               /\ \A q \in Procs : proc'[q].pc # "idle" => Matched(proc[q])'
    <3>1. /\ \A q \in Procs : q # p => proc'[q] = proc[q] /\ proc[q].pc = "idle"
          /\ proc[p].pc = "idle" => AtRest
      BY <2>1, <2>4, StaysAlone DEF Quiet, AtRest
    <3>2. Matched(proc[p]) /\ ~Crash(p)
      BY <2>1, <2>2, <3>1 DEF Matched, Crash
    <3>3. Matched(proc[p])'
      BY <2>4, <3>2, ActKeepsMatch
    <3>4. proc'[p].pc = "idle" => SaysWhat'
      BY <3>3 DEF Matched
    <3>5. QED
      BY <3>1, <3>3, <3>4 DEF AtRest
  <2>5. QED
    BY <2>3, <2>4, OneMover
<1>3. MatchInv => IncidentMatchesStatus
  <2>1. One => Cardinality(incidents) = 1
    BY FS_Singleton DEF One
  <2>2. QED
    BY <2>1 DEF MatchInv, Quiet, IncidentMatchesStatus, SaysWhat
<1>4. QED
  BY <1>1, <1>2, <1>3, TypedThroughout, CauseThroughout, PTL DEF Spec
=============================================================================
