----------------------------- MODULE DispatchProofs -----------------------------
(***************************************************************************)
(* Proofs about Dispatch for every number of workers, set of regions,      *)
(* interval, cap, threshold and budget.                                    *)
(***************************************************************************)
EXTENDS Dispatch, FiniteSetTheorems, FunctionTheorems, SequenceTheorems, TLAPS

(***************************************************************************)
(* Types of the operators the actions are built from.                      *)
(***************************************************************************)
\* The multiplier (pollBackoffMultiplier) is one at least and the cap at most,
\* however many failures are counted.
LEMMA MultiplierBounds ==
  ASSUME NEW failures \in Nat, NEW cap \in Nat \ {0}
  PROVE  Multiplier(failures, cap) \in 1 .. cap
<1> DEFINE stretch == 2 ^ ((failures - 2) \div 5 + 1)
<1>1. Multiplier(failures, cap) =
        IF failures <= 2 THEN 1 ELSE IF stretch \in 1 .. cap THEN stretch ELSE cap
  BY DEF Multiplier
<1> HIDE DEF stretch
<1>2. QED
  BY <1>1

\* What is spent is off its own count; the common one aside, nothing else is.
LEMMA Spent ==
  ASSUME left \in [Events \cup {"any"} -> Nat], NEW S \in SUBSET Events, IsFiniteSet(S), Spend(S)
  PROVE  /\ left' \in [Events \cup {"any"} -> Nat]
         /\ \A e \in Events : left'[e] = IF e \in S THEN left[e] - 1 ELSE left[e]
<1> DEFINE faults == Cardinality(S \cap Faults)
<1>1. faults \in Nat
  BY FS_Subset, FS_CardinalityType
<1>2. /\ faults <= left["any"]
      /\ \A e \in S : left[e] > 0
      /\ left' = [e \in Events \cup {"any"} |->
                    CASE e \in S -> left[e] - 1
                      [] e = "any" -> left[e] - faults
                      [] OTHER -> left[e]]
  BY DEF Spend
<1>3. "any" \notin Events
  BY DEF Events, Faults
<1> HIDE DEF faults
<1>4. QED
  BY <1>1, <1>2, <1>3

\* A result that is filed makes its region's newest no older.
LEMMA RecordedIs ==
  ASSUME newest \in [Regions -> [age: Ages, status: Cast]],
         NEW r \in Regions, NEW age \in Ages, NEW s \in Cast
  PROVE  /\ Recorded(r, age, s) \in [Regions -> [age: Ages, status: Cast]]
         /\ \A q \in Regions : Recorded(r, age, s)[q].age <= newest[q].age
         /\ Recorded(r, age, s)[r].age <= age
BY DispatchAssumption DEF Recorded, Ages

\* A stamp is as old as the result, up to its bound.
LEMMA UptoIs ==
  ASSUME NEW age \in Ages
  PROVE  /\ Upto(age) \in 0 .. Overdue
         /\ Upto(age) < Overdue => Upto(age) = age
BY DispatchAssumption DEF Upto, Ages

\* Half a minute older, up to a bound.
LEMMA OlderIs ==
  ASSUME NEW bound \in Nat, NEW age \in 0 .. bound
  PROVE  /\ Older(age, bound) \in 0 .. bound
         /\ Older(age, bound) <= age + 1
         /\ Older(age, bound) < bound => Older(age, bound) = age + 1
BY DEF Older

\* A worker at rest.
LEMMA IdleType == Idle \in WorkerState /\ Idle.pc = "idle" /\ Idle.age = 0
BY DispatchAssumption DEF Idle, WorkerState, WorkerPCs, Ages, Verdicts

(***************************************************************************)
(* Type correctness.                                                       *)
(***************************************************************************)
\* What is on its way was seen.
TypeInv ==
  /\ TypeOK
  /\ \A r \in Remotes : carried[r] # Nothing => carried[r].status \in Cast

\* A worker takes a job from the queue.
LEMMA TakeType ==
  ASSUME TypeOK, NEW w \in Workers, NEW kind, Take(w, kind)
  PROVE  /\ queue # <<>> /\ Head(queue) \in Job /\ Head(queue).kind = kind
         /\ queue' = Tail(queue) /\ queue' \in Seq(Job)
         /\ worker[w].pc = "idle"
BY DEF TypeOK, Take

\* ... and goes on with it.
LEMMA GoType ==
  ASSUME TypeOK, NEW w \in Workers, NEW st \in WorkerState, Go(w, st)
  PROVE  /\ worker' = [worker EXCEPT ![w] = st]
         /\ worker' \in [Workers -> WorkerState]
         /\ worker'[w] = st /\ \A v \in Workers \ {w} : worker'[v] = worker[v]
BY DEF TypeOK, Go

\* The queue and the jobs of the scheduler.
LEMMA JobTypes ==
  /\ Checking \in Job /\ Dispatching \in Job /\ Evaluating \in Job
  /\ \A n \in 0 .. 2 : [Checking EXCEPT !.tries = n] \in Job
                       /\ [Checking EXCEPT !.tries = n].kind = "check"
BY DEF Checking, Dispatching, Evaluating, Job, Kinds

\* Only one job, or the two of a minute, are ever put into the queue.
LEMMA QueueType ==
  ASSUME queue \in Seq(Job)
  PROVE  /\ \A j \in Job : Append(queue, j) \in Seq(Job)
         /\ queue \o <<Dispatching, Evaluating>> \in Seq(Job)
<1>1. <<Dispatching, Evaluating>> \in Seq(Job)
  BY JobTypes
<1>2. QED
  BY <1>1

\* The work keeps the types.
LEMMA WorkType ==
  ASSUME TypeInv, NEW w \in Workers, Work(w)
  PROVE  TypeInv'
<1> USE DEF TypeInv
<1>1. CASE StartDispatch(w)
  <2> DEFINE st == IF monitor.enabled /\ Due THEN [Idle EXCEPT !.pc = "enqueue"] ELSE Idle
  <2>1. st \in WorkerState
    BY IdleType DEF WorkerState, WorkerPCs
  <2>2. Take(w, "dispatch") /\ Go(w, st) /\ UNCHANGED <<rows, world, early, left>>
    BY <1>1 DEF StartDispatch
  <2> HIDE DEF st
  <2>3. QED
    BY <2>1, <2>2, TakeType, GoType DEF TypeOK, rows, world
<1>2. CASE EnqueueCheck(w)
  BY <1>2, IdleType, GoType, JobTypes, QueueType DEF EnqueueCheck, Done, TypeOK, rows, world
<1>3. CASE StartCheck(w)
  <2> DEFINE st == [Idle EXCEPT !.pc = "answer", !.tries = Head(queue).tries]
  <2>1. Take(w, "check") /\ Go(w, st) /\ UNCHANGED <<rows, world, early, left>>
    BY <1>3 DEF StartCheck
  <2>2. st \in WorkerState
    BY <2>1, IdleType, TakeType DEF WorkerState, WorkerPCs, Job
  <2> HIDE DEF st
  <2>3. QED
    BY <2>1, <2>2, TakeType, GoType DEF TypeOK, rows, world
<1>4. CASE FileAnswer(w)
  <2>1. PICK age \in {0, worker[w].age} :
          /\ newest' = Recorded(Primary, age, target[Primary])
          /\ Go(w, [worker[w] EXCEPT !.pc = "touch", !.age = age])
    BY <1>4 DEF FileAnswer
  <2>2. worker[w] \in WorkerState /\ age \in Ages /\ Primary \in Regions
    BY DispatchAssumption DEF TypeOK, WorkerState, Regions, Ages
  <2>3. target[Primary] \in Cast
    BY <2>2 DEF TypeOK
  <2>4. [worker[w] EXCEPT !.pc = "touch", !.age = age] \in WorkerState
    BY <2>2 DEF WorkerState, WorkerPCs
  <2>5. newest' \in [Regions -> [age: Ages, status: Cast]]
    BY <2>1, <2>2, <2>3, RecordedIs DEF TypeOK
  <2>6. worker' \in [Workers -> WorkerState]
    BY <2>1, <2>4, GoType
  <2>7. early' \in Nat /\ UNCHANGED <<monitor, queue, world, left>>
    BY <1>4 DEF FileAnswer, TypeOK
  <2>8. QED
    BY <2>5, <2>6, <2>7 DEF TypeOK, world
<1>5. CASE TouchMonitor(w)
  <2>1. Upto(worker[w].age) \in 0 .. Overdue
    BY UptoIs DEF TypeOK, WorkerState
  <2>2. monitor' \in Row
    BY <1>5, <2>1 DEF TouchMonitor, Stamp, TypeOK, Row
  <2>3. QED
    BY <1>5, <2>2, IdleType, GoType DEF TouchMonitor, Done, TypeOK, world
<1>6. CASE StartEvaluate(w)
  <2> DEFINE next == ConsensusStatus(Votes, MinRegions)
             st == IF monitor.enabled /\ Fresh # {}
                   THEN [Idle EXCEPT !.pc = "write", !.prev = monitor.status,
                                     !.failures = monitor.failures, !.next = next]
                   ELSE Idle
  <2>1. next \in Verdicts
    BY DEF ConsensusStatus, Verdicts, Cast
  <2>2. monitor.status \in Verdicts /\ monitor.failures \in 0 .. FailureCap
    BY DEF TypeOK, Row
  <2>3. Take(w, "evaluate") /\ Go(w, st) /\ UNCHANGED <<rows, world, early, left>>
    BY <1>6 DEF StartEvaluate
  <2> HIDE DEF next
  <2>4. st \in WorkerState
    BY <2>1, <2>2, IdleType DEF WorkerState, WorkerPCs
  <2> HIDE DEF st
  <2>5. QED
    BY <2>3, <2>4, TakeType, GoType DEF TypeOK, rows, world
<1>7. CASE WriteVerdict(w)
  <2>1. worker[w] \in WorkerState
    BY DEF TypeOK
  <2>2. NextFailures(worker[w]) \in 0 .. FailureCap /\ worker[w].next \in Verdicts
    BY <2>1, DispatchAssumption DEF NextFailures, Bump, WorkerState
  <2>3. monitor' \in Row
    BY <1>7, <2>2 DEF WriteVerdict, TypeOK, Row
  <2>4. QED
    BY <1>7, <2>3, IdleType, GoType DEF WriteVerdict, Done, TypeOK, world
<1>8. QED
  BY <1>1, <1>2, <1>3, <1>4, <1>5, <1>6, <1>7 DEF Work

\* So does a worker that dies.
LEMMA CrashType ==
  ASSUME TypeInv, NEW w \in Workers, CrashWorker(w)
  PROVE  TypeInv' /\ \A e \in Events : left'[e] = IF e = "crash" THEN left[e] - 1 ELSE left[e]
<1>1. Spend({"crash"}) /\ {"crash"} \in SUBSET Events /\ IsFiniteSet({"crash"})
  BY FS_Singleton DEF CrashWorker, Events, Faults
<1>2. /\ left' \in [Events \cup {"any"} -> Nat]
      /\ \A e \in Events : left'[e] = IF e \in {"crash"} THEN left[e] - 1 ELSE left[e]
  <2>1. left \in [Events \cup {"any"} -> Nat]
    BY DEF TypeInv, TypeOK
  <2>2. QED
    BY <1>1, <2>1, Spent
<1>3. queue' \in Seq(Job)
  <2>1. worker[w].tries \in 0 .. 2 /\ queue \in Seq(Job)
    BY DEF TypeInv, TypeOK, WorkerState
  <2>2. worker[w].tries > 1 => [Checking EXCEPT !.tries = worker[w].tries - 1] \in Job
    BY <2>1, JobTypes
  <2>3. QED
    BY <2>1, <2>2, QueueType DEF CrashWorker
<1>4. worker' \in [Workers -> WorkerState]
  BY IdleType, GoType DEF CrashWorker, Done, TypeInv
<1>5. UNCHANGED <<rows, world, early>>
  BY DEF CrashWorker
<1>6. QED
  BY <1>2, <1>3, <1>4, <1>5 DEF TypeInv, TypeOK, rows, world

\* So do the remote regions, ...
LEMMA ProbeType ==
  ASSUME TypeInv, NEW r \in Remotes, ProbeTarget(r) \/ ProbeSlowly(r) \/ IngestLate(r)
  PROVE  TypeInv' /\ \A e \in Events : left'[e] = IF e = "late" /\ ProbeSlowly(r)
                                                  THEN left[e] - 1 ELSE left[e]
<1>1. /\ r \in Regions /\ target[r] \in Cast /\ 0 \in Ages /\ 0 \in 0 .. Overdue
      /\ carried[r].age \in Ages
      /\ left \in [Events \cup {"any"} -> Nat]
  BY DispatchAssumption DEF Regions, TypeInv, TypeOK, Ages
<1>2. CASE ProbeTarget(r) /\ ~ProbeSlowly(r)
  <2>1. newest' \in [Regions -> [age: Ages, status: Cast]]
    BY <1>1, <1>2, RecordedIs DEF ProbeTarget, TypeInv, TypeOK
  <2>2. monitor' \in Row
    BY <1>1, <1>2 DEF ProbeTarget, TypeInv, TypeOK, Row
  <2>3. QED
    BY <1>2, <2>1, <2>2 DEF ProbeTarget, TypeInv, TypeOK, world
<1>3. CASE ProbeSlowly(r)
  <2>1. Spend({"late"}) /\ {"late"} \in SUBSET Events /\ IsFiniteSet({"late"})
    BY <1>3, FS_Singleton DEF ProbeSlowly, Events, Faults
  <2>2. /\ left' \in [Events \cup {"any"} -> Nat]
        /\ \A e \in Events : left'[e] = IF e \in {"late"} THEN left[e] - 1 ELSE left[e]
    BY <1>1, <2>1, Spent
  <2>3. carried' = [carried EXCEPT ![r] = [age |-> 0, status |-> target[r]]]
    BY <1>3 DEF ProbeSlowly
  <2>4. /\ carried' \in [Remotes -> [age: Ages, status: Verdicts]]
        /\ \A q \in Remotes : carried'[q] # Nothing => carried'[q].status \in Cast
    BY <1>1, <2>3 DEF TypeInv, TypeOK, Verdicts
  <2>5. UNCHANGED <<half, rows, queue, worker, target, calm, early>>
    BY <1>3 DEF ProbeSlowly
  <2>6. QED
    BY <1>3, <2>2, <2>4, <2>5 DEF TypeInv, TypeOK, rows
<1>4. CASE IngestLate(r) /\ ~ProbeSlowly(r)
  <2>1. carried[r].status \in Cast
    BY <1>4 DEF IngestLate, TypeInv
  <2>2. newest' \in [Regions -> [age: Ages, status: Cast]]
    BY <1>1, <1>4, <2>1, RecordedIs DEF IngestLate, TypeInv, TypeOK
  <2>3. monitor' \in Row
    BY <1>1, <1>4, UptoIs DEF IngestLate, TypeInv, TypeOK, Row
  <2>4. /\ carried' \in [Remotes -> [age: Ages, status: Verdicts]]
        /\ \A q \in Remotes : carried'[q] # Nothing => carried'[q].status \in Cast
    <3>1. Nothing \in [age: Ages, status: Verdicts]
      BY <1>1 DEF Nothing, Verdicts
    <3>2. QED
      BY <1>4, <3>1 DEF IngestLate, TypeInv, TypeOK
  <2>5. QED
    BY <1>4, <2>2, <2>3, <2>4 DEF IngestLate, TypeInv, TypeOK
<1>5. QED
  BY <1>2, <1>3, <1>4

\* ... the people and the target, ...
LEMMA PeopleType ==
  ASSUME TypeInv,
         \/ RunCheckNow
         \/ \E enabled \in BOOLEAN, interval \in Intervals : EditMonitor(enabled, interval)
         \/ \E seers \in (SUBSET Regions) \ {{}}, status \in Sights : TargetChanges(seers, status)
  PROVE  /\ TypeInv'
         /\ \A e \in Events : left'[e] \in {left[e], left[e] - 1}
         /\ \A e \in {"behind", "crash", "late"} : left'[e] = left[e]
<1>1. /\ left \in [Events \cup {"any"} -> Nat]
      /\ {"manual"} \in SUBSET Events /\ {"edit"} \in SUBSET Events /\ {"site"} \in SUBSET Events
      /\ \A e \in Events : IsFiniteSet({e})
      /\ {"behind", "crash", "late"} \subseteq Events
  BY FS_Singleton DEF TypeInv, TypeOK, Events, Faults
<1>2. ASSUME RunCheckNow PROVE TypeInv' /\ \A e \in Events : left'[e] = IF e \in {"manual"} THEN left[e] - 1 ELSE left[e]
  <2>1. /\ left' \in [Events \cup {"any"} -> Nat]
        /\ \A e \in Events : left'[e] = IF e \in {"manual"} THEN left[e] - 1 ELSE left[e]
    BY <1>1, <1>2, Spent DEF RunCheckNow
  <2>2. queue' \in Seq(Job)
    BY <1>2, JobTypes, QueueType DEF RunCheckNow, TypeInv, TypeOK
  <2>3. QED
    BY <1>2, <2>1, <2>2 DEF RunCheckNow, TypeInv, TypeOK, rows, world
<1>3. ASSUME NEW enabled \in BOOLEAN, NEW interval \in Intervals, EditMonitor(enabled, interval)
      PROVE  TypeInv' /\ \A e \in Events : left'[e] = IF e \in {"edit"} THEN left[e] - 1 ELSE left[e]
  <2>1. /\ left' \in [Events \cup {"any"} -> Nat]
        /\ \A e \in Events : left'[e] = IF e \in {"edit"} THEN left[e] - 1 ELSE left[e]
    BY <1>1, <1>3, Spent DEF EditMonitor
  <2>2. monitor' \in Row
    BY <1>3 DEF EditMonitor, TypeInv, TypeOK, Row
  <2>3. calm' \in 0 .. Settled
    <3>1. Settled \in Nat
      BY DispatchAssumption
    <3>2. calm' = 0
      BY <1>3 DEF EditMonitor
    <3>3. QED
      BY <3>1, <3>2
  <2>4. QED
    BY <1>3, <2>1, <2>2, <2>3 DEF EditMonitor, TypeInv, TypeOK
<1>4. ASSUME NEW seers \in (SUBSET Regions) \ {{}}, NEW status \in Sights, TargetChanges(seers, status)
      PROVE  TypeInv' /\ \A e \in Events : left'[e] = IF e \in {"site"} THEN left[e] - 1 ELSE left[e]
  <2>1. /\ left' \in [Events \cup {"any"} -> Nat]
        /\ \A e \in Events : left'[e] = IF e \in {"site"} THEN left[e] - 1 ELSE left[e]
    BY <1>1, <1>4, Spent DEF TargetChanges
  <2>2. target' \in [Regions -> Cast]
    BY <1>4, DispatchAssumption DEF TargetChanges, TypeInv, TypeOK
  <2>3. calm' \in 0 .. Settled
    <3>1. Settled \in Nat
      BY DispatchAssumption
    <3>2. calm' = 0
      BY <1>4 DEF TargetChanges
    <3>3. QED
      BY <3>1, <3>2
  <2>4. QED
    BY <1>4, <2>1, <2>2, <2>3 DEF TargetChanges, TypeInv, TypeOK, rows
<1>5. PICK e0 \in {"manual", "edit", "site"} :
        TypeInv' /\ \A e \in Events : left'[e] = IF e \in {e0} THEN left[e] - 1 ELSE left[e]
  BY <1>2, <1>3, <1>4
<1>6. \A e \in Events : left[e] \in Nat
  BY <1>1
<1>7. QED
  BY <1>1, <1>5, <1>6

\* ... and time, which makes everything that ages half a minute older.
LEMMA AgeingIs ==
  ASSUME TypeInv, Ageing
  PROVE  /\ monitor' \in Row /\ monitor' = [monitor EXCEPT !.last = monitor'.last]
         /\ monitor'.last < Overdue => monitor'.last = monitor.last + 1
         /\ newest' \in [Regions -> [age: Ages, status: Cast]]
         /\ \A r \in Regions : /\ newest'[r].age = Older(newest[r].age, Old)
                               /\ newest'[r].age <= newest[r].age + 1
                               /\ newest'[r].status = newest[r].status
         /\ worker' \in [Workers -> WorkerState]
         /\ \A w \in Workers :
              /\ worker'[w].pc = worker[w].pc
              /\ worker[w].pc \in {"answer", "touch"} => worker'[w].age = Older(worker[w].age, Old)
              /\ worker[w].pc \notin {"answer", "touch"} => worker'[w] = worker[w]
         /\ carried' \in [Remotes -> [age: Ages, status: Verdicts]]
         /\ \A r \in Remotes : carried'[r] # Nothing => carried'[r].status \in Cast
         /\ calm' \in 0 .. Settled /\ calm' <= calm + 1
         /\ UNCHANGED <<target, early>>
<1>1. /\ Old \in Nat /\ Overdue \in Nat /\ Settled \in Nat
      /\ \A age \in Ages : Older(age, Old) \in Ages /\ Older(age, Old) <= age + 1
      /\ \A age \in 0 .. Overdue :
           /\ Older(age, Overdue) \in 0 .. Overdue
           /\ Older(age, Overdue) < Overdue => Older(age, Overdue) = age + 1
      /\ \A age \in 0 .. Settled : Older(age, Settled) \in 0 .. Settled /\ Older(age, Settled) <= age + 1
  BY DispatchAssumption, OlderIs DEF Ages
<1>2. /\ monitor' \in Row /\ monitor' = [monitor EXCEPT !.last = monitor'.last]
      /\ monitor'.last < Overdue => monitor'.last = monitor.last + 1
  <2>1. monitor' = [monitor EXCEPT !.last = Older(monitor.last, Overdue)] /\ monitor \in Row
    BY DEF Ageing, TypeInv, TypeOK
  <2>2. monitor.last \in 0 .. Overdue
    BY <2>1 DEF Row
  <2> HIDE DEF Older
  <2>3. QED
    BY <1>1, <2>1, <2>2 DEF Row
<1>3. /\ newest' \in [Regions -> [age: Ages, status: Cast]]
      /\ \A r \in Regions : /\ newest'[r].age = Older(newest[r].age, Old)
                            /\ newest'[r].age <= newest[r].age + 1
                            /\ newest'[r].status = newest[r].status
  <2>1. newest' = [r \in Regions |-> [newest[r] EXCEPT !.age = Older(newest[r].age, Old)]]
    BY DEF Ageing
  <2>2. \A r \in Regions : newest[r] \in [age: Ages, status: Cast]
    BY DEF TypeInv, TypeOK
  <2>3. QED
    BY <1>1, <2>1, <2>2
<1>4. /\ worker' \in [Workers -> WorkerState]
      /\ \A w \in Workers :
           /\ worker'[w].pc = worker[w].pc
           /\ worker[w].pc \in {"answer", "touch"} => worker'[w].age = Older(worker[w].age, Old)
           /\ worker[w].pc \notin {"answer", "touch"} => worker'[w] = worker[w]
  <2>1. worker' = [w \in Workers |-> IF worker[w].pc \in {"answer", "touch"}
                                     THEN [worker[w] EXCEPT !.age = Older(worker[w].age, Old)]
                                     ELSE worker[w]]
    BY DEF Ageing
  <2>2. \A w \in Workers : worker[w] \in WorkerState
    BY DEF TypeInv, TypeOK
  <2>3. \A w \in Workers : [worker[w] EXCEPT !.age = Older(worker[w].age, Old)] \in WorkerState
    BY <1>1, <2>2 DEF WorkerState
  <2>4. \A w \in Workers : [worker[w] EXCEPT !.age = Older(worker[w].age, Old)].pc = worker[w].pc
                           /\ [worker[w] EXCEPT !.age = Older(worker[w].age, Old)].age = Older(worker[w].age, Old)
    BY <2>2 DEF WorkerState
  <2>5. QED
    BY <2>1, <2>2, <2>3, <2>4
<1>5. /\ carried' \in [Remotes -> [age: Ages, status: Verdicts]]
      /\ \A r \in Remotes : carried'[r] # Nothing => carried'[r].status \in Cast
  <2>1. carried' = [r \in Remotes |-> IF carried[r] = Nothing THEN Nothing
                                      ELSE [carried[r] EXCEPT !.age = Older(carried[r].age, Old)]]
    BY DEF Ageing
  <2>2. \A r \in Remotes : carried[r] \in [age: Ages, status: Verdicts]
                           /\ (carried[r] # Nothing => carried[r].status \in Cast)
    BY DEF TypeInv, TypeOK
  <2>3. QED
    BY <1>1, <2>1, <2>2
<1>6. calm' \in 0 .. Settled /\ calm' <= calm + 1
  BY <1>1 DEF Ageing, TypeInv, TypeOK
<1>7. UNCHANGED <<target, early>>
  BY DEF Ageing
<1>8. QED
  BY <1>2, <1>3, <1>4, <1>5, <1>6, <1>7

\* Half a minute, and the minute.
LEMMA TimeType ==
  ASSUME TypeInv, HalfMinute \/ Tick
  PROVE  /\ TypeInv'
         /\ HalfMinute => left' = left
         /\ Tick => \A e \in Events :
              left'[e] = IF Busy /\ e = "behind" THEN left[e] - 1 ELSE left[e]
<1>1. Ageing
  BY DEF HalfMinute, Tick
<1>2. CASE HalfMinute
  <2>1. ~Tick /\ half' = 1 /\ UNCHANGED <<queue, left>>
    BY <1>2 DEF HalfMinute, Tick
  <2>2. QED
    BY <1>1, <2>1, AgeingIs DEF TypeInv, TypeOK
<1>3. CASE Tick
  <2>1. /\ half' = 0 /\ half = 1
        /\ queue' = queue \o <<Dispatching, Evaluating>>
        /\ Spend(IF Busy THEN {"behind"} ELSE {})
    BY <1>3 DEF Tick
  <2>2. queue' \in Seq(Job)
    BY <2>1, QueueType DEF TypeInv, TypeOK
  <2> DEFINE S == IF Busy THEN {"behind"} ELSE {}
  <2>3. S \in SUBSET Events /\ IsFiniteSet(S) /\ left \in [Events \cup {"any"} -> Nat] /\ Spend(S)
    BY <2>1, FS_Singleton, FS_EmptySet DEF Events, Faults, TypeInv, TypeOK
  <2>4. /\ left' \in [Events \cup {"any"} -> Nat]
        /\ \A e \in Events : left'[e] = IF e \in S THEN left[e] - 1 ELSE left[e]
    BY <2>3, Spent
  <2>5. \A e \in Events : left'[e] = IF Busy /\ e = "behind" THEN left[e] - 1 ELSE left[e]
    BY <2>4
  <2>6. ~HalfMinute
    BY <2>1 DEF HalfMinute
  <2>7. TypeInv'
    BY <1>1, <2>1, <2>2, <2>4, AgeingIs DEF TypeInv, TypeOK
  <2>8. QED
    BY <2>5, <2>6, <2>7
<1>4. QED
  BY <1>2, <1>3

\* What the monitor starts as.
LEMMA InitType == Init => TypeInv
<1> SUFFICES ASSUME Init PROVE TypeInv
  OBVIOUS
<1>1. monitor \in Row
  BY DispatchAssumption DEF Init, Row, Verdicts
<1>2. newest \in [Regions -> [age: Ages, status: Cast]]
  BY DispatchAssumption DEF Init, Ages, Cast
<1>3. worker \in [Workers -> WorkerState]
  BY IdleType DEF Init
<1>4. /\ carried \in [Remotes -> [age: Ages, status: Verdicts]]
      /\ \A r \in Remotes : carried[r] = Nothing
  BY DispatchAssumption DEF Init, Nothing, Ages, Verdicts
<1>5. target \in [Regions -> Cast]
  BY DispatchAssumption DEF Init
<1>6. half \in {0, 1} /\ queue \in Seq(Job) /\ calm \in 0 .. Settled /\ early \in Nat
      /\ left \in [Events \cup {"any"} -> Nat]
  BY DispatchAssumption DEF Init
<1>7. QED
  BY <1>1, <1>2, <1>3, <1>4, <1>5, <1>6 DEF TypeInv, TypeOK

\* The types, throughout.
LEMMA TypesThroughout == Spec => []TypeInv
<1>1. TypeInv /\ [Next]_vars => TypeInv'
  <2> SUFFICES ASSUME TypeInv, [Next]_vars PROVE TypeInv'
    OBVIOUS
  <2>1. CASE UNCHANGED vars
    BY <2>1 DEF vars, TypeInv, TypeOK
  <2>2. QED
    BY <2>1, WorkType, CrashType, ProbeType, PeopleType, TimeType DEF Next
<1>2. QED
  BY <1>1, InitType, PTL DEF Spec

\* The variables keep their types, whatever the queue, the workers, the remote
\* regions and the people do.
THEOREM TypeCorrect == Spec => []TypeOK
BY TypesThroughout, PTL DEF TypeInv

(***************************************************************************)
(* Watched in time.                                                        *)
(***************************************************************************)
\* The longest the interval may be stretched, and what each minute that found
\* jobs undone and each worker that died may add.
Reach == monitor.interval * monitor.cap
Bound == Reach + 2 * (Used("behind") + Used("crash"))

\* Some region looked at the target in the last n half minutes, or there was
\* no time to.
Within(n) ==
  monitor.enabled => calm <= n \/ \E r \in Regions : newest[r].age <= n

\* A dispatch or a check is in the queue, or a worker is at it.
Looks == {"dispatch", "check"}
Queued(q) == \E i \in DOMAIN q : q[i].kind \in Looks
Pending == Queued(queue) \/ \E w \in Workers : worker[w].pc \in {"enqueue", "answer"}

\* No event happened more often than it may.
SpentInv == \A e \in Events : left[e] <= Budget[e]

\* A check is held no longer than the queue ran behind, and what was filed is
\* no older than what is to be stamped.
HeldInv ==
  \A w \in Workers :
    /\ worker[w].pc \in {"answer", "touch"} => worker[w].age <= 2 * Used("behind") + half
    /\ worker[w].pc = "touch" => newest[Primary].age <= worker[w].age

\* A stamp that is not overdue is the stamp of a result.
StampInv ==
  monitor.last < Overdue => \E r \in Regions : newest[r].age <= monitor.last

\* What is on its way may take a minute more than what has come to rest.
WatchInv == Within(Bound + half + IF Pending THEN 1 ELSE -1)

WatchedInv == TypeInv /\ SpentInv /\ HeldInv /\ StampInv /\ WatchInv

\* The reach is a half minute at least and a stamp is overdue only beyond it;
\* a multiplier never exceeds it.
LEMMA ReachIs ==
  ASSUME NEW row \in Row
  PROVE  /\ row.interval * row.cap \in Nat \ {0} /\ row.interval * row.cap <= Overdue
         /\ row.interval * Multiplier(row.failures, row.cap) \in Nat
         /\ row.interval * Multiplier(row.failures, row.cap) <= row.interval * row.cap
<1>1. /\ row.interval \in Intervals /\ row.interval \in Nat \ {0}
      /\ row.cap \in Caps /\ row.cap \in Nat \ {0}
  BY DispatchAssumption DEF Row
<1>2. row.failures \in Nat
  <2>1. FailureCap \in Nat /\ row.failures \in 0 .. FailureCap
    BY DispatchAssumption DEF Row
  <2>2. QED
    BY <2>1
<1>3. \A i \in Nat \ {0}, c \in Nat \ {0} :
        i * c \in Nat \ {0} /\ \A u \in 1 .. c : i * u \in Nat /\ i * u <= i * c
  OBVIOUS
<1>4. Multiplier(row.failures, row.cap) \in 1 .. row.cap
  BY <1>1, <1>2, MultiplierBounds
<1>5. row.interval * row.cap <= Overdue
  BY <1>1, DispatchAssumption
<1>6. QED
  BY <1>1, <1>3, <1>4, <1>5

\* What was used is a number.
LEMMA UsedIs ==
  ASSUME TypeOK, SpentInv, NEW e \in Events
  PROVE  Used(e) \in Nat
<1>1. left[e] \in Nat /\ Budget[e] \in Nat /\ left[e] <= Budget[e]
  BY DispatchAssumption DEF TypeOK, SpentInv
<1>2. QED
  BY <1>1 DEF Used

\* ... of the queue running behind and of workers dying, too.
LEMMA UsesAre ==
  ASSUME TypeOK, SpentInv
  PROVE  Used("behind") \in Nat /\ Used("crash") \in Nat /\ half \in Nat
<1>1. "behind" \in Events /\ "crash" \in Events
  BY DEF Events, Faults
<1>2. half \in Nat
  BY DEF TypeOK
<1>3. QED
  BY <1>1, <1>2, UsedIs

\* What is used stays within its budget, for nothing is ever given back.
LEMMA SpentKept ==
  ASSUME TypeOK, TypeOK', SpentInv, \A e \in Events : left'[e] \in {left[e], left[e] - 1}
  PROVE  SpentInv'
<1>1. \A e \in Events : left[e] \in Nat /\ Budget[e] \in Nat /\ left[e] <= Budget[e]
  BY DispatchAssumption DEF TypeOK, SpentInv
<1>2. \A e \in Events : left'[e] <= Budget[e]
  BY <1>1
<1>3. QED
  BY <1>2 DEF SpentInv

\* What is put into the queue stays in it until it is taken.
LEMMA QueuedIs ==
  ASSUME NEW q \in Seq(Job)
  PROVE  /\ \A j \in Job : Queued(Append(q, j)) <=> Queued(q) \/ j.kind \in Looks
         /\ Queued(q \o <<Dispatching, Evaluating>>)
         /\ q # <<>> => (Queued(q) <=> Head(q).kind \in Looks \/ Queued(Tail(q)))
<1>1. ASSUME NEW j \in Job
      PROVE  Queued(Append(q, j)) <=> Queued(q) \/ j.kind \in Looks
  <2>1. /\ DOMAIN q = 1 .. Len(q) /\ DOMAIN Append(q, j) = 1 .. Len(q) + 1
        /\ \A i \in 1 .. Len(q) : Append(q, j)[i] = q[i]
        /\ Append(q, j)[Len(q) + 1] = j
    OBVIOUS
  <2>2. \A i \in 1 .. Len(q) + 1 : i \in 1 .. Len(q) \/ i = Len(q) + 1
    OBVIOUS
  <2>3. Len(q) + 1 \in 1 .. Len(q) + 1 /\ 1 .. Len(q) \subseteq 1 .. Len(q) + 1
    OBVIOUS
  <2>4. QED
    BY <2>1, <2>2, <2>3, ZenonT(30) DEF Queued
<1>2. Queued(q \o <<Dispatching, Evaluating>>)
  <2> DEFINE d == <<Dispatching, Evaluating>>
  <2>1. /\ d \in Seq(Job) /\ Len(d) = 2 /\ d[1] = Dispatching
    BY JobTypes
  <2> HIDE DEF d
  <2>2. /\ DOMAIN (q \o d) = 1 .. Len(q) + 2
        /\ (q \o d)[Len(q) + 1] = d[1]
    <3>1. /\ Len(q \o d) = Len(q) + Len(d) /\ q \o d \in Seq(Job)
          /\ \A i \in 1 .. Len(q) + Len(d) :
               (q \o d)[i] = IF i <= Len(q) THEN q[i] ELSE d[i - Len(q)]
      BY <2>1, ConcatProperties
    <3>2. Len(q) + 1 \in 1 .. Len(q) + Len(d) /\ ~(Len(q) + 1 <= Len(q)) /\ (Len(q) + 1) - Len(q) = 1
      BY <2>1
    <3>3. QED
      BY <2>1, <3>1, <3>2
  <2>3. /\ Len(q) + 1 \in DOMAIN (q \o d) /\ (q \o d)[Len(q) + 1] = Dispatching
    <3>1. Len(q) \in Nat
      OBVIOUS
    <3>2. QED
      BY <2>1, <2>2, <3>1
  <2>4. Dispatching.kind \in Looks
    BY DEF Dispatching, Looks
  <2>5. QED
    BY <2>3, <2>4 DEF Queued, d
<1>3. ASSUME q # <<>>
      PROVE  Queued(q) <=> Head(q).kind \in Looks \/ Queued(Tail(q))
  <2>1. /\ DOMAIN q = 1 .. Len(q) /\ DOMAIN Tail(q) = 1 .. Len(q) - 1
        /\ Len(q) \in Nat \ {0} /\ Head(q) = q[1]
        /\ \A i \in 1 .. Len(q) - 1 : Tail(q)[i] = q[i + 1]
    BY <1>3
  <2>2. ASSUME Queued(q) PROVE Head(q).kind \in Looks \/ Queued(Tail(q))
    <3>1. PICK i \in 1 .. Len(q) : q[i].kind \in Looks
      BY <2>1, <2>2 DEF Queued
    <3>2. i = 1 \/ (i - 1 \in 1 .. Len(q) - 1 /\ Tail(q)[i - 1] = q[i])
      BY <2>1
    <3>3. QED
      BY <2>1, <3>1, <3>2 DEF Queued
  <2>3. ASSUME Head(q).kind \in Looks PROVE Queued(q)
    BY <2>1, <2>3 DEF Queued
  <2>4. ASSUME Queued(Tail(q)) PROVE Queued(q)
    <3>1. PICK i \in 1 .. Len(q) - 1 : Tail(q)[i].kind \in Looks
      BY <2>1, <2>4 DEF Queued
    <3>2. i + 1 \in 1 .. Len(q) /\ q[i + 1].kind \in Looks
      BY <2>1, <3>1
    <3>3. QED
      BY <2>1, <3>2 DEF Queued
  <2>5. QED
    BY <2>2, <2>3, <2>4
<1>4. QED
  BY <1>1, <1>2, <1>3

\* The bound holds on while no result grows older, the monitor keeps its row,
\* and what is pending stays so or a worker died.
LEMMA WatchKept ==
  ASSUME TypeOK, TypeOK', SpentInv, SpentInv', WatchInv,
         \A r \in Regions : newest'[r].age <= newest[r].age,
         monitor'.enabled = monitor.enabled, monitor'.interval = monitor.interval,
         monitor'.cap = monitor.cap, calm' = calm, half' = half,
         left'["behind"] = left["behind"],
         \/ left'["crash"] = left["crash"] /\ (Pending => Pending')
         \/ left'["crash"] = left["crash"] - 1
  PROVE  WatchInv'
<1> DEFINE n == Bound + half + IF Pending THEN 1 ELSE -1
<1>1. /\ Reach \in Nat \ {0} /\ Reach' = Reach /\ half \in Nat
      /\ Used("behind") \in Nat /\ Used("crash") \in Nat
      /\ Used("behind")' = Used("behind")
      /\ left["crash"] \in Nat /\ Budget["crash"] \in Nat
  <2>1. "behind" \in Events /\ "crash" \in Events /\ monitor \in Row /\ half \in Nat
    BY DEF Events, Faults, TypeOK
  <2>2. Used("behind") \in Nat /\ Used("crash") \in Nat
    BY <2>1, UsedIs
  <2>3. Reach \in Nat \ {0} /\ Reach' = Reach
    BY <2>1, ReachIs DEF Reach
  <2>4. left["crash"] \in Nat /\ Budget["crash"] \in Nat
    BY <2>1, DispatchAssumption DEF TypeOK
  <2>5. Used("behind")' = Used("behind")
    BY DEF Used
  <2>6. QED
    BY <2>1, <2>2, <2>3, <2>4, <2>5
<1>2. n \in Int /\ n' \in Int /\ n <= n'
  <2>1. CASE left'["crash"] = left["crash"] /\ (Pending => Pending')
    BY <1>1, <2>1 DEF Bound, Used
  <2>2. CASE left'["crash"] = left["crash"] - 1
    BY <1>1, <2>2 DEF Bound, Used
  <2>3. QED
    BY <2>1, <2>2
<1>3. Within(n) /\ (WatchInv' <=> Within(n)')
  BY DEF WatchInv
<1>4. /\ calm \in Nat /\ calm' \in Nat
      /\ \A r \in Regions : newest[r].age \in Nat /\ newest'[r].age \in Nat
  BY DispatchAssumption DEF TypeOK, Ages
<1> HIDE DEF n
<1>5. QED
  BY <1>2, <1>3, <1>4 DEF Within

\* The bound holds afresh when the monitor or the target was just changed, and
\* when some result is no older than the reach and the queue allow.
LEMMA WatchAnew ==
  ASSUME TypeOK', SpentInv',
         monitor'.enabled =>
           \/ calm' = 0
           \/ \E r \in Regions :
                newest'[r].age <= Reach' + 2 * Used("behind")' + half' - 1
  PROVE  WatchInv'
<1> DEFINE n == Bound + half + IF Pending THEN 1 ELSE -1
           k == Reach + 2 * Used("behind") + half - 1
<1>1. Reach' \in Nat \ {0} /\ half' \in Nat
  <2>1. monitor' \in Row /\ half' \in Nat
    BY DEF TypeOK
  <2>2. QED
    BY <2>1, ReachIs DEF Reach
<1>2. Used("behind")' \in Nat /\ Used("crash")' \in Nat
  <2>1. ASSUME NEW e \in Events PROVE left'[e] \in Nat /\ Budget[e] \in Nat /\ left'[e] <= Budget[e]
    BY DispatchAssumption DEF TypeOK, SpentInv
  <2>2. QED
    BY <2>1 DEF Used, Events, Faults
<1>3. n' \in Nat /\ k' \in Int /\ k' <= n'
  BY <1>1, <1>2 DEF Bound
<1>4. \A r \in Regions : newest'[r].age \in Nat
  BY DispatchAssumption DEF TypeOK, Ages
<1>5. monitor'.enabled => calm' = 0 \/ \E r \in Regions : newest'[r].age <= k'
  OBVIOUS
<1>6. WatchInv' <=> Within(n)'
  BY DEF WatchInv
<1> HIDE DEF k, n
<1>7. QED
  BY <1>3, <1>4, <1>5, <1>6 DEF Within

\* What the workers hold stays within its bounds when one of them goes on to a
\* state that is within them, and no result grows older.
LEMMA HeldKept ==
  ASSUME TypeOK, TypeOK', HeldInv, NEW w \in Workers,
         half' = half, left'["behind"] = left["behind"],
         \A r \in Regions : newest'[r].age <= newest[r].age,
         \A v \in Workers \ {w} : worker'[v] = worker[v],
         worker'[w].pc \in {"answer", "touch"} => worker'[w].age <= 2 * Used("behind") + half,
         worker'[w].pc = "touch" => newest'[Primary].age <= worker'[w].age
  PROVE  HeldInv'
<1>1. Used("behind")' = Used("behind")
  BY DEF Used
<1>2. ASSUME NEW v \in Workers
      PROVE  /\ worker'[v].pc \in {"answer", "touch"} =>
                  worker'[v].age <= 2 * Used("behind") + half
             /\ worker'[v].pc = "touch" => newest'[Primary].age <= worker'[v].age
  <2>1. CASE v = w
    BY <2>1
  <2>2. CASE v # w
    <3>1. worker'[v] = worker[v]
      BY <2>2
    <3>2. /\ newest'[Primary].age <= newest[Primary].age
          /\ newest'[Primary].age \in Nat /\ newest[Primary].age \in Nat
      BY DispatchAssumption DEF Regions, TypeOK, Ages
    <3>3. /\ worker[v].pc \in {"answer", "touch"} => worker[v].age <= 2 * Used("behind") + half
          /\ worker[v].pc = "touch" => newest[Primary].age <= worker[v].age
      BY DEF HeldInv
    <3>4. worker[v].age \in Nat
      BY DispatchAssumption DEF TypeOK, Ages, WorkerState
    <3>5. QED
      BY <3>1, <3>2, <3>3, <3>4
  <2>3. QED
    BY <2>1, <2>2
<1>3. QED
  BY <1>1, <1>2 DEF HeldInv

\* A stamp that is not moved is the stamp of a result still.
LEMMA StampKept ==
  ASSUME TypeOK, TypeOK', StampInv, monitor'.last = monitor.last,
         \A r \in Regions : newest'[r].age <= newest[r].age
  PROVE  StampInv'
<1>1. /\ \A r \in Regions : newest[r].age \in Nat /\ newest'[r].age \in Nat
      /\ monitor.last \in Nat
  <2>1. Overdue \in Nat /\ monitor.last \in 0 .. Overdue /\ Old \in Nat
    BY DispatchAssumption DEF TypeOK, Row
  <2>2. QED
    BY <2>1 DEF TypeOK, Ages
<1>2. QED
  BY <1>1 DEF StampInv

\* What the work of a worker may change.
LEMMA WorkIs ==
  ASSUME TypeInv, NEW w \in Workers, Work(w)
  PROVE  /\ left' = left /\ half' = half /\ calm' = calm
         /\ \A v \in Workers \ {w} : worker'[v] = worker[v]
         /\ monitor'.enabled = monitor.enabled /\ monitor'.interval = monitor.interval
         /\ monitor'.cap = monitor.cap
         /\ \A r \in Regions : newest'[r].age <= newest[r].age
         /\ ~TouchMonitor(w) => monitor'.last = monitor.last
         /\ ~FileAnswer(w) => newest' = newest
<1>1. left' = left /\ half' = half /\ calm' = calm
  BY DEF Work, StartDispatch, EnqueueCheck, StartCheck, FileAnswer, TouchMonitor,
         StartEvaluate, WriteVerdict, world
<1>2. PICK st : worker' = [worker EXCEPT ![w] = st]
  BY DEF Work, StartDispatch, EnqueueCheck, StartCheck, FileAnswer, TouchMonitor,
         StartEvaluate, WriteVerdict, Go, Done
<1>3. \A v \in Workers \ {w} : worker'[v] = worker[v]
  BY <1>2 DEF TypeInv, TypeOK
<1>4. /\ monitor'.enabled = monitor.enabled /\ monitor'.interval = monitor.interval
      /\ monitor'.cap = monitor.cap
      /\ ~TouchMonitor(w) => monitor'.last = monitor.last
  <2>1. CASE TouchMonitor(w)
    BY <2>1 DEF TouchMonitor, TypeInv, TypeOK, Row
  <2>2. CASE WriteVerdict(w)
    BY <2>2 DEF WriteVerdict, TypeInv, TypeOK, Row
  <2>3. CASE ~TouchMonitor(w) /\ ~WriteVerdict(w)
    BY <2>3 DEF Work, StartDispatch, EnqueueCheck, StartCheck, FileAnswer, StartEvaluate, rows
  <2>4. QED
    BY <2>1, <2>2, <2>3
<1>5. ~FileAnswer(w) => newest' = newest
  BY DEF Work, StartDispatch, EnqueueCheck, StartCheck, TouchMonitor,
         StartEvaluate, WriteVerdict, rows
<1>6. \A r \in Regions : newest[r].age \in Nat
  BY DispatchAssumption DEF TypeInv, TypeOK, Ages
<1>7. FileAnswer(w) => \A r \in Regions : newest'[r].age <= newest[r].age
  <2>1. ASSUME FileAnswer(w) PROVE \A r \in Regions : newest'[r].age <= newest[r].age
    <3>1. PICK age \in {0, worker[w].age} : newest' = Recorded(Primary, age, target[Primary])
      BY <2>1 DEF FileAnswer
    <3>2. age \in Ages /\ Primary \in Regions /\ target[Primary] \in Cast
      BY DispatchAssumption DEF TypeInv, TypeOK, WorkerState, Regions, Ages
    <3>3. QED
      BY <3>1, <3>2, RecordedIs DEF TypeInv, TypeOK
  <2>2. QED
    BY <2>1
<1>8. \A r \in Regions : newest'[r].age <= newest[r].age
  BY <1>5, <1>6, <1>7
<1>9. QED
  BY <1>1, <1>3, <1>4, <1>5, <1>8

\* While a worker works, only a dispatch that finds the monitor not due and an
\* answer that is filed may leave nothing pending.
LEMMA WorkPending ==
  ASSUME TypeInv, NEW w \in Workers, Work(w), ~StartDispatch(w), ~FileAnswer(w), Pending
  PROVE  Pending'
<1>1. queue \in Seq(Job) /\ \A v \in Workers \ {w} : worker'[v] = worker[v]
  BY WorkIs DEF TypeInv, TypeOK
<1>2. CASE EnqueueCheck(w)
  <2>1. queue' = Append(queue, Checking) /\ Checking.kind \in Looks
    BY <1>2 DEF EnqueueCheck, Checking, Looks
  <2>2. QED
    BY <1>1, <2>1, JobTypes, QueuedIs DEF Pending
<1>3. CASE StartCheck(w)
  <2> DEFINE st == [Idle EXCEPT !.pc = "answer", !.tries = Head(queue).tries]
  <2>1. worker' = [worker EXCEPT ![w] = st] /\ worker \in [Workers -> WorkerState]
    BY <1>3 DEF StartCheck, Go, TypeInv, TypeOK
  <2>2. st.pc = "answer"
    BY DEF Idle
  <2> HIDE DEF st
  <2>3. worker'[w].pc = "answer"
    BY <2>1, <2>2
  <2>4. QED
    BY <2>3 DEF Pending
<1>4. CASE StartEvaluate(w)
  <2>1. /\ queue # <<>> /\ Head(queue).kind = "evaluate" /\ queue' = Tail(queue)
        /\ worker[w].pc = "idle"
    BY <1>4 DEF StartEvaluate, Take
  <2>2. Queued(queue) => Queued(queue')
    BY <1>1, <2>1, QueuedIs DEF Looks
  <2>3. QED
    BY <1>1, <2>1, <2>2 DEF Pending
<1>5. CASE TouchMonitor(w) \/ WriteVerdict(w)
  <2>1. queue' = queue /\ worker[w].pc \notin {"enqueue", "answer"}
    BY <1>5 DEF TouchMonitor, WriteVerdict
  <2>2. QED
    BY <1>1, <2>1 DEF Pending
<1>6. QED
  BY <1>2, <1>3, <1>4, <1>5 DEF Work

\* An answer that is filed is as old as the queue ran behind, at most.
LEMMA FileIs ==
  ASSUME TypeInv, SpentInv, HeldInv, NEW w \in Workers, FileAnswer(w)
  PROVE  /\ worker'[w].pc = "touch" /\ newest'[Primary].age <= worker'[w].age
         /\ worker'[w].age \in Nat /\ worker'[w].age <= 2 * Used("behind") + half
         /\ Used("behind") \in Nat
<1>1. PICK age \in {0, worker[w].age} :
        /\ newest' = Recorded(Primary, age, target[Primary])
        /\ worker' = [worker EXCEPT ![w] = [worker[w] EXCEPT !.pc = "touch", !.age = age]]
  BY DEF FileAnswer, Go
<1>2. /\ age \in Ages /\ Primary \in Regions /\ target[Primary] \in Cast
      /\ worker[w] \in WorkerState /\ worker \in [Workers -> WorkerState]
      /\ half \in Nat
  BY DispatchAssumption DEF TypeInv, TypeOK, WorkerState, Regions, Ages
<1>3. newest'[Primary].age <= age
  BY <1>1, <1>2, RecordedIs DEF TypeInv, TypeOK
<1>4. Used("behind") \in Nat
  BY UsedIs DEF TypeInv, Events, Faults
<1>5. worker[w].age <= 2 * Used("behind") + half
  BY DEF FileAnswer, HeldInv
<1>6. age \in Nat /\ age <= 2 * Used("behind") + half
  BY <1>2, <1>4, <1>5, DispatchAssumption DEF Ages
<1>7. worker'[w].pc = "touch" /\ worker'[w].age = age
  BY <1>1, <1>2 DEF WorkerState
<1>8. QED
  BY <1>3, <1>4, <1>6, <1>7

\* The work of a worker keeps what is held and the stamps.
LEMMA WorkHeld ==
  ASSUME WatchedInv, TypeInv', NEW w \in Workers, Work(w)
  PROVE  SpentInv' /\ HeldInv' /\ StampInv'
<1>1. TypeOK /\ TypeOK' /\ TypeInv /\ SpentInv /\ HeldInv /\ StampInv
  BY DEF WatchedInv, TypeInv
<1>2. SpentInv'
  BY <1>1, WorkIs DEF SpentInv
<1>3. /\ worker'[w].pc \in {"answer", "touch"} => worker'[w].age <= 2 * Used("behind") + half
      /\ worker'[w].pc = "touch" => newest'[Primary].age <= worker'[w].age
  <2>1. CASE FileAnswer(w)
    BY <1>1, <2>1, FileIs
  <2>2. CASE StartCheck(w)
    <3> DEFINE st == [Idle EXCEPT !.pc = "answer", !.tries = Head(queue).tries]
    <3>1. worker' = [worker EXCEPT ![w] = st] /\ worker \in [Workers -> WorkerState]
      BY <1>1, <2>2 DEF StartCheck, Go, TypeOK
    <3>2. st.pc = "answer" /\ st.age = 0
      BY DEF Idle
    <3> HIDE DEF st
    <3>3. worker'[w].pc = "answer" /\ worker'[w].age = 0
      BY <3>1, <3>2
    <3>4. Used("behind") \in Nat /\ half \in Nat
      BY <1>1, UsesAre
    <3>5. QED
      BY <3>3, <3>4
  <2>3. CASE StartDispatch(w)
    <3> DEFINE st == IF monitor.enabled /\ Due THEN [Idle EXCEPT !.pc = "enqueue"] ELSE Idle
    <3>1. worker' = [worker EXCEPT ![w] = st]
      BY <2>3 DEF StartDispatch, Go
    <3>2. st.pc \in {"idle", "enqueue"}
      BY DEF Idle
    <3> HIDE DEF st
    <3>3. worker'[w].pc \in {"idle", "enqueue"}
      BY <1>1, <3>1, <3>2 DEF TypeOK
    <3>4. QED
      BY <3>3
  <2>4. CASE StartEvaluate(w)
    <3> DEFINE next == ConsensusStatus(Votes, MinRegions)
               st == IF monitor.enabled /\ Fresh # {}
                     THEN [Idle EXCEPT !.pc = "write", !.prev = monitor.status,
                                       !.failures = monitor.failures, !.next = next]
                     ELSE Idle
    <3>1. worker' = [worker EXCEPT ![w] = st]
      BY <2>4 DEF StartEvaluate, Go
    <3> HIDE DEF next
    <3>2. st.pc \in {"idle", "write"}
      BY DEF Idle
    <3> HIDE DEF st
    <3>3. worker'[w].pc \in {"idle", "write"}
      BY <1>1, <3>1, <3>2 DEF TypeOK
    <3>4. QED
      BY <3>3
  <2>5. CASE EnqueueCheck(w) \/ TouchMonitor(w) \/ WriteVerdict(w)
    <3>1. worker' = [worker EXCEPT ![w] = Idle]
      BY <2>5 DEF EnqueueCheck, TouchMonitor, WriteVerdict, Done, Go
    <3>2. worker'[w].pc = "idle"
      BY <1>1, <3>1, IdleType DEF TypeOK
    <3>3. QED
      BY <3>2
  <2>6. QED
    BY <2>1, <2>2, <2>3, <2>4, <2>5 DEF Work
<1>4. HeldInv'
  BY <1>1, <1>3, WorkIs, HeldKept
<1>5. StampInv'
  <2>1. CASE TouchMonitor(w)
    <3>1. worker[w].age \in Ages /\ newest[Primary].age <= worker[w].age
      BY <1>1, <2>1 DEF TouchMonitor, HeldInv, TypeOK, WorkerState
    <3>2. monitor'.last = Upto(worker[w].age) /\ newest' = newest
      BY <1>1, <2>1 DEF TouchMonitor, Stamp, TypeOK, Row
    <3>3. Primary \in Regions
      BY DEF Regions
    <3>4. QED
      BY <3>1, <3>2, <3>3, UptoIs DEF StampInv
  <2>2. CASE ~TouchMonitor(w)
    BY <1>1, <2>2, WorkIs, StampKept
  <2>3. QED
    BY <2>1, <2>2
<1>6. QED
  BY <1>2, <1>4, <1>5

\* It keeps the bound: a dispatch that queues nothing read a stamp within the
\* reach, and an answer that is filed is fresh.
LEMMA WorkWatched ==
  ASSUME WatchedInv, TypeInv', NEW w \in Workers, Work(w)
  PROVE  WatchedInv'
<1>1. TypeOK /\ TypeOK' /\ TypeInv /\ SpentInv /\ HeldInv /\ StampInv /\ WatchInv
  BY DEF WatchedInv, TypeInv
<1>2. SpentInv' /\ HeldInv' /\ StampInv'
  BY WorkHeld
<1>3. Reach' = Reach /\ Used("behind")' = Used("behind") /\ half' = half
  BY <1>1, WorkIs DEF Reach, Used
<1>4. Reach \in Nat \ {0} /\ Reach <= Overdue
  BY <1>1, ReachIs DEF Reach, TypeOK
<1>5. Used("behind") \in Nat /\ half \in Nat
  BY <1>1, UsesAre
<1>6. WatchInv'
  <2>1. CASE FileAnswer(w)
    <3>1. newest'[Primary].age <= Reach' + 2 * Used("behind")' + half' - 1
      <4>1. /\ newest'[Primary].age <= worker'[w].age /\ worker'[w].age \in Nat
            /\ worker'[w].age <= 2 * Used("behind") + half
        BY <1>1, <2>1, FileIs
      <4>2. newest'[Primary].age \in Nat
        BY <1>1, DispatchAssumption DEF TypeOK, Regions, Ages
      <4>3. QED
        BY <1>3, <1>4, <1>5, <4>1, <4>2
    <3>2. Primary \in Regions
      BY DEF Regions
    <3>3. QED
      BY <1>1, <1>2, <3>1, <3>2, WatchAnew
  <2>2. CASE StartDispatch(w) /\ monitor.enabled /\ ~Due
    <3> DEFINE span == monitor.interval * Multiplier(monitor.failures, monitor.cap)
    <3>1. span \in Nat /\ span <= Reach
      BY <1>1, ReachIs DEF Reach, TypeOK
    <3>2. monitor.last < span
      <4>1. monitor.last \in Nat
        <5>1. monitor.last \in 0 .. Overdue /\ Overdue \in Nat
          BY <1>1, DispatchAssumption DEF TypeOK, Row
        <5>2. QED
          BY <5>1
      <4>2. ~(monitor.last >= span)
        BY <2>2 DEF Due
      <4> HIDE DEF span
      <4>3. QED
        BY <3>1, <4>1, <4>2
    <3> HIDE DEF span
    <3>3. monitor.last \in Nat /\ Overdue \in Nat /\ monitor.last < Overdue /\ monitor.last <= Reach - 1
      <4>1. monitor.last \in 0 .. Overdue /\ Overdue \in Nat
        BY <1>1, DispatchAssumption DEF TypeOK, Row
      <4>2. QED
        BY <1>4, <3>1, <3>2, <4>1
    <3>4. PICK r \in Regions : newest[r].age <= monitor.last
      BY <1>1, <3>3 DEF StampInv
    <3>5. newest'[r].age <= newest[r].age
      BY <1>1, WorkIs
    <3>6. newest'[r].age \in Nat /\ newest[r].age \in Nat
      BY <1>1, DispatchAssumption DEF TypeOK, Ages
    <3>7. newest'[r].age <= Reach' + 2 * Used("behind")' + half' - 1
      BY <1>3, <1>4, <1>5, <3>3, <3>4, <3>5, <3>6
    <3>8. QED
      BY <1>1, <1>2, <3>7, WatchAnew
  <2>3. CASE StartDispatch(w) /\ ~monitor.enabled
    BY <1>1, <1>2, <2>3, WorkIs, WatchAnew
  <2>4. CASE /\ Pending => Pending'
             /\ ~FileAnswer(w)
    BY <1>1, <1>2, <2>4, WorkIs, WatchKept
  <2>5. CASE StartDispatch(w) /\ monitor.enabled /\ Due
    <3> DEFINE st == [Idle EXCEPT !.pc = "enqueue"]
    <3>1. worker' = [worker EXCEPT ![w] = st] /\ worker \in [Workers -> WorkerState]
      BY <1>1, <2>5 DEF StartDispatch, Go, TypeOK
    <3>2. st.pc = "enqueue"
      BY DEF Idle
    <3> HIDE DEF st
    <3>3. Pending'
      BY <3>1, <3>2 DEF Pending
    <3>4. ~FileAnswer(w)
      BY <2>5 DEF StartDispatch, Take, FileAnswer
    <3>5. QED
      BY <2>4, <3>3, <3>4
  <2>6. QED
    BY <1>1, <2>1, <2>2, <2>3, <2>4, <2>5, WorkPending
<1>7. QED
  BY <1>2, <1>6 DEF WatchedInv

\* So does a worker that dies: what was pending may be lost, and is paid for.
LEMMA CrashWatched ==
  ASSUME WatchedInv, TypeInv', NEW w \in Workers, CrashWorker(w)
  PROVE  WatchedInv'
<1>1. TypeOK /\ TypeOK' /\ TypeInv /\ SpentInv /\ HeldInv /\ StampInv /\ WatchInv
  BY DEF WatchedInv, TypeInv
<1>2. /\ half' = half /\ calm' = calm /\ newest' = newest /\ monitor' = monitor
      /\ worker' = [worker EXCEPT ![w] = Idle]
  BY DEF CrashWorker, Done, Go, rows, world
<1>3. \A e \in Events : left'[e] = IF e = "crash" THEN left[e] - 1 ELSE left[e]
  BY <1>1, CrashType
<1>4. "crash" \in Events /\ "behind" \in Events
  BY DEF Events, Faults
<1>5. \A r \in Regions : newest'[r].age \in Nat /\ newest'[r].age <= newest[r].age
  BY <1>1, <1>2, DispatchAssumption DEF TypeOK, Ages
<1>6. SpentInv'
  BY <1>1, <1>3, SpentKept
<1>7. HeldInv'
  <2>1. worker'[w].pc = "idle" /\ \A v \in Workers \ {w} : worker'[v] = worker[v]
    BY <1>1, <1>2, IdleType DEF TypeOK
  <2>2. QED
    BY <1>1, <1>2, <1>3, <1>4, <1>5, <2>1, HeldKept
<1>8. StampInv'
  BY <1>1, <1>2 DEF StampInv
<1>9. WatchInv'
  BY <1>1, <1>2, <1>3, <1>4, <1>5, <1>6, WatchKept
<1>10. QED
  BY <1>6, <1>7, <1>8, <1>9 DEF WatchedInv

\* What a remote region does moves the stamp to a result of its own.
LEMMA ProbeWatched ==
  ASSUME WatchedInv, TypeInv',
         NEW r \in Remotes, ProbeTarget(r) \/ ProbeSlowly(r) \/ IngestLate(r)
  PROVE  WatchedInv'
<1>1. /\ TypeOK /\ TypeOK' /\ TypeInv /\ SpentInv /\ HeldInv /\ StampInv /\ WatchInv
      /\ r \in Regions /\ target[r] \in Cast
  BY DEF WatchedInv, TypeInv, TypeOK, Regions
<1>2. /\ half' = half /\ calm' = calm /\ worker' = worker /\ queue' = queue
      /\ monitor'.enabled = monitor.enabled /\ monitor'.interval = monitor.interval
      /\ monitor'.cap = monitor.cap
  <2>1. half' = half /\ calm' = calm /\ worker' = worker /\ queue' = queue
    BY DEF ProbeTarget, ProbeSlowly, IngestLate, world
  <2>2. /\ monitor'.enabled = monitor.enabled /\ monitor'.interval = monitor.interval
        /\ monitor'.cap = monitor.cap
    BY <1>1 DEF ProbeTarget, ProbeSlowly, IngestLate, rows, TypeOK, Row
  <2>3. QED
    BY <2>1, <2>2
<1>3. /\ \A q \in Regions : newest'[q].age <= newest[q].age
      /\ monitor'.last = monitor.last
         \/ newest'[r].age <= monitor'.last \/ monitor'.last >= Overdue
  <2>1. \A q \in Regions : newest[q].age \in Nat
    BY <1>1, DispatchAssumption DEF TypeOK, Ages
  <2>2. CASE ProbeSlowly(r)
    BY <2>1, <2>2 DEF ProbeSlowly, rows
  <2>3. CASE ProbeTarget(r)
    <3>1. newest' = Recorded(r, 0, target[r]) /\ monitor'.last = 0 /\ 0 \in Ages
      BY <1>1, <2>3, DispatchAssumption DEF ProbeTarget, TypeOK, Row, Ages
    <3>2. QED
      BY <1>1, <3>1, RecordedIs DEF TypeOK
  <2>4. CASE IngestLate(r)
    <3>1. /\ newest' = Recorded(r, carried[r].age, carried[r].status)
          /\ monitor'.last = Upto(carried[r].age)
          /\ carried[r].age \in Ages /\ carried[r].status \in Cast
      BY <1>1, <2>4 DEF IngestLate, TypeInv, TypeOK, Row
    <3>2. /\ \A q \in Regions : newest'[q].age <= newest[q].age
          /\ newest'[r].age <= carried[r].age
      BY <1>1, <3>1, RecordedIs DEF TypeOK
    <3>3. Upto(carried[r].age) = carried[r].age \/ Upto(carried[r].age) >= Overdue
      BY <3>1, UptoIs, DispatchAssumption
    <3>4. QED
      BY <3>1, <3>2, <3>3
  <2>5. QED
    BY <2>2, <2>3, <2>4
<1>4. \A e \in Events : left'[e] = IF e = "late" /\ ProbeSlowly(r) THEN left[e] - 1 ELSE left[e]
  BY <1>1, ProbeType
<1>5. SpentInv'
  BY <1>1, <1>4, SpentKept
<1>6. left'["behind"] = left["behind"] /\ left'["crash"] = left["crash"]
  BY <1>4 DEF Events, Faults
<1>7. HeldInv'
  <2>1. Used("behind")' = Used("behind")
    BY <1>6 DEF Used
  <2>2. /\ newest'[Primary].age <= newest[Primary].age
        /\ newest'[Primary].age \in Nat /\ newest[Primary].age \in Nat
    BY <1>1, <1>3, DispatchAssumption DEF TypeOK, Regions, Ages
  <2>3. \A v \in Workers : worker[v].age \in Nat
    BY <1>1, DispatchAssumption DEF TypeOK, WorkerState, Ages
  <2>4. QED
    BY <1>1, <1>2, <2>1, <2>2, <2>3 DEF HeldInv
<1>8. StampInv'
  <2>1. CASE monitor'.last = monitor.last
    BY <1>1, <1>3, <2>1, StampKept
  <2>2. CASE newest'[r].age <= monitor'.last
    BY <1>1, <2>2 DEF StampInv
  <2>3. CASE monitor'.last >= Overdue
    <3>1. monitor'.last \in 0 .. Overdue /\ Overdue \in Nat
      BY <1>1, DispatchAssumption DEF TypeOK, Row
    <3>2. QED
      BY <2>3, <3>1 DEF StampInv
  <2>4. QED
    BY <1>3, <2>1, <2>2, <2>3
<1>9. WatchInv'
  <2>1. Pending' <=> Pending
    BY <1>2 DEF Pending
  <2>2. QED
    BY <1>1, <1>2, <1>3, <1>5, <1>6, <2>1, WatchKept
<1>10. QED
  BY <1>5, <1>7, <1>8, <1>9 DEF WatchedInv

\* So does what people do: who edits the monitor, or changes the target, starts
\* the clock anew.
LEMMA PeopleWatched ==
  ASSUME WatchedInv, TypeInv',
         \/ RunCheckNow
         \/ \E enabled \in BOOLEAN, interval \in Intervals : EditMonitor(enabled, interval)
         \/ \E seers \in (SUBSET Regions) \ {{}}, status \in Sights : TargetChanges(seers, status)
  PROVE  WatchedInv'
<1>1. TypeOK /\ TypeOK' /\ TypeInv /\ SpentInv /\ HeldInv /\ StampInv /\ WatchInv
  BY DEF WatchedInv, TypeInv
<1>2. /\ half' = half /\ newest' = newest /\ worker' = worker
      /\ monitor'.last = monitor.last
  <2>1. half' = half /\ newest' = newest /\ worker' = worker
    BY DEF RunCheckNow, EditMonitor, TargetChanges, rows, world
  <2>2. monitor'.last = monitor.last
    BY <1>1 DEF RunCheckNow, EditMonitor, TargetChanges, rows, TypeOK, Row
  <2>3. QED
    BY <2>1, <2>2
<1>3. /\ \A e \in Events : left'[e] \in {left[e], left[e] - 1}
      /\ left'["behind"] = left["behind"] /\ left'["crash"] = left["crash"]
  BY <1>1, PeopleType
<1>4. SpentInv'
  BY <1>1, <1>3, SpentKept
<1>5. HeldInv'
  BY <1>1, <1>2, <1>3 DEF HeldInv, Used
<1>6. StampInv'
  BY <1>1, <1>2 DEF StampInv
<1>7. WatchInv'
  <2>1. CASE RunCheckNow
    <3>1. queue' = Append(queue, Checking) /\ monitor' = monitor /\ calm' = calm
      BY <2>1 DEF RunCheckNow, rows, world
    <3>2. Pending'
      <4>1. Checking \in Job /\ Checking.kind \in Looks /\ queue \in Seq(Job)
        BY <1>1, JobTypes DEF Checking, Looks, TypeOK
      <4>2. QED
        BY <3>1, <4>1, QueuedIs DEF Pending
    <3>3. \A r \in Regions : newest'[r].age <= newest[r].age
      BY <1>1, <1>2, DispatchAssumption DEF TypeOK, Ages
    <3>4. QED
      BY <1>1, <1>2, <1>3, <1>4, <3>1, <3>2, <3>3, WatchKept
  <2>2. CASE ~RunCheckNow
    <3>1. calm' = 0
      BY <2>2 DEF EditMonitor, TargetChanges
    <3>2. QED
      BY <1>1, <1>4, <3>1, WatchAnew
  <2>3. QED
    BY <2>1, <2>2
<1>8. QED
  BY <1>4, <1>5, <1>6, <1>7 DEF WatchedInv

\* And time: half a minute adds one to every age, and a minute that finds jobs
\* undone is paid for.
LEMMA TimeWatched ==
  ASSUME WatchedInv, TypeInv', HalfMinute \/ Tick
  PROVE  WatchedInv'
<1>1. TypeOK /\ TypeOK' /\ TypeInv /\ SpentInv /\ HeldInv /\ StampInv /\ WatchInv
  BY DEF WatchedInv, TypeInv
<1>2. Ageing
  BY DEF HalfMinute, Tick
<1>3. /\ monitor'.enabled = monitor.enabled /\ monitor'.interval = monitor.interval
      /\ monitor'.cap = monitor.cap
      /\ monitor'.last < Overdue => monitor'.last = monitor.last + 1
      /\ calm' <= calm + 1
      /\ \A r \in Regions : newest'[r].age = Older(newest[r].age, Old)
                            /\ newest'[r].age <= newest[r].age + 1
      /\ \A w \in Workers :
           /\ worker'[w].pc = worker[w].pc
           /\ worker[w].pc \in {"answer", "touch"} => worker'[w].age = Older(worker[w].age, Old)
  BY <1>1, <1>2, AgeingIs DEF TypeOK, Row
<1>4. /\ Old \in Nat /\ Overdue \in Nat /\ calm \in Nat /\ calm' \in Nat
      /\ monitor.last \in Nat /\ monitor'.last \in 0 .. Overdue
      /\ \A r \in Regions : newest[r].age \in 0 .. Old /\ newest'[r].age \in 0 .. Old
      /\ \A w \in Workers : worker[w].age \in 0 .. Old
      /\ Reach' = Reach /\ Reach \in Nat \ {0}
  <2>1. Old \in Nat /\ Overdue \in Nat /\ Settled \in Nat
    BY DispatchAssumption
  <2>2. /\ monitor.last \in 0 .. Overdue /\ monitor'.last \in 0 .. Overdue
        /\ calm \in 0 .. Settled /\ calm' \in 0 .. Settled
    BY <1>1 DEF TypeOK, Row
  <2>3. Reach' = Reach /\ Reach \in Nat \ {0}
    BY <1>1, <1>3, ReachIs DEF Reach, TypeOK
  <2>4. QED
    BY <1>1, <2>1, <2>2, <2>3 DEF TypeOK, WorkerState, Ages
<1>5. /\ \A e \in Events : left'[e] \in {left[e], left[e] - 1}
      /\ Used("crash")' = Used("crash")
      /\ Used("behind") \in Nat /\ Used("crash") \in Nat
      /\ \/ half = 0 /\ half' = 1 /\ Used("behind")' = Used("behind") /\ queue' = queue
         \/ half = 1 /\ half' = 0 /\ Busy /\ Used("behind")' = Used("behind") + 1
         \/ half = 1 /\ half' = 0 /\ ~Busy /\ Used("behind")' = Used("behind")
  <2>1. "behind" \in Events /\ "crash" \in Events
    BY DEF Events, Faults
  <2>2. /\ Used("behind") \in Nat /\ Used("crash") \in Nat
        /\ Budget["behind"] \in Nat /\ left["behind"] \in Nat
    BY <1>1, <2>1, UsedIs, DispatchAssumption DEF TypeOK
  <2>3. CASE HalfMinute
    <3>1. left' = left /\ half = 0 /\ half' = 1 /\ queue' = queue
      BY <2>3 DEF HalfMinute
    <3>2. QED
      BY <2>2, <3>1 DEF Used
  <2>4. CASE Tick
    <3>1. half = 1 /\ half' = 0
      BY <2>4 DEF Tick
    <3>2. \A e \in Events : left'[e] = IF Busy /\ e = "behind" THEN left[e] - 1 ELSE left[e]
      BY <1>1, <2>4, TimeType
    <3>3. /\ left'["crash"] = left["crash"]
          /\ left'["behind"] = IF Busy THEN left["behind"] - 1 ELSE left["behind"]
          /\ \A e \in Events : left'[e] \in {left[e], left[e] - 1}
      BY <2>1, <3>2
    <3>4. QED
      BY <2>2, <3>1, <3>3 DEF Used
  <2>5. QED
    BY <2>3, <2>4
<1>6. SpentInv'
  BY <1>1, <1>5, SpentKept
<1>7. HeldInv'
  <2>1. /\ \A age \in 0 .. Old : Older(age, Old) \in Nat /\ Older(age, Old) <= age + 1
        /\ \A a, b \in 0 .. Old : a <= b => Older(a, Old) <= Older(b, Old)
    BY <1>4 DEF Older
  <2>2. ASSUME NEW w \in Workers, worker[w].pc \in {"answer", "touch"}
        PROVE  worker'[w].age <= 2 * Used("behind")' + half'
    <3>1. Busy
      BY <2>2 DEF Busy
    <3>2. 2 * Used("behind")' + half' = 2 * Used("behind") + half + 1
      BY <1>5, <3>1
    <3>3. /\ worker[w].age <= 2 * Used("behind") + half /\ worker[w].age \in 0 .. Old
          /\ worker'[w].age = Older(worker[w].age, Old)
      BY <1>1, <1>3, <1>4, <2>2 DEF HeldInv
    <3>4. worker'[w].age \in Nat /\ worker'[w].age <= worker[w].age + 1
      BY <2>1, <3>3
    <3>5. half \in Nat
      BY <1>5
    <3>6. QED
      BY <1>5, <3>2, <3>3, <3>4, <3>5
  <2>3. ASSUME NEW w \in Workers, worker[w].pc = "touch"
        PROVE  newest'[Primary].age <= worker'[w].age
    BY <1>1, <1>3, <1>4, <2>1, <2>3 DEF HeldInv, Regions
  <2>4. QED
    BY <1>3, <2>2, <2>3 DEF HeldInv
<1>8. StampInv'
  <2>1. SUFFICES ASSUME monitor'.last < Overdue
                 PROVE  \E r \in Regions : newest'[r].age <= monitor'.last
    BY DEF StampInv
  <2>2. monitor'.last = monitor.last + 1 /\ monitor.last < Overdue
    BY <1>3, <1>4, <2>1
  <2>3. PICK r \in Regions : newest[r].age <= monitor.last
    BY <1>1, <2>2 DEF StampInv
  <2>4. newest'[r].age <= monitor'.last
    BY <1>3, <1>4, <2>2, <2>3
  <2>5. QED
    BY <2>4
<1>9. WatchInv'
  <2> DEFINE n == Bound + half + IF Pending THEN 1 ELSE -1
  <2>1. n \in Nat /\ n' \in Nat /\ n + 1 <= n'
    <3>1. CASE half = 0
      <4>1. Pending => Pending'
        BY <1>3, <1>5, <3>1 DEF Pending
      <4>2. QED
        BY <1>4, <1>5, <3>1, <4>1 DEF Bound
    <3>2. CASE half = 1
      <4>1. Pending'
        <5>1. queue' = queue \o <<Dispatching, Evaluating>> /\ queue \in Seq(Job)
          BY <1>1, <3>2 DEF HalfMinute, Tick, TypeOK
        <5>2. QED
          BY <5>1, QueuedIs DEF Pending
      <4>2. ~Busy => ~Pending
        BY DEF Busy, Pending, Queued
      <4>3. QED
        BY <1>4, <1>5, <3>2, <4>1, <4>2 DEF Bound
    <3>3. QED
      BY <1>5, <3>1, <3>2
  <2>2. Within(n) /\ (WatchInv' <=> Within(n)')
    BY <1>1 DEF WatchInv
  <2>3. \A r \in Regions : newest[r].age \in Nat /\ newest'[r].age \in Nat
    BY <1>4
  <2> HIDE DEF n
  <2>4. QED
    BY <1>3, <1>4, <2>1, <2>2, <2>3 DEF Within
<1>10. QED
  BY <1>6, <1>7, <1>8, <1>9 DEF WatchedInv

\* A monitor at rest is not due to have been looked at.
LEMMA InitWatched ==
  ASSUME Init
  PROVE  WatchedInv
<1>1. TypeInv /\ TypeOK
  BY InitType DEF TypeInv
<1>2. SpentInv
  BY DispatchAssumption DEF Init, SpentInv
<1>3. HeldInv
  BY IdleType DEF Init, HeldInv
<1>4. StampInv
  BY <1>1, DispatchAssumption DEF Init, StampInv
<1>5. WatchInv
  <2>1. calm = 0 /\ half = 1
    BY DEF Init
  <2>2. Bound + half + (IF Pending THEN 1 ELSE -1) \in Nat
    <3>1. Reach \in Nat /\ Used("behind") \in Nat /\ Used("crash") \in Nat
      BY <1>1, <1>2, ReachIs, UsedIs DEF Reach, TypeOK, Events, Faults
    <3>2. QED
      BY <2>1, <3>1 DEF Bound
  <2>3. QED
    BY <2>1, <2>2 DEF WatchInv, Within
<1>6. QED
  BY <1>1, <1>2, <1>3, <1>4, <1>5 DEF WatchedInv

\* A step that changes nothing changes none of it.
LEMMA StutterWatched ==
  ASSUME WatchedInv, UNCHANGED vars
  PROVE  WatchedInv'
BY DEF WatchedInv, TypeInv, TypeOK, SpentInv, HeldInv, StampInv, WatchInv, Within, Bound,
       Reach, Used, Pending, vars

\* The bound is WatchedInTime's: the minute the queue may add is its grace.
LEMMA WatchedIsInTime ==
  ASSUME WatchedInv
  PROVE  WatchedInTime
<1>1. /\ Reach \in Nat /\ Used("behind") \in Nat /\ Used("crash") \in Nat /\ half \in 0 .. 1
      /\ calm \in Nat /\ \A r \in Regions : newest[r].age \in Nat
  <2>1. TypeOK /\ SpentInv /\ Settled \in Nat /\ Old \in Nat
    BY DispatchAssumption DEF WatchedInv, TypeInv
  <2>2. calm \in 0 .. Settled /\ \A r \in Regions : newest[r].age \in 0 .. Old
    BY <2>1 DEF TypeOK, Ages
  <2>3. Reach \in Nat /\ Used("behind") \in Nat /\ Used("crash") \in Nat /\ half \in 0 .. 1
    BY <2>1, ReachIs, UsedIs DEF Reach, TypeOK, Events, Faults
  <2>4. QED
    BY <2>1, <2>2, <2>3
<1> DEFINE n == Bound + half + IF Pending THEN 1 ELSE -1
<1>2. n \in Int /\ Patience \in Nat /\ n <= Patience
  BY <1>1 DEF Bound, Reach, Patience, Grace
<1>3. Within(n)
  BY DEF WatchedInv, WatchInv
<1> HIDE DEF n
<1>4. QED
  BY <1>1, <1>2, <1>3 DEF Within, WatchedInTime

\* What the bound rests on holds throughout.
LEMMA WatchedThroughout == Spec => []WatchedInv
<1>1. Init => WatchedInv
  BY InitWatched
<1>2. WatchedInv /\ [Next]_vars /\ TypeInv' => WatchedInv'
  <2> SUFFICES ASSUME WatchedInv, [Next]_vars, TypeInv' PROVE WatchedInv'
    OBVIOUS
  <2>1. CASE \E w \in Workers : Work(w)
    BY <2>1, WorkWatched
  <2>2. CASE \E w \in Workers : CrashWorker(w)
    BY <2>2, CrashWatched
  <2>3. CASE \E r \in Remotes : ProbeTarget(r) \/ ProbeSlowly(r) \/ IngestLate(r)
    BY <2>3, ProbeWatched
  <2>4. CASE \/ RunCheckNow
             \/ \E enabled \in BOOLEAN, interval \in Intervals : EditMonitor(enabled, interval)
             \/ \E seers \in (SUBSET Regions) \ {{}}, status \in Sights : TargetChanges(seers, status)
    BY <2>4, PeopleWatched
  <2>5. CASE HalfMinute \/ Tick
    BY <2>5, TimeWatched
  <2>6. CASE UNCHANGED vars
    BY <2>6, StutterWatched
  <2>7. QED
    BY <2>1, <2>2, <2>3, <2>4, <2>5, <2>6 DEF Next
<1>3. QED
  BY <1>1, <1>2, TypesThroughout, PTL DEF Spec

\* A monitor that has been enabled and left alone long enough was looked at by
\* some region within its interval, stretched by its cap at most, and a minute,
\* plus a minute for every time the queue ran behind or a worker died: for every
\* number of workers, whatever overlaps and whoever else moves last_checked_at.
THEOREM InTime == Spec => []WatchedInTime
<1>1. WatchedInv => WatchedInTime
  BY WatchedIsInTime
<1>2. QED
  BY <1>1, WatchedThroughout, PTL

(***************************************************************************)
(* The pace.  What may still be looked at too early, without anybody doing *)
(* or failing anything more, depends on how many jobs of the loop there    *)
(* are, on who comes first and on what the stamp says: one job alone looks *)
(* too early only if the stamp it goes by is older than the result; of     *)
(* more, one may look in time and the last may leave the stamp moved back. *)
(***************************************************************************)
Bit(p) == IF p THEN 1 ELSE 0

\* The jobs of a kind in a queue, and the workers at a stage.
Count(q, kind) == Cardinality({i \in DOMAIN q : q[i].kind = kind})
At(wk, pcs) == {w \in Workers : wk[w].pc \in pcs}

Asks == Count(queue, "dispatch")
Checks == Count(queue, "check") + Cardinality(At(worker, {"enqueue", "answer"}))
Touching == Cardinality(At(worker, {"touch"}))

\* It is time for the primary to look; it is not, but the stamp says so.
Mature == newest[Primary].age >= monitor.interval
Back == ~Mature /\ monitor.last > newest[Primary].age

\* A dispatch reads the stamp before any check can move it.
FirstAsks(q) ==
  \E i \in DOMAIN q : q[i].kind = "dispatch" /\ \A j \in 1 .. i : q[j].kind # "check"
Clear == At(worker, {"enqueue", "answer", "touch"}) = {} /\ FirstAsks(queue)

\* A check that will move the stamp back.
Stale == \E w \in At(worker, {"answer", "touch"}) : worker[w].age > newest[Primary].age

\* How many looks may come too early: of the asks and checks there are and of
\* one dispatch more, less the one that is in time.
Outlook(asks, checks, touching, mature, clear, back, stale) ==
  IF asks + checks + touching >= 2
  THEN asks + checks + 1 - IF mature = 1 \/ (clear = 1 /\ back = 0) THEN 1 ELSE 0
  ELSE IF checks = 1 THEN 1 - mature + stale
  ELSE IF touching = 1 THEN (IF mature = 1 THEN 0 ELSE stale)
  ELSE back
Future ==
  Outlook(Asks, Checks, Touching, Bit(Mature), Bit(Clear), Bit(Back), Bit(Stale))

\* Results on their way, each of which may move the stamp back.
Adrift(cs) == Cardinality({r \in Remotes : cs[r] # Nothing})

Allowance ==
  2 * (Used("manual") + Used("crash") + Used("behind")) + Used("edit") + Used("late")

PaceInv == TypeInv /\ early + Future + Adrift(carried) <= Allowance

\* A count or two either way.
LEMMA OutlookBounds ==
  ASSUME NEW a \in Nat, NEW c \in Nat, NEW t \in Nat,
         NEW m \in 0 .. 1, NEW k \in 0 .. 1, NEW b \in 0 .. 1, NEW s \in 0 .. 1
  PROVE  /\ Outlook(a, c, t, m, k, b, s) \in Nat
         /\ a + c - 1 <= Outlook(a, c, t, m, k, b, s)
         /\ Outlook(a, c, t, m, k, b, s) <= a + c + 1
BY DEF Outlook

\* It gets no worse when time passes, who comes first comes first still, and
\* the stamp is not moved back; it gets one worse at most when the stamp or the
\* interval is moved.
LEMMA OutlookMoves ==
  ASSUME NEW a \in Nat, NEW c \in Nat, NEW t \in Nat,
         NEW m \in 0 .. 1, NEW k \in 0 .. 1, NEW b \in 0 .. 1, NEW s \in 0 .. 1,
         NEW m2 \in 0 .. 1, NEW k2 \in 0 .. 1, NEW b2 \in 0 .. 1, NEW s2 \in 0 .. 1
  PROVE  /\ m2 >= m /\ k2 >= k /\ b2 <= b /\ s2 <= s =>
              Outlook(a, c, t, m2, k2, b2, s2) <= Outlook(a, c, t, m, k, b, s)
         /\ Outlook(a, c, t, m2, k, b2, s) <= Outlook(a, c, t, m, k, b, s) + 1
BY DEF Outlook

\* A dispatch that finds the monitor not due, and one that finds it due.
LEMMA OutlookDispatch ==
  ASSUME NEW a \in Nat, NEW c \in Nat, NEW t \in Nat, a # 0,
         NEW m \in 0 .. 1, NEW k \in 0 .. 1, NEW b \in 0 .. 1, NEW s \in 0 .. 1,
         b = 1 => m = 0, s = 1 => c + t > 0,
         NEW k2 \in 0 .. 1, NEW s2 \in 0 .. 1, s2 <= s
  PROVE  /\ Outlook(a - 1, c, t, m, k2, b, s2) <= Outlook(a, c, t, m, k, b, s)
         /\ m = 1 \/ b = 1 =>
              Outlook(a - 1, c + 1, t, m, 0, b, s2) <= Outlook(a, c, t, m, k, b, s)
BY DEF Outlook

\* An answer that is filed is too early, or it was time for one.
LEMMA OutlookFile ==
  ASSUME NEW a \in Nat, NEW c \in Nat, NEW t \in Nat, c # 0,
         NEW m \in 0 .. 1, NEW b \in 0 .. 1, NEW s \in 0 .. 1,
         NEW m2 \in 0 .. 1, NEW b2 \in 0 .. 1, NEW s2 \in 0 .. 1,
         a + c + t = 1 => s2 <= s
  PROVE  Outlook(a, c - 1, t + 1, m2, 0, b2, s2) + 1 - m <= Outlook(a, c, t, m, 0, b, s)
BY DEF Outlook

\* A stamp that is moved is as old as the check that moves it.
LEMMA OutlookTouch ==
  ASSUME NEW a \in Nat, NEW c \in Nat, NEW t \in Nat, t # 0,
         NEW m \in 0 .. 1, NEW k \in 0 .. 1, NEW b \in 0 .. 1, NEW s \in 0 .. 1,
         NEW b2 \in 0 .. 1, NEW s2 \in 0 .. 1, b2 = 1 => m = 0, b2 <= s
  PROVE  Outlook(a, c, t - 1, m, k, b2, s2) <= Outlook(a, c, t, m, 0, b, s)
BY DEF Outlook

\* One job more is two looks more at most: its own, and the one its stamp may
\* cause.  So is a check that is tried again.
LEMMA OutlookMore ==
  ASSUME NEW a \in Nat, NEW c \in Nat, NEW t \in Nat,
         NEW m \in 0 .. 1, NEW k \in 0 .. 1, NEW b \in 0 .. 1, NEW s \in 0 .. 1,
         NEW m2 \in 0 .. 1, NEW k2 \in 0 .. 1, NEW b2 \in 0 .. 1, NEW s2 \in 0 .. 1,
         m2 >= m, k2 >= k, b2 <= b, s2 <= s,
         a = 1 /\ c + t = 0 => k2 = 1
  PROVE  /\ Outlook(a, c + 1, t, m2, k2, b2, s2) <= Outlook(a, c, t, m, k, b, s) + 2
         /\ Outlook(a + 1, c, t, m2, k2, b2, s2) <= Outlook(a, c, t, m, k, b, s) + 2
         /\ a + c + t = 0 =>
              Outlook(1, 0, 0, m2, k2, b2, s2) <= Outlook(a, c, t, m, k, b, s)
BY DEF Outlook

\* A worker that dies while it touches may put its check back: two more at most.
LEMMA OutlookAgain ==
  ASSUME NEW a \in Nat, NEW c \in Nat, NEW t \in Nat, t # 0,
         NEW m \in 0 .. 1, NEW k \in 0 .. 1, NEW b \in 0 .. 1, NEW s \in 0 .. 1,
         NEW k2 \in 0 .. 1, NEW s2 \in 0 .. 1
  PROVE  Outlook(a, c + 1, t - 1, m, k2, b, s2) <= Outlook(a, c, t, m, 0, b, s) + 2
BY DEF Outlook

\* Jobs are counted as they come and go.
LEMMA CountIs ==
  ASSUME NEW q \in Seq(Job), NEW kind
  PROVE  /\ Count(q, kind) \in Nat
         /\ \A j : Count(Append(q, j), kind) = Count(q, kind) + Bit(j.kind = kind)
         /\ q # <<>> => Count(q, kind) = Count(Tail(q), kind) + Bit(Head(q).kind = kind)
<1> DEFINE S == {i \in DOMAIN q : q[i].kind = kind}
<1>1. /\ DOMAIN q = 1 .. Len(q) /\ Len(q) \in Nat /\ IsFiniteSet(1 .. Len(q))
  BY FS_Interval
<1>2. IsFiniteSet(S) /\ Cardinality(S) \in Nat /\ Count(q, kind) = Cardinality(S)
  BY <1>1, FS_Subset, FS_CardinalityType DEF Count
<1>3. ASSUME NEW j
      PROVE  Count(Append(q, j), kind) = Count(q, kind) + Bit(j.kind = kind)
  <2> DEFINE n == Len(q) + 1
             T == {i \in DOMAIN Append(q, j) : Append(q, j)[i].kind = kind}
  <2>1. /\ DOMAIN Append(q, j) = 1 .. n
        /\ \A i \in 1 .. Len(q) : Append(q, j)[i] = q[i]
        /\ Append(q, j)[n] = j
    OBVIOUS
  <2>2. 1 .. n = (1 .. Len(q)) \cup {n} /\ n \notin 1 .. Len(q)
    BY <1>1
  <2> HIDE DEF n
  <2>3. n \notin S /\ Count(Append(q, j), kind) = Cardinality(T)
    BY <1>1, <2>2 DEF Count
  <2>4. CASE j.kind = kind
    <3>1. T = S \cup {n}
      BY <1>1, <2>1, <2>2, <2>4
    <3> HIDE DEF S, T
    <3>2. Cardinality(S \cup {n}) = Cardinality(S) + 1
      BY <1>2, <2>3, FS_AddElement
    <3>3. QED
      BY <1>2, <2>3, <2>4, <3>1, <3>2 DEF Bit
  <2>5. CASE j.kind # kind
    <3>1. T = S
      BY <1>1, <2>1, <2>2, <2>5
    <3> HIDE DEF S, T
    <3>2. QED
      BY <1>2, <2>3, <2>5, <3>1 DEF Bit
  <2>6. QED
    BY <2>4, <2>5
<1>4. ASSUME q # <<>>
      PROVE  Count(q, kind) = Count(Tail(q), kind) + Bit(Head(q).kind = kind)
  <2> DEFINE T == {i \in DOMAIN Tail(q) : Tail(q)[i].kind = kind}
             R == S \ {1}
             f == [i \in T |-> i + 1]
  <2>1. /\ DOMAIN Tail(q) = 1 .. Len(q) - 1 /\ Head(q) = q[1] /\ 1 \in 1 .. Len(q)
        /\ \A i \in 1 .. Len(q) - 1 : Tail(q)[i] = q[i + 1]
    BY <1>4
  <2>2. IsFiniteSet(T) /\ Cardinality(T) \in Nat
    <3>1. T \subseteq 1 .. Len(q) - 1 /\ IsFiniteSet(1 .. Len(q) - 1)
      BY <1>1, <2>1, FS_Interval
    <3>2. QED
      BY <3>1, FS_Subset, FS_CardinalityType
  <2>3. \A i \in T : i \in Int /\ i + 1 \in R
    BY <1>1, <2>1
  <2>4. \A i \in R : i - 1 \in T /\ f[i - 1] = i
    <3>1. ASSUME NEW i \in R PROVE i - 1 \in 1 .. Len(q) - 1 /\ q[i].kind = kind /\ (i - 1) + 1 = i
      BY <1>1
    <3>2. QED
      BY <2>1, <3>1
  <2>5. f \in [T -> R] /\ (\A i, j \in T : f[i] = f[j] => i = j)
    BY <2>3
  <2>6. f \in Bijection(T, R)
    <3> HIDE DEF f, T, R
    <3>1. \A y \in R : \E i \in T : f[i] = y
      BY <2>4
    <3>2. QED
      BY <2>5, <3>1, Fun_IsBij
  <2>7. Cardinality(R) = Cardinality(T)
    <3> HIDE DEF f, T, R
    <3>1. QED
      BY <2>2, <2>6, FS_Bijection DEF ExistsBijection
  <2>8. Cardinality(R) = Cardinality(S) - Bit(Head(q).kind = kind)
    <3>1. 1 \in S <=> Head(q).kind = kind
      BY <1>1, <2>1
    <3> HIDE DEF S
    <3>2. Cardinality(R) = IF 1 \in S THEN Cardinality(S) - 1 ELSE Cardinality(S)
      BY <1>2, FS_RemoveElement
    <3> HIDE DEF R
    <3>3. QED
      BY <1>2, <3>1, <3>2 DEF Bit
  <2>9. Count(Tail(q), kind) = Cardinality(T)
    BY DEF Count
  <2> HIDE DEF R, T, S
  <2>10. QED
    BY <1>2, <2>2, <2>7, <2>8, <2>9 DEF Bit
<1>5. QED
  BY <1>2, <1>3, <1>4

\* The two jobs of a minute come last, one after the other.
LEMMA MinuteIs ==
  ASSUME NEW q \in Seq(Job)
  PROVE  q \o <<Dispatching, Evaluating>> = Append(Append(q, Dispatching), Evaluating)
BY JobTypes

\* Who comes first does so whoever comes later, until it is its turn.
LEMMA FirstAsksIs ==
  ASSUME NEW q \in Seq(Job)
  PROVE  /\ \A j : FirstAsks(q) => FirstAsks(Append(q, j))
         /\ q # <<>> /\ Head(q).kind = "check" => ~FirstAsks(q)
         /\ q # <<>> /\ Head(q).kind = "evaluate" /\ FirstAsks(q) => FirstAsks(Tail(q))
         /\ Count(q, "check") = 0 /\ Count(q, "dispatch") # 0 => FirstAsks(q)
<1>1. DOMAIN q = 1 .. Len(q) /\ Len(q) \in Nat /\ IsFiniteSet(1 .. Len(q))
  BY FS_Interval
<1>2. ASSUME NEW j, FirstAsks(q) PROVE FirstAsks(Append(q, j))
  <2>1. PICK i \in 1 .. Len(q) : q[i].kind = "dispatch" /\ \A l \in 1 .. i : q[l].kind # "check"
    BY <1>1, <1>2 DEF FirstAsks
  <2>2. /\ i \in DOMAIN Append(q, j)
        /\ \A l \in 1 .. Len(q) : Append(q, j)[l] = q[l]
        /\ 1 .. i \subseteq 1 .. Len(q)
    BY <1>1
  <2>3. QED
    BY <2>1, <2>2 DEF FirstAsks
<1>3. ASSUME q # <<>>, Head(q).kind = "check" PROVE ~FirstAsks(q)
  <2>1. q[1].kind = "check" /\ \A i \in 1 .. Len(q) : 1 \in 1 .. i
    BY <1>1, <1>3
  <2>2. QED
    BY <1>1, <2>1 DEF FirstAsks
<1>4. ASSUME q # <<>>, Head(q).kind = "evaluate", FirstAsks(q) PROVE FirstAsks(Tail(q))
  <2>1. PICK i \in 1 .. Len(q) : q[i].kind = "dispatch" /\ \A l \in 1 .. i : q[l].kind # "check"
    BY <1>1, <1>4 DEF FirstAsks
  <2>2. /\ DOMAIN Tail(q) = 1 .. Len(q) - 1 /\ Head(q) = q[1]
        /\ \A l \in 1 .. Len(q) - 1 : Tail(q)[l] = q[l + 1]
    BY <1>4
  <2>3. i # 1
    BY <1>4, <2>1, <2>2
  <2>4. /\ i - 1 \in 1 .. Len(q) - 1 /\ (i - 1) + 1 = i
        /\ \A l \in 1 .. i - 1 : l \in 1 .. Len(q) - 1 /\ l + 1 \in 1 .. i
    BY <2>3
  <2>5. Tail(q)[i - 1].kind = "dispatch" /\ \A l \in 1 .. i - 1 : Tail(q)[l].kind # "check"
    BY <2>1, <2>2, <2>4
  <2>6. QED
    BY <2>2, <2>4, <2>5 DEF FirstAsks
<1>5. ASSUME Count(q, "check") = 0, Count(q, "dispatch") # 0 PROVE FirstAsks(q)
  <2> DEFINE S(kind) == {i \in DOMAIN q : q[i].kind = kind}
  <2>1. \A kind : IsFiniteSet(S(kind))
    BY <1>1, FS_Subset
  <2>2. S("check") = {} /\ S("dispatch") # {}
    BY <1>5, <2>1, FS_EmptySet DEF Count
  <2>3. PICK i \in DOMAIN q : q[i].kind = "dispatch"
    BY <2>2
  <2>4. 1 .. i \subseteq DOMAIN q
    BY <1>1
  <2>5. QED
    BY <2>2, <2>3, <2>4 DEF FirstAsks
<1>6. QED
  BY <1>2, <1>3, <1>4, <1>5

\* Workers are counted.
LEMMA AtIs ==
  ASSUME NEW wk, NEW pcs
  PROVE  /\ IsFiniteSet(At(wk, pcs)) /\ Cardinality(At(wk, pcs)) \in Nat
         /\ Cardinality(At(wk, pcs)) = 0 <=> At(wk, pcs) = {}
<1>1. IsFiniteSet(Workers) /\ At(wk, pcs) \in SUBSET Workers
  <2>1. Concurrency \in Int
    BY DispatchAssumption
  <2>2. IsFiniteSet(1 .. Concurrency)
    BY <2>1, FS_Interval
  <2>3. At(wk, pcs) \in SUBSET Workers
    BY DEF At
  <2>4. QED
    BY <2>2, <2>3 DEF Workers
<1>2. QED
  BY <1>1, FS_Subset, FS_CardinalityType, FS_EmptySet

\* One worker goes from a stage to another.
LEMMA AtStep ==
  ASSUME NEW wk, NEW wk2, NEW w \in Workers, \A v \in Workers \ {w} : wk2[v] = wk[v], NEW pcs
  PROVE  Cardinality(At(wk2, pcs)) =
           Cardinality(At(wk, pcs)) - (IF wk[w].pc \in pcs THEN 1 ELSE 0)
                                    + (IF wk2[w].pc \in pcs THEN 1 ELSE 0)
<1> DEFINE R == At(wk, pcs) \ {w}
<1>1. /\ At(wk, pcs) = IF wk[w].pc \in pcs THEN R \cup {w} ELSE R
      /\ At(wk2, pcs) = IF wk2[w].pc \in pcs THEN R \cup {w} ELSE R
  BY DEF At
<1>2. IsFiniteSet(R) /\ Cardinality(R) \in Nat /\ w \notin R
  BY AtIs, FS_RemoveElement, FS_CardinalityType
<1>3. Cardinality(R \cup {w}) = Cardinality(R) + 1
  BY <1>2, FS_AddElement
<1> HIDE DEF R
<1>4. QED
  BY <1>1, <1>2, <1>3

\* What is spent is added to the allowance, at its price.
LEMMA AllowanceIs ==
  ASSUME TypeOK, TypeOK', NEW e,
         \A f \in Events : left'[f] = IF f = e THEN left[f] - 1 ELSE left[f]
  PROVE  Allowance' = Allowance + IF e \in {"manual", "crash", "behind"} THEN 2
                                  ELSE IF e \in {"edit", "late"} THEN 1 ELSE 0
<1>1. {"manual", "crash", "behind", "edit", "late"} \subseteq Events
  BY DEF Events, Faults
<1>2. \A f \in Events : Budget[f] \in Nat /\ left[f] \in Nat
  BY DispatchAssumption DEF TypeOK
<1>3. \A f \in Events : Used(f)' = Used(f) + IF f = e THEN 1 ELSE 0
  BY <1>2 DEF Used
<1>4. \A f \in Events : Used(f) \in Int
  BY <1>2 DEF Used
<1>5. QED
  BY <1>1, <1>3, <1>4 DEF Allowance

\* What is counted is a number; who moves the stamp back is under way.
LEMMA FutureIs ==
  ASSUME TypeOK
  PROVE  /\ Asks \in Nat /\ Checks \in Nat /\ Touching \in Nat
         /\ Bit(Mature) \in 0 .. 1 /\ Bit(Clear) \in 0 .. 1
         /\ Bit(Back) \in 0 .. 1 /\ Bit(Stale) \in 0 .. 1
         /\ Bit(Back) = 1 => Bit(Mature) = 0
         /\ Bit(Stale) = 1 => Checks + Touching > 0
         /\ Future \in Nat
<1>1. Asks \in Nat /\ Count(queue, "check") \in Nat
  BY CountIs DEF TypeOK, Asks
<1>2. /\ Cardinality(At(worker, {"enqueue", "answer"})) \in Nat
      /\ Touching \in Nat
  BY AtIs DEF Touching
<1>3. Checks \in Nat
  BY <1>1, <1>2 DEF Checks
<1>4. /\ Bit(Mature) \in 0 .. 1 /\ Bit(Clear) \in 0 .. 1
      /\ Bit(Back) \in 0 .. 1 /\ Bit(Stale) \in 0 .. 1
  BY DEF Bit
<1>5. Bit(Back) = 1 => Bit(Mature) = 0
  BY DEF Bit, Back
<1>6. Bit(Stale) = 1 => Checks + Touching > 0
  <2>1. SUFFICES ASSUME Stale PROVE Checks + Touching > 0
    BY DEF Bit
  <2>2. PICK w \in Workers : worker[w].pc \in {"answer", "touch"}
    BY <2>1 DEF Stale, At
  <2>3. At(worker, {"enqueue", "answer"}) # {} \/ At(worker, {"touch"}) # {}
    BY <2>2 DEF At
  <2>4. Cardinality(At(worker, {"enqueue", "answer"})) # 0 \/ Touching # 0
    BY <2>3, AtIs DEF Touching
  <2>5. QED
    BY <1>1, <1>2, <2>4 DEF Checks
<1>7. Future \in Nat
  BY <1>1, <1>2, <1>3, <1>4, OutlookBounds DEF Future
<1>8. QED
  BY <1>1, <1>2, <1>3, <1>4, <1>5, <1>6, <1>7

\* The same of the next state.
LEMMA FutureIsThen ==
  ASSUME TypeOK'
  PROVE  /\ Asks' \in Nat /\ Checks' \in Nat /\ Touching' \in Nat
         /\ Bit(Mature)' \in 0 .. 1 /\ Bit(Clear)' \in 0 .. 1
         /\ Bit(Back)' \in 0 .. 1 /\ Bit(Stale)' \in 0 .. 1
         /\ Bit(Back)' = 1 => Bit(Mature)' = 0
         /\ Future' = Outlook(Asks', Checks', Touching', Bit(Mature)', Bit(Clear)',
                              Bit(Back)', Bit(Stale)')
         /\ Future' \in Nat /\ Future' <= Asks' + Checks' + 1
<1>1. Asks' \in Nat /\ Count(queue', "check") \in Nat
  BY CountIs DEF TypeOK, Asks
<1>2. /\ Cardinality(At(worker', {"enqueue", "answer"})) \in Nat
      /\ Touching' \in Nat
  BY AtIs DEF Touching
<1>3. Checks' \in Nat
  BY <1>1, <1>2 DEF Checks
<1>4. /\ Bit(Mature)' \in 0 .. 1 /\ Bit(Clear)' \in 0 .. 1
      /\ Bit(Back)' \in 0 .. 1 /\ Bit(Stale)' \in 0 .. 1
  BY DEF Bit
<1>5. Bit(Back)' = 1 => Bit(Mature)' = 0
  BY DEF Bit, Back
<1>6. Future' = Outlook(Asks', Checks', Touching', Bit(Mature)', Bit(Clear)',
                        Bit(Back)', Bit(Stale)')
  BY DEF Future
<1>7. Future' \in Nat /\ Future' <= Asks' + Checks' + 1
  BY <1>1, <1>2, <1>3, <1>4, <1>6, OutlookBounds
<1>8. QED
  BY <1>1, <1>2, <1>3, <1>4, <1>5, <1>6, <1>7

\* One worker goes on, and what it does to the counts.
LEMMA CountsStep ==
  ASSUME TypeOK, TypeOK', NEW w \in Workers, \A v \in Workers \ {w} : worker'[v] = worker[v]
  PROVE  /\ Checks' = Count(queue', "check") + (Checks - Count(queue, "check"))
                      - (IF worker[w].pc \in {"enqueue", "answer"} THEN 1 ELSE 0)
                      + (IF worker'[w].pc \in {"enqueue", "answer"} THEN 1 ELSE 0)
         /\ Touching' = Touching - (IF worker[w].pc = "touch" THEN 1 ELSE 0)
                                 + (IF worker'[w].pc = "touch" THEN 1 ELSE 0)
<1>1. Count(queue, "check") \in Nat /\ Count(queue', "check") \in Nat
  BY CountIs DEF TypeOK
<1>2. ASSUME NEW pcs
      PROVE  /\ Cardinality(At(worker, pcs)) \in Nat
             /\ Cardinality(At(worker', pcs)) \in Nat
             /\ Cardinality(At(worker', pcs)) =
                  Cardinality(At(worker, pcs)) - (IF worker[w].pc \in pcs THEN 1 ELSE 0)
                                               + (IF worker'[w].pc \in pcs THEN 1 ELSE 0)
  BY AtIs, AtStep
<1>3. /\ Checks = Count(queue, "check") + Cardinality(At(worker, {"enqueue", "answer"}))
      /\ Checks' = Count(queue', "check") + Cardinality(At(worker', {"enqueue", "answer"}))
  BY DEF Checks
<1>4. /\ Touching = Cardinality(At(worker, {"touch"}))
      /\ Touching' = Cardinality(At(worker', {"touch"}))
  BY DEF Touching
<1>5. /\ Cardinality(At(worker, {"enqueue", "answer"})) \in Nat
      /\ Cardinality(At(worker', {"enqueue", "answer"})) =
           Cardinality(At(worker, {"enqueue", "answer"}))
             - (IF worker[w].pc \in {"enqueue", "answer"} THEN 1 ELSE 0)
             + (IF worker'[w].pc \in {"enqueue", "answer"} THEN 1 ELSE 0)
  BY <1>2
<1>6. Cardinality(At(worker', {"touch"})) =
        Cardinality(At(worker, {"touch"})) - (IF worker[w].pc \in {"touch"} THEN 1 ELSE 0)
                                           + (IF worker'[w].pc \in {"touch"} THEN 1 ELSE 0)
  BY <1>2
<1>7. QED
  BY <1>1, <1>3, <1>4, <1>5, <1>6

\* Ages are numbers.
LEMMA AgesAre ==
  ASSUME TypeOK
  PROVE  /\ newest[Primary].age \in Nat /\ monitor.interval \in Nat
         /\ \A w \in Workers : worker[w].age \in Ages /\ worker[w].age \in Nat
<1>1. Old \in Nat /\ Intervals \subseteq Nat /\ Primary \in Regions
  BY DispatchAssumption DEF Regions
<1>2. monitor.interval \in Nat
  BY <1>1 DEF TypeOK, Row
<1>3. newest[Primary].age \in Nat
  BY <1>1 DEF TypeOK, Ages
<1>4. \A w \in Workers : worker[w].age \in Ages /\ worker[w].age \in Nat
  BY <1>1 DEF TypeOK, WorkerState, Ages
<1>5. QED
  BY <1>2, <1>3, <1>4

\* Nothing is added to what may come too early while the jobs stay as many, the
\* first is first still, and neither the stamp nor a check goes back.
LEMMA FutureKept ==
  ASSUME TypeOK, TypeOK', Asks' = Asks, Checks' = Checks, Touching' = Touching,
         Mature => Mature', Clear => Clear', Back' => Back, Stale' => Stale
  PROVE  Future' <= Future
<1>1. /\ Bit(Mature)' >= Bit(Mature) /\ Bit(Clear)' >= Bit(Clear)
      /\ Bit(Back)' <= Bit(Back) /\ Bit(Stale)' <= Bit(Stale)
  BY DEF Bit
<1>2. QED
  BY SMTT(30), <1>1, FutureIs, FutureIsThen, OutlookMoves DEF Future

\* A worker that does not file and does not stamp leaves the result and the
\* stamp as they are, and no check of its own goes back.
LEMMA NoAnswer ==
  ASSUME TypeInv, NEW w \in Workers, Work(w), ~FileAnswer(w), ~TouchMonitor(w),
         worker'[w].pc \in {"answer", "touch"} => worker'[w].age = 0
  PROVE  /\ Mature' <=> Mature
         /\ Back' <=> Back
         /\ Stale' => Stale
<1>1. /\ newest' = newest /\ monitor'.last = monitor.last /\ monitor'.interval = monitor.interval
      /\ \A v \in Workers \ {w} : worker'[v] = worker[v]
  BY WorkIs
<1>2. newest[Primary].age \in Nat
  BY DispatchAssumption DEF TypeInv, TypeOK, Ages, Regions
<1>3. ASSUME Stale' PROVE Stale
  <2>1. PICK v \in Workers : worker'[v].pc \in {"answer", "touch"} /\ worker'[v].age > newest[Primary].age
    BY <1>1, <1>3 DEF Stale, At
  <2>2. v # w
    BY <1>2, <2>1
  <2>3. QED
    BY <1>1, <2>1, <2>2 DEF Stale, At
<1>4. QED
  BY <1>1, <1>3 DEF Mature, Back

\* A dispatch takes one ask off, and queues a check only if the stamp says so.
LEMMA PaceDispatch ==
  ASSUME TypeInv, TypeInv', NEW w \in Workers, StartDispatch(w)
  PROVE  Future' <= Future
<1> DEFINE st == IF monitor.enabled /\ Due THEN [Idle EXCEPT !.pc = "enqueue"] ELSE Idle
<1>1. /\ TypeOK /\ TypeOK' /\ Work(w) /\ Take(w, "dispatch")
      /\ worker' = [worker EXCEPT ![w] = st] /\ UNCHANGED rows
  BY DEF TypeInv, StartDispatch, Work, Go
<1>2. st.pc = IF monitor.enabled /\ Due THEN "enqueue" ELSE "idle"
  BY DEF Idle
<1> HIDE DEF st
<1>3. /\ worker'[w].pc = IF monitor.enabled /\ Due THEN "enqueue" ELSE "idle"
      /\ worker[w].pc = "idle"
      /\ \A v \in Workers \ {w} : worker'[v] = worker[v]
  BY <1>1, <1>2 DEF TypeOK, Take
<1>4. /\ queue \in Seq(Job) /\ queue # <<>> /\ Head(queue).kind = "dispatch"
      /\ queue' = Tail(queue)
  BY <1>1, TakeType DEF TypeOK
<1>5. /\ Asks' = Asks - 1 /\ Count(queue', "check") = Count(queue, "check")
      /\ Asks' \in Nat /\ Asks # 0
  <2>1. /\ Count(queue, "dispatch") = Count(Tail(queue), "dispatch") + 1
        /\ Count(queue, "check") = Count(Tail(queue), "check") + 0
    BY <1>4, CountIs DEF Bit
  <2>2. Count(Tail(queue), "dispatch") \in Nat /\ Count(Tail(queue), "check") \in Nat
    BY <1>1, <1>4, CountIs DEF TypeOK
  <2>3. QED
    BY <1>4, <2>1, <2>2 DEF Asks
<1>6. /\ Touching' = Touching
      /\ Checks' = Checks + IF monitor.enabled /\ Due THEN 1 ELSE 0
  <2>1. Count(queue, "check") \in Nat
    BY <1>4, CountIs
  <2>2. QED
    BY <1>1, <1>3, <1>5, <2>1, CountsStep, FutureIs
<1>7. (Mature' <=> Mature) /\ (Back' <=> Back) /\ (Stale' => Stale)
  <2>1. ~FileAnswer(w) /\ ~TouchMonitor(w)
    BY <1>3 DEF FileAnswer, TouchMonitor
  <2>2. QED
    BY <1>1, <1>3, <2>1, NoAnswer
<1>8. CASE ~(monitor.enabled /\ Due)
  <2>1. /\ Bit(Mature)' = Bit(Mature) /\ Bit(Back)' = Bit(Back) /\ Bit(Stale)' <= Bit(Stale)
        /\ Checks' = Checks
    BY <1>1, <1>6, <1>7, <1>8, FutureIs DEF Bit
  <2>2. QED
    BY <1>1, <1>5, <1>6, <2>1, FutureIs, FutureIsThen, OutlookDispatch DEF Future
<1>9. CASE monitor.enabled /\ Due
  <2>1. Mature \/ Back
    <3>1. monitor.last >= monitor.interval
      <4>1. /\ monitor.interval \in Nat \ {0} /\ monitor.last \in Nat
            /\ Multiplier(monitor.failures, monitor.cap) \in Nat \ {0}
        <5>1. /\ Overdue \in Nat /\ monitor.last \in 0 .. Overdue
              /\ monitor.interval \in Nat \ {0} /\ monitor.cap \in Nat \ {0}
              /\ FailureCap \in Nat /\ monitor.failures \in 0 .. FailureCap
          BY <1>1, DispatchAssumption DEF TypeOK, Row
        <5>2. Multiplier(monitor.failures, monitor.cap) \in 1 .. monitor.cap
          BY SMTT(30), <5>1, MultiplierBounds
        <5>3. QED
          BY <5>1, <5>2
      <4>2. \A i \in Nat \ {0}, u \in Nat \ {0} : i * u \in Nat /\ i * u >= i
        OBVIOUS
      <4>3. monitor.last >= monitor.interval * Multiplier(monitor.failures, monitor.cap)
        BY <1>9 DEF Due
      <4>4. QED
        BY <4>1, <4>2, <4>3
    <3>2. newest[Primary].age \in Nat /\ monitor.interval \in Nat /\ monitor.last \in Nat
      <4>1. Overdue \in Nat /\ monitor.last \in 0 .. Overdue
        BY <1>1, DispatchAssumption DEF TypeOK, Row
      <4>2. QED
        BY <1>1, <4>1, AgesAre
    <3>3. QED
      BY <3>1, <3>2 DEF Mature, Back
  <2>2. Bit(Clear)' = 0
    <3>1. w \in At(worker', {"enqueue", "answer", "touch"})
      BY <1>3, <1>9 DEF At
    <3>2. QED
      BY <3>1 DEF Clear, Bit
  <2>3. /\ Bit(Mature)' = Bit(Mature) /\ Bit(Back)' = Bit(Back) /\ Bit(Stale)' <= Bit(Stale)
        /\ Checks' = Checks + 1
        /\ Bit(Mature) = 1 \/ Bit(Back) = 1
    BY <1>6, <1>7, <1>9, <2>1 DEF Bit
  <2>4. Future' = Outlook(Asks - 1, Checks + 1, Touching, Bit(Mature), 0, Bit(Back), Bit(Stale)')
    BY <1>1, <1>5, <1>6, <2>2, <2>3, FutureIsThen
  <2>5. Bit(Stale)' \in 0 .. 1
    BY <1>1, FutureIsThen
  <2>6. QED
    BY <1>1, <1>5, <2>3, <2>4, <2>5, FutureIs, OutlookDispatch DEF Future
<1>10. QED
  BY <1>8, <1>9

\* A check that is queued, taken, and a verdict that is reached and written:
\* the jobs stay as many.
LEMMA PaceQuiet ==
  ASSUME TypeInv, TypeInv', NEW w \in Workers,
         EnqueueCheck(w) \/ StartCheck(w) \/ StartEvaluate(w) \/ WriteVerdict(w)
  PROVE  Future' <= Future
<1>1. /\ TypeOK /\ TypeOK' /\ Work(w) /\ ~FileAnswer(w) /\ ~TouchMonitor(w)
      /\ queue \in Seq(Job) /\ queue' \in Seq(Job)
  BY DEF TypeInv, TypeOK, Work, EnqueueCheck, StartCheck, StartEvaluate, WriteVerdict,
         FileAnswer, TouchMonitor, Take
<1>2. /\ \A v \in Workers \ {w} : worker'[v] = worker[v]
      /\ worker \in [Workers -> WorkerState]
  BY <1>1, WorkIs DEF TypeOK
<1>3. /\ Count(queue, "check") \in Nat /\ Count(queue', "check") \in Nat
      /\ Asks = Count(queue, "dispatch") /\ Asks' = Count(queue', "dispatch")
      /\ Asks \in Nat /\ Asks' \in Nat /\ Checks \in Nat /\ Touching \in Nat
  <2>1. Asks = Count(queue, "dispatch") /\ Asks' = Count(queue', "dispatch")
    BY DEF Asks
  <2>2. QED
    BY <1>1, <2>1, CountIs, FutureIs, FutureIsThen
<1>4. CASE EnqueueCheck(w)
  <2>1. /\ worker[w].pc = "enqueue" /\ worker'[w].pc = "idle"
        /\ queue' = Append(queue, Checking)
    BY <1>2, <1>4, IdleType DEF EnqueueCheck, Done, Go
  <2>2. /\ Count(queue', "check") = Count(queue, "check") + 1
        /\ Count(queue', "dispatch") = Count(queue, "dispatch") + 0
    BY <1>1, <2>1, CountIs DEF Checking, Bit
  <2>3. Asks' = Asks /\ Checks' = Checks /\ Touching' = Touching
    <3>1. /\ Checks' = Count(queue', "check") + (Checks - Count(queue, "check"))
                        - 1 + 0
          /\ Touching' = Touching - 0 + 0
      BY <1>1, <1>2, <2>1, CountsStep
    <3>2. QED
      BY <1>3, <2>2, <3>1
  <2>4. ~Clear
    BY <2>1 DEF Clear, At
  <2>5. QED
    BY <1>1, <2>1, <2>3, <2>4, NoAnswer, FutureKept
<1>5. CASE StartCheck(w)
  <2> DEFINE st == [Idle EXCEPT !.pc = "answer", !.tries = Head(queue).tries]
  <2>1. /\ worker[w].pc = "idle" /\ worker' = [worker EXCEPT ![w] = st]
        /\ queue # <<>> /\ Head(queue).kind = "check" /\ queue' = Tail(queue)
    BY <1>5 DEF StartCheck, Take, Go
  <2>2. st.pc = "answer" /\ st.age = 0
    BY DEF Idle
  <2> HIDE DEF st
  <2>3. worker'[w].pc = "answer" /\ worker'[w].age = 0
    BY <1>2, <2>1, <2>2
  <2>4. /\ Count(queue, "check") = Count(queue', "check") + 1
        /\ Count(queue, "dispatch") = Count(queue', "dispatch") + 0
    BY <1>1, <2>1, CountIs DEF Bit
  <2>5. Asks' = Asks /\ Checks' = Checks /\ Touching' = Touching
    <3>1. /\ Checks' = Count(queue', "check") + (Checks - Count(queue, "check"))
                        - 0 + 1
          /\ Touching' = Touching - 0 + 0
      BY <1>1, <1>2, <2>1, <2>3, CountsStep
    <3>2. QED
      BY <1>3, <2>4, <3>1
  <2>6. ~Clear
    BY <1>1, <2>1, FirstAsksIs DEF Clear
  <2>7. QED
    BY <1>1, <2>3, <2>5, <2>6, NoAnswer, FutureKept
<1>6. CASE StartEvaluate(w)
  <2> DEFINE next == ConsensusStatus(Votes, MinRegions)
             st == IF monitor.enabled /\ Fresh # {}
                   THEN [Idle EXCEPT !.pc = "write", !.prev = monitor.status,
                                     !.failures = monitor.failures, !.next = next]
                   ELSE Idle
  <2>1. /\ worker[w].pc = "idle" /\ worker' = [worker EXCEPT ![w] = st]
        /\ queue # <<>> /\ Head(queue).kind = "evaluate" /\ queue' = Tail(queue)
    BY <1>6 DEF StartEvaluate, Take, Go
  <2> HIDE DEF next
  <2>2. st.pc \in {"idle", "write"}
    BY DEF Idle
  <2> HIDE DEF st
  <2>3. worker'[w].pc \in {"idle", "write"}
    BY <1>2, <2>1, <2>2
  <2>4. /\ Count(queue, "check") = Count(queue', "check") + 0
        /\ Count(queue, "dispatch") = Count(queue', "dispatch") + 0
    BY <1>1, <2>1, CountIs DEF Bit
  <2>5. Asks' = Asks /\ Checks' = Checks /\ Touching' = Touching
    BY SMTT(30), <1>1, <1>2, <1>3, <2>1, <2>3, <2>4, CountsStep
  <2>6. Clear => Clear'
    <3>1. At(worker, {"enqueue", "answer", "touch"}) = {} =>
            At(worker', {"enqueue", "answer", "touch"}) = {}
      BY <1>2, <2>3 DEF At
    <3>2. FirstAsks(queue) => FirstAsks(queue')
      BY <1>1, <2>1, FirstAsksIs
    <3>3. QED
      BY <3>1, <3>2 DEF Clear
  <2>7. QED
    BY <1>1, <2>3, <2>5, <2>6, NoAnswer, FutureKept
<1>7. CASE WriteVerdict(w)
  <2>1. /\ worker[w].pc = "write" /\ worker'[w].pc = "idle" /\ queue' = queue
    BY <1>2, <1>7, IdleType DEF WriteVerdict, Done, Go
  <2>2. Asks' = Asks /\ Checks' = Checks /\ Touching' = Touching
    BY <1>1, <1>2, <1>3, <2>1, CountsStep
  <2>3. Clear => Clear'
    BY <1>2, <2>1 DEF Clear, At
  <2>4. QED
    BY <1>1, <2>1, <2>2, <2>3, NoAnswer, FutureKept
<1>8. QED
  BY <1>4, <1>5, <1>6, <1>7

\* A member of a set of one is the one.
LEMMA Alone ==
  ASSUME NEW wk, NEW pcs, NEW w \in At(wk, pcs), Cardinality(At(wk, pcs)) <= 1
  PROVE  At(wk, pcs) = {w}
<1>1. IsFiniteSet(At(wk, pcs)) /\ Cardinality(At(wk, pcs)) \in Nat
      /\ At(wk, pcs) # {} /\ Cardinality(At(wk, pcs)) # 0
  BY AtIs
<1>2. Cardinality(At(wk, pcs)) = 1
  BY <1>1
<1>3. PICK v : At(wk, pcs) = {v}
  BY <1>1, <1>2, FS_Singleton
<1>4. QED
  BY <1>3

\* An answer that is filed: too early and counted, or in time.
LEMMA PaceFile ==
  ASSUME TypeInv, TypeInv', early \in Nat, NEW w \in Workers, FileAnswer(w)
  PROVE  early' + Future' <= early + Future
<1>1. PICK age \in {0, worker[w].age} :
        /\ newest' = Recorded(Primary, age, target[Primary])
        /\ worker' = [worker EXCEPT ![w] = [worker[w] EXCEPT !.pc = "touch", !.age = age]]
  BY DEF FileAnswer, Go
<1>2. /\ TypeOK /\ TypeOK' /\ Work(w) /\ queue' = queue /\ monitor' = monitor
      /\ worker[w].pc = "answer" /\ Primary \in Regions
      /\ worker[w] \in WorkerState /\ worker \in [Workers -> WorkerState]
      /\ queue \in Seq(Job)
  BY DEF TypeInv, TypeOK, FileAnswer, Work, Regions
<1>3. /\ worker'[w].pc = "touch" /\ worker'[w].age = age
      /\ \A v \in Workers \ {w} : worker'[v] = worker[v]
  BY <1>1, <1>2 DEF WorkerState
<1>4. Asks' = Asks /\ Checks' = Checks - 1 /\ Touching' = Touching + 1
  <2>1. Count(queue, "check") \in Nat /\ Checks \in Nat /\ Touching \in Nat
    BY <1>2, CountIs, FutureIs
  <2>2. QED
    BY <1>2, <1>3, <2>1, CountsStep DEF Asks
<1>5. Bit(Clear) = 0 /\ Bit(Clear)' = 0
  <2>1. /\ w \in At(worker, {"enqueue", "answer", "touch"})
        /\ w \in At(worker', {"enqueue", "answer", "touch"})
    BY <1>2, <1>3 DEF At
  <2>2. QED
    BY <2>1 DEF Clear, Bit
<1>6. early' = early + 1 - Bit(Mature)
  BY <1>2, AgesAre DEF FileAnswer, Mature, Bit
<1>7. Checks # 0
  BY <1>2, <1>4, FutureIs, FutureIsThen
<1>8. Asks + Checks + Touching = 1 => Bit(Stale)' <= Bit(Stale)
  <2>1. SUFFICES ASSUME Asks + Checks + Touching = 1, Stale' PROVE Stale
    BY FutureIs, <1>2 DEF Bit
  <2>2. At(worker, {"enqueue", "answer"}) = {w} /\ At(worker, {"touch"}) = {}
    <3>1. /\ Count(queue, "check") \in Nat
          /\ Cardinality(At(worker, {"enqueue", "answer"})) \in Nat
          /\ Cardinality(At(worker, {"touch"})) \in Nat
      BY <1>2, CountIs, AtIs
    <3>2. Asks \in Nat /\ Checks = 1 /\ Touching = 0
      BY <1>2, <1>7, <2>1, FutureIs
    <3>3. Cardinality(At(worker, {"enqueue", "answer"})) <= 1 /\ Cardinality(At(worker, {"touch"})) = 0
      BY <3>1, <3>2 DEF Checks, Touching
    <3>4. w \in At(worker, {"enqueue", "answer"})
      BY <1>2 DEF At
    <3>5. QED
      BY <3>3, <3>4, Alone, AtIs
  <2>3. PICK v \in Workers : worker'[v].pc \in {"answer", "touch"} /\ worker'[v].age > newest'[Primary].age
    BY <2>1 DEF Stale, At
  <2>4. v = w
    BY <1>3, <2>2, <2>3 DEF At
  <2>5. age > newest'[Primary].age
    BY <1>3, <2>3, <2>4
  <2>6. newest[Primary].age \in Nat /\ worker[w].age \in Nat /\ age \in Nat /\ 0 \in Ages /\ age \in Ages
    BY <1>2, AgesAre, DispatchAssumption DEF Ages
  <2>7. ~(age <= newest[Primary].age)
    <3>1. ASSUME age <= newest[Primary].age PROVE newest'[Primary].age = age
      BY <1>1, <1>2, <3>1 DEF Recorded, TypeOK
    <3>2. QED
      BY <2>5, <2>6, <3>1
  <2>8. worker[w].age > newest[Primary].age
    BY <2>6, <2>7
  <2>9. QED
    BY <1>2, <2>8 DEF Stale, At
<1>9. Outlook(Asks, Checks - 1, Touching + 1, Bit(Mature)', 0, Bit(Back)', Bit(Stale)') + 1 - Bit(Mature)
        <= Outlook(Asks, Checks, Touching, Bit(Mature), 0, Bit(Back), Bit(Stale))
  BY <1>2, <1>7, <1>8, FutureIs, FutureIsThen, OutlookFile
<1>10. /\ Future' = Outlook(Asks, Checks - 1, Touching + 1, Bit(Mature)', 0, Bit(Back)', Bit(Stale)')
       /\ Future = Outlook(Asks, Checks, Touching, Bit(Mature), 0, Bit(Back), Bit(Stale))
  BY <1>2, <1>4, <1>5, FutureIsThen DEF Future
<1>11. Bit(Mature) \in 0 .. 1 /\ Future \in Nat /\ Future' \in Nat
  BY <1>2, FutureIs, FutureIsThen
<1>12. QED
  BY <1>6, <1>9, <1>10, <1>11

\* A stamp that is moved is as old as the check, which is as old as the result
\* or had been moving the stamp back all along.
LEMMA PaceTouch ==
  ASSUME TypeInv, TypeInv', NEW w \in Workers, TouchMonitor(w)
  PROVE  Future' <= Future
<1>1. /\ TypeOK /\ TypeOK' /\ queue' = queue /\ newest' = newest
      /\ worker[w].pc = "touch" /\ worker' = [worker EXCEPT ![w] = Idle]
      /\ queue \in Seq(Job)
  BY DEF TypeInv, TypeOK, TouchMonitor, Done, Go
<1>2. /\ monitor'.interval = monitor.interval /\ monitor'.last = Upto(worker[w].age)
  BY <1>1 DEF TouchMonitor, Stamp, TypeOK, Row
<1>3. /\ worker'[w].pc = "idle"
      /\ \A v \in Workers \ {w} : worker'[v] = worker[v]
  BY <1>1, IdleType DEF TypeOK
<1>4. Asks' = Asks /\ Checks' = Checks /\ Touching' = Touching - 1
  <2>1. Count(queue, "check") \in Nat /\ Checks \in Nat /\ Touching \in Nat
    BY <1>1, CountIs, FutureIs
  <2>2. QED
    BY <1>1, <1>3, <2>1, CountsStep DEF Asks
<1>5. Bit(Clear) = 0
  <2>1. w \in At(worker, {"enqueue", "answer", "touch"})
    BY <1>1 DEF At
  <2>2. QED
    BY <2>1 DEF Clear, Bit
<1>6. Bit(Mature)' = Bit(Mature) /\ Touching # 0
  BY <1>1, <1>2, <1>4, FutureIs, FutureIsThen DEF Mature, Bit
<1>7. Bit(Back)' <= Bit(Stale)
  <2>1. SUFFICES ASSUME Back' PROVE Stale
    BY DEF Bit
  <2>2. Upto(worker[w].age) > newest[Primary].age
    BY <1>1, <1>2, <2>1 DEF Back
  <2>3. Upto(worker[w].age) <= worker[w].age /\ Upto(worker[w].age) \in Nat
    BY <1>1, AgesAre, DispatchAssumption DEF Upto
  <2>4. worker[w].age > newest[Primary].age
    BY <1>1, <2>2, <2>3, AgesAre
  <2>5. QED
    BY <1>1, <2>4 DEF Stale, At
<1>8. Outlook(Asks, Checks, Touching - 1, Bit(Mature), Bit(Clear)', Bit(Back)', Bit(Stale)')
        <= Outlook(Asks, Checks, Touching, Bit(Mature), 0, Bit(Back), Bit(Stale))
  BY <1>1, <1>6, <1>7, FutureIs, FutureIsThen, OutlookTouch
<1>9. QED
  BY <1>1, <1>4, <1>5, <1>6, <1>8, FutureIsThen DEF Future

\* An ask with nobody at a check comes first.
LEMMA ClearWhen ==
  ASSUME TypeOK, Asks # 0, Checks + Touching = 0
  PROVE  Clear
<1>1. /\ Count(queue, "check") \in Nat /\ Touching \in Nat
      /\ Cardinality(At(worker, {"enqueue", "answer"})) \in Nat
  BY CountIs, AtIs DEF TypeOK, Touching
<1>2. /\ Count(queue, "check") = 0 /\ Cardinality(At(worker, {"touch"})) = 0
      /\ Cardinality(At(worker, {"enqueue", "answer"})) = 0
  BY <1>1 DEF Checks, Touching
<1>3. At(worker, {"touch"}) = {} /\ At(worker, {"enqueue", "answer"}) = {}
  BY <1>2, AtIs
<1>4. At(worker, {"enqueue", "answer", "touch"}) = {}
  BY <1>3 DEF At
<1>5. QED
  BY <1>2, <1>4, FirstAsksIs DEF Asks, Clear, TypeOK

\* One job more adds two at most, and nothing if there was none.
LEMMA FutureMore ==
  ASSUME TypeOK, TypeOK', Touching' = Touching,
         \/ Asks' = Asks /\ Checks' = Checks + 1
         \/ Asks' = Asks + 1 /\ Checks' = Checks,
         Mature => Mature', Clear => Clear', Back' => Back, Stale' => Stale
  PROVE  /\ Future' <= Future + 2
         /\ Asks + Checks + Touching = 0 /\ Asks' = 1 => Future' <= Future
<1>1. /\ Bit(Mature)' >= Bit(Mature) /\ Bit(Clear)' >= Bit(Clear)
      /\ Bit(Back)' <= Bit(Back) /\ Bit(Stale)' <= Bit(Stale)
  BY DEF Bit
<1>2. Asks = 1 /\ Checks + Touching = 0 => Bit(Clear)' = 1
  BY ClearWhen DEF Bit
<1>3. /\ Asks \in Nat /\ Checks \in Nat /\ Touching \in Nat
      /\ Bit(Mature) \in 0 .. 1 /\ Bit(Clear) \in 0 .. 1
      /\ Bit(Back) \in 0 .. 1 /\ Bit(Stale) \in 0 .. 1
      /\ Bit(Mature)' \in 0 .. 1 /\ Bit(Clear)' \in 0 .. 1
      /\ Bit(Back)' \in 0 .. 1 /\ Bit(Stale)' \in 0 .. 1
  BY FutureIs, FutureIsThen
<1> DEFINE Then(a, c, t) ==
             Outlook(a, c, t, Bit(Mature)', Bit(Clear)', Bit(Back)', Bit(Stale)')
<1>4. /\ Then(Asks, Checks + 1, Touching) <= Future + 2
      /\ Then(Asks + 1, Checks, Touching) <= Future + 2
      /\ Asks + Checks + Touching = 0 => Then(1, 0, 0) <= Future
  <2>1. /\ Bit(Mature)' >= Bit(Mature) /\ Bit(Clear)' >= Bit(Clear)
        /\ Bit(Back)' <= Bit(Back) /\ Bit(Stale)' <= Bit(Stale)
        /\ (Asks = 1 /\ Checks + Touching = 0 => Bit(Clear)' = 1)
    BY <1>1, <1>2
  <2>2. Then(Asks, Checks + 1, Touching) <= Future + 2
    BY ZenonT(60), <1>3, <2>1, OutlookMore DEF Future
  <2>3. Then(Asks + 1, Checks, Touching) <= Future + 2
    BY ZenonT(30), <1>3, <2>1, OutlookMore DEF Future
  <2>4. Asks + Checks + Touching = 0 => Then(1, 0, 0) <= Future
    <3>1. Then(1, 0, 0) = Bit(Back)'
      BY DEF Outlook
    <3>2. Asks + Checks + Touching = 0 => Future = Bit(Back)
      BY <1>3 DEF Future, Outlook
    <3>3. QED
      BY <2>1, <3>1, <3>2
  <2>5. QED
    BY <2>2, <2>3, <2>4
<1>5. Future' = Then(Asks', Checks', Touching')
  BY FutureIsThen
<1> HIDE DEF Then
<1>6. CASE Asks' = Asks /\ Checks' = Checks + 1
  BY <1>3, <1>4, <1>5, <1>6
<1>7. CASE Asks' = Asks + 1 /\ Checks' = Checks
  <2>1. Asks + Checks + Touching = 0 => Asks = 0 /\ Checks = 0 /\ Touching = 0
    BY <1>3
  <2>2. QED
    BY <1>3, <1>4, <1>5, <1>7, <2>1
<1>8. QED
  BY <1>6, <1>7

\* A worker that dies: its check is tried again, or is not.
LEMMA PaceCrash ==
  ASSUME TypeInv, TypeInv', NEW w \in Workers, CrashWorker(w)
  PROVE  Future' <= Future + 2
<1> DEFINE job == [Checking EXCEPT !.tries = worker[w].tries - 1]
<1>1. /\ TypeOK /\ TypeOK' /\ queue \in Seq(Job) /\ UNCHANGED rows
      /\ worker[w].pc \in {"enqueue", "answer", "touch", "write"}
      /\ worker' = [worker EXCEPT ![w] = Idle]
      /\ queue' = IF worker[w].tries > 1 THEN Append(queue, job) ELSE queue
  BY DEF TypeInv, TypeOK, CrashWorker, Done, Go, WorkerState, WorkerPCs
<1>2. job.kind = "check"
  BY DEF Checking
<1> HIDE DEF job
<1>3. /\ worker'[w].pc = "idle" /\ \A v \in Workers \ {w} : worker'[v] = worker[v]
  BY <1>1, IdleType DEF TypeOK
<1>4. (Mature' <=> Mature) /\ (Back' <=> Back) /\ (Stale' => Stale)
  <2>1. Stale' => Stale
    BY <1>1, <1>3 DEF Stale, At, rows
  <2>2. QED
    BY <1>1, <2>1 DEF Mature, Back, rows
<1>5. /\ Count(queue, "check") \in Nat /\ Count(queue, "dispatch") \in Nat
      /\ Asks' = Asks
      /\ Count(queue', "check") = Count(queue, "check") + IF worker[w].tries > 1 THEN 1 ELSE 0
  <2>1. Count(queue, "check") \in Nat /\ Count(queue, "dispatch") \in Nat
    BY <1>1, CountIs
  <2>2. CASE worker[w].tries > 1
    <3>1. /\ Count(queue', "check") = Count(queue, "check") + 1
          /\ Count(queue', "dispatch") = Count(queue, "dispatch") + 0
      BY <1>1, <1>2, <2>2, CountIs DEF Bit
    <3>2. QED
      BY <2>1, <2>2, <3>1 DEF Asks
  <2>3. CASE ~(worker[w].tries > 1)
    BY <1>1, <2>1, <2>3 DEF Asks
  <2>4. QED
    BY <2>1, <2>2, <2>3
<1>6. /\ Checks' = Checks + (IF worker[w].tries > 1 THEN 1 ELSE 0)
                          - (IF worker[w].pc \in {"enqueue", "answer"} THEN 1 ELSE 0)
      /\ Touching' = Touching - IF worker[w].pc = "touch" THEN 1 ELSE 0
  <2>1. /\ Checks' = Count(queue', "check") + (Checks - Count(queue, "check"))
                      - (IF worker[w].pc \in {"enqueue", "answer"} THEN 1 ELSE 0) + 0
        /\ Touching' = Touching - (IF worker[w].pc = "touch" THEN 1 ELSE 0) + 0
    BY <1>1, <1>3, CountsStep
  <2>2. Checks \in Nat /\ Touching \in Nat
    BY <1>1, FutureIs
  <2>3. QED
    BY <1>5, <2>1, <2>2
<1>7. CASE Checks' <= Checks
  <2>1. Future' <= Asks' + Checks' + 1
    BY <1>1, FutureIsThen
  <2>2. Asks + Checks - 1 <= Future
    BY <1>1, FutureIs, OutlookBounds DEF Future
  <2>3. QED
    BY SMTT(30), <1>1, <1>5, <1>7, <2>1, <2>2, FutureIs, FutureIsThen
<1>8. CASE worker[w].tries > 1 /\ worker[w].pc = "touch"
  <2>1. Checks' = Checks + 1 /\ Touching' = Touching - 1 /\ Touching # 0
    <3>1. Checks \in Nat /\ Touching \in Nat /\ Touching' \in Nat
      BY <1>1, FutureIs, FutureIsThen
    <3>2. /\ Checks' = Count(queue', "check") + (Checks - Count(queue, "check")) - 0 + 0
          /\ Touching' = Touching - 1 + 0
      BY <1>1, <1>3, <1>8, CountsStep
    <3>3. QED
      BY <1>5, <1>8, <3>1, <3>2
  <2>2. Bit(Clear) = 0
    <3>1. w \in At(worker, {"enqueue", "answer", "touch"})
      BY <1>8 DEF At
    <3>2. QED
      BY <3>1 DEF Clear, Bit
  <2>3. Bit(Mature)' = Bit(Mature) /\ Bit(Back)' = Bit(Back)
    BY <1>4 DEF Bit
  <2>4. /\ Bit(Clear)' \in 0 .. 1 /\ Bit(Stale)' \in 0 .. 1
        /\ Future' = Outlook(Asks, Checks + 1, Touching - 1, Bit(Mature), Bit(Clear)', Bit(Back), Bit(Stale)')
    BY <1>1, <1>5, <2>1, <2>3, FutureIsThen
  <2>5. Future = Outlook(Asks, Checks, Touching, Bit(Mature), 0, Bit(Back), Bit(Stale))
    BY <2>2 DEF Future
  <2>6. QED
    BY <1>1, <2>1, <2>4, <2>5, FutureIs, OutlookAgain
<1>9. CASE worker[w].tries > 1 /\ worker[w].pc = "write"
  <2>1. Checks' = Checks + 1 /\ Touching' = Touching
    BY <1>1, <1>6, <1>9, FutureIs
  <2>2. Clear => Clear'
    <3>1. At(worker, {"enqueue", "answer", "touch"}) = {} =>
            At(worker', {"enqueue", "answer", "touch"}) = {}
      BY <1>3 DEF At
    <3>2. FirstAsks(queue) => FirstAsks(queue')
      BY <1>1, <1>9, FirstAsksIs
    <3>3. QED
      BY <3>1, <3>2 DEF Clear
  <2>3. QED
    BY <1>1, <1>4, <1>5, <2>1, <2>2, FutureMore
<1>10. Checks' <= Checks \/ (worker[w].tries > 1 /\ worker[w].pc \in {"touch", "write"})
  BY <1>1, <1>6, FutureIs
<1>11. QED
  BY <1>7, <1>8, <1>9, <1>10

\* Results on their way are counted.
LEMMA AdriftIs ==
  ASSUME NEW cs
  PROVE  /\ Adrift(cs) \in Nat
         /\ \A cs2 : (\A r \in Remotes : cs2[r] # Nothing => cs[r] # Nothing)
              => Adrift(cs2) \in Nat /\ Adrift(cs2) <= Adrift(cs)
         /\ \A cs2 : \A r \in Remotes : (\A q \in Remotes \ {r} : cs2[q] = cs[q])
              => /\ cs[r] = Nothing => Adrift(cs2) <= Adrift(cs) + 1
                 /\ cs[r] # Nothing /\ cs2[r] = Nothing => Adrift(cs2) = Adrift(cs) - 1
<1> DEFINE S(c) == {r \in Remotes : c[r] # Nothing}
<1>1. \A c : IsFiniteSet(S(c)) /\ Cardinality(S(c)) \in Nat /\ Adrift(c) = Cardinality(S(c))
  <2>1. IsFiniteSet(Remotes)
    BY DispatchAssumption
  <2>2. QED
    BY <2>1, FS_Subset, FS_CardinalityType DEF Adrift
<1>2. ASSUME NEW cs2, \A r \in Remotes : cs2[r] # Nothing => cs[r] # Nothing
      PROVE  Adrift(cs2) \in Nat /\ Adrift(cs2) <= Adrift(cs)
  <2>1. S(cs2) \in SUBSET S(cs)
    BY <1>2
  <2> HIDE DEF S
  <2>2. QED
    BY <1>1, <2>1, FS_Subset
<1>3. ASSUME NEW cs2, NEW r \in Remotes, \A q \in Remotes \ {r} : cs2[q] = cs[q]
      PROVE  /\ cs[r] = Nothing => Adrift(cs2) <= Adrift(cs) + 1
             /\ cs[r] # Nothing /\ cs2[r] = Nothing => Adrift(cs2) = Adrift(cs) - 1
  <2>1. /\ S(cs2) \in SUBSET (S(cs) \cup {r})
        /\ r \in S(cs) <=> cs[r] # Nothing
        /\ cs2[r] = Nothing => S(cs2) = S(cs) \ {r}
    BY <1>3
  <2> HIDE DEF S
  <2>2. /\ IsFiniteSet(S(cs) \cup {r})
        /\ Cardinality(S(cs) \cup {r}) = IF r \in S(cs) THEN Cardinality(S(cs)) ELSE Cardinality(S(cs)) + 1
        /\ Cardinality(S(cs) \ {r}) = IF r \in S(cs) THEN Cardinality(S(cs)) - 1 ELSE Cardinality(S(cs))
    BY <1>1, FS_AddElement, FS_RemoveElement
  <2>3. Cardinality(S(cs2)) <= Cardinality(S(cs) \cup {r})
    BY <2>1, <2>2, FS_Subset
  <2>4. QED
    BY <1>1, <2>1, <2>2, <2>3
<1>4. QED
  BY <1>1, <1>2, <1>3

\* A remote region moves the stamp to a result of its own: back, only with one
\* that was on its way.
LEMMA PaceProbe ==
  ASSUME PaceInv, TypeInv',
         NEW r \in Remotes, ProbeTarget(r) \/ ProbeSlowly(r) \/ IngestLate(r)
  PROVE  PaceInv'
<1>1. /\ TypeInv /\ TypeOK /\ TypeOK' /\ r \in Regions /\ Primary \in Regions /\ r # Primary
      /\ early + Future + Adrift(carried) <= Allowance
  BY DispatchAssumption DEF PaceInv, TypeInv, Regions
<1>2. /\ queue' = queue /\ worker' = worker /\ early' = early
      /\ monitor'.interval = monitor.interval
      /\ newest'[Primary] = newest[Primary]
  <2>1. queue' = queue /\ worker' = worker /\ early' = early
    BY DEF ProbeTarget, ProbeSlowly, IngestLate
  <2>2. monitor'.interval = monitor.interval
    BY <1>1 DEF ProbeTarget, ProbeSlowly, IngestLate, rows, TypeOK, Row
  <2>3. newest'[Primary] = newest[Primary]
    BY <1>1 DEF ProbeTarget, ProbeSlowly, IngestLate, Recorded, rows, TypeOK
  <2>4. QED
    BY <2>1, <2>2, <2>3
<1>3. /\ Asks' = Asks /\ Checks' = Checks /\ Touching' = Touching
      /\ (Mature' <=> Mature) /\ (Clear' <=> Clear) /\ (Stale' <=> Stale)
  BY <1>2 DEF Asks, Checks, Touching, Mature, Clear, Stale, At
<1>4. /\ early \in Nat /\ Future \in Nat /\ Future' \in Nat
      /\ Adrift(carried) \in Nat /\ Adrift(carried') \in Nat /\ Allowance \in Int
  <2>1. early \in Nat /\ Future \in Nat /\ Future' \in Nat
    BY <1>1, FutureIs, FutureIsThen DEF TypeOK
  <2>2. Adrift(carried) \in Nat /\ Adrift(carried') \in Nat
    BY AdriftIs
  <2>3. \A e \in Events : Used(e) \in Int
    BY <1>1, DispatchAssumption DEF TypeOK, Used
  <2>4. QED
    BY <2>1, <2>2, <2>3 DEF Allowance, Events, Faults
<1>5. \A e \in Events : left'[e] = IF e = "late" /\ ProbeSlowly(r) THEN left[e] - 1 ELSE left[e]
  BY <1>1, ProbeType
<1>6. carried \in [Remotes -> [age: Ages, status: Verdicts]]
  BY <1>1 DEF TypeOK
<1>7. CASE ProbeTarget(r) /\ ~ProbeSlowly(r)
  <2>1. carried' = carried /\ monitor'.last = 0
    BY <1>1, <1>7 DEF ProbeTarget, world, TypeOK, Row
  <2>2. Back' => Back
    BY <1>1, <1>2, <2>1, AgesAre DEF Back
  <2>3. Future' <= Future
    BY <1>1, <1>3, <2>2, FutureKept
  <2>4. Allowance' = Allowance
    BY <1>5, <1>7 DEF Allowance, Used, Events, Faults
  <2>5. QED
    BY <1>1, <1>2, <1>4, <2>1, <2>3, <2>4 DEF PaceInv
<1>8. CASE ProbeSlowly(r)
  <2>1. /\ monitor' = monitor /\ newest' = newest
        /\ carried[r] = Nothing /\ \A q \in Remotes \ {r} : carried'[q] = carried[q]
    BY <1>6, <1>8 DEF ProbeSlowly, Fires, rows
  <2>2. Back' => Back
    BY <1>3, <2>1 DEF Back
  <2>3. Future' <= Future
    BY <1>1, <1>3, <2>2, FutureKept
  <2>4. Adrift(carried') <= Adrift(carried) + 1
    BY <2>1, AdriftIs
  <2>5. Allowance' = Allowance + 1
    <3>1. \A e \in Events : left'[e] = IF e = "late" THEN left[e] - 1 ELSE left[e]
      BY <1>5, <1>8
    <3>2. QED
      BY <1>1, <3>1, AllowanceIs
  <2>6. QED
    BY <1>1, <1>2, <1>4, <2>3, <2>4, <2>5 DEF PaceInv
<1>9. CASE IngestLate(r) /\ ~ProbeSlowly(r)
  <2>1. /\ carried[r] # Nothing /\ carried'[r] = Nothing
        /\ \A q \in Remotes \ {r} : carried'[q] = carried[q]
    BY <1>6, <1>9 DEF IngestLate
  <2>2. Adrift(carried') = Adrift(carried) - 1
    BY <2>1, AdriftIs
  <2>3. Future' <= Future + 1
    <3>1. /\ Bit(Mature)' = Bit(Mature) /\ Bit(Clear)' = Bit(Clear) /\ Bit(Stale)' = Bit(Stale)
      BY <1>3 DEF Bit
    <3>2. Future' = Outlook(Asks, Checks, Touching, Bit(Mature), Bit(Clear), Bit(Back)', Bit(Stale))
      BY <1>1, <1>3, <3>1, FutureIsThen
    <3>3. Bit(Back)' \in 0 .. 1
      BY <1>1, FutureIsThen
    <3>4. QED
      BY <1>1, <3>2, <3>3, FutureIs, OutlookMoves DEF Future
  <2>4. Allowance' = Allowance
    BY <1>5, <1>9 DEF Allowance, Used, Events, Faults
  <2>5. QED
    BY <1>1, <1>2, <1>4, <2>2, <2>3, <2>4 DEF PaceInv
<1>10. QED
  BY <1>7, <1>8, <1>9

\* Who asks for a check adds a job, who edits the interval may make a check
\* come too early that was in time, and the target changes nothing of it.
LEMMA PacePeople ==
  ASSUME PaceInv, TypeInv',
         \/ RunCheckNow
         \/ \E enabled \in BOOLEAN, interval \in Intervals : EditMonitor(enabled, interval)
         \/ \E seers \in (SUBSET Regions) \ {{}}, status \in Sights : TargetChanges(seers, status)
  PROVE  PaceInv'
<1>1. /\ TypeInv /\ TypeOK /\ TypeOK' /\ queue \in Seq(Job)
      /\ early + Future + Adrift(carried) <= Allowance
      /\ left \in [Events \cup {"any"} -> Nat]
  BY DEF PaceInv, TypeInv, TypeOK
<1>2. /\ newest' = newest /\ worker' = worker /\ early' = early /\ carried' = carried
      /\ monitor'.last = monitor.last
  <2>1. newest' = newest /\ worker' = worker /\ early' = early /\ carried' = carried
    BY DEF RunCheckNow, EditMonitor, TargetChanges, rows, world
  <2>2. monitor'.last = monitor.last
    BY <1>1 DEF RunCheckNow, EditMonitor, TargetChanges, rows, TypeOK, Row
  <2>3. QED
    BY <2>1, <2>2
<1>3. /\ early \in Nat /\ Future \in Nat /\ Future' \in Nat
      /\ Adrift(carried) \in Nat /\ Allowance \in Int
  <2>1. early \in Nat /\ Future \in Nat /\ Future' \in Nat
    BY <1>1, FutureIs, FutureIsThen DEF TypeOK
  <2>2. \A e \in Events : Used(e) \in Int
    BY SMTT(30), <1>1, DispatchAssumption DEF TypeOK, Used
  <2>3. QED
    BY <2>1, <2>2, AdriftIs DEF Allowance, Events, Faults
<1>4. ASSUME NEW e \in Events, Spend({e})
      PROVE  Allowance' = Allowance + IF e \in {"manual", "crash", "behind"} THEN 2
                                      ELSE IF e \in {"edit", "late"} THEN 1 ELSE 0
  <2>1. {e} \in SUBSET Events /\ IsFiniteSet({e})
    BY FS_Singleton
  <2>2. \A f \in Events : left'[f] = IF f \in {e} THEN left[f] - 1 ELSE left[f]
    BY <1>1, <1>4, <2>1, Spent
  <2>3. \A f \in Events : left'[f] = IF f = e THEN left[f] - 1 ELSE left[f]
    BY <2>2
  <2>4. QED
    BY <1>1, <2>3, AllowanceIs
<1>5. "manual" \in Events /\ "edit" \in Events /\ "site" \in Events
  BY DEF Events, Faults
<1>6. Stale' <=> Stale
  BY <1>2 DEF Stale, At
<1>7. CASE RunCheckNow
  <2>1. monitor' = monitor /\ queue' = Append(queue, Checking) /\ Spend({"manual"})
    BY <1>7 DEF RunCheckNow, rows
  <2>2. Allowance' = Allowance + 2
    BY <1>4, <1>5, <2>1
  <2>3. (Mature' <=> Mature) /\ (Back' <=> Back) /\ Touching' = Touching
    BY <1>2, <2>1 DEF Mature, Back, Touching, At
  <2>4. Asks' = Asks /\ Checks' = Checks + 1
    <3>1. /\ Count(queue', "check") = Count(queue, "check") + 1
          /\ Count(queue', "dispatch") = Count(queue, "dispatch") + 0
          /\ Count(queue, "check") \in Nat /\ Count(queue, "dispatch") \in Nat
      BY <1>1, <2>1, CountIs DEF Checking, Bit
    <3>2. Cardinality(At(worker, {"enqueue", "answer"})) \in Nat
      BY AtIs
    <3>3. Asks' = Count(queue', "dispatch") /\ Asks = Count(queue, "dispatch")
      BY DEF Asks
    <3>4. /\ Checks' = Count(queue', "check") + Cardinality(At(worker, {"enqueue", "answer"}))
          /\ Checks = Count(queue, "check") + Cardinality(At(worker, {"enqueue", "answer"}))
      BY <1>2 DEF Checks
    <3>5. QED
      BY <3>1, <3>2, <3>3, <3>4
  <2>5. Clear => Clear'
    BY <1>1, <1>2, <2>1, FirstAsksIs DEF Clear, At
  <2>6. Future' <= Future + 2
    BY <1>1, <1>6, <2>3, <2>4, <2>5, FutureMore
  <2>7. QED
    BY <1>1, <1>2, <1>3, <2>2, <2>6 DEF PaceInv
<1>8. ASSUME NEW enabled \in BOOLEAN, NEW interval \in Intervals, EditMonitor(enabled, interval)
      PROVE  PaceInv'
  <2>1. queue' = queue /\ Spend({"edit"})
    BY <1>8 DEF EditMonitor
  <2>2. Allowance' = Allowance + 1
    BY <1>4, <1>5, <2>1
  <2>3. /\ Asks' = Asks /\ Checks' = Checks /\ Touching' = Touching
        /\ Bit(Clear)' = Bit(Clear) /\ Bit(Stale)' = Bit(Stale)
    BY <1>2, <1>6, <2>1 DEF Asks, Checks, Touching, Clear, At, Bit
  <2>4. Future' <= Future + 1
    <3>1. /\ Bit(Back)' \in 0 .. 1 /\ Bit(Mature)' \in 0 .. 1
          /\ Future' = Outlook(Asks, Checks, Touching, Bit(Mature)', Bit(Clear), Bit(Back)', Bit(Stale))
      BY <1>1, <2>3, FutureIsThen
    <3>2. QED
      BY <1>1, <3>1, FutureIs, OutlookMoves DEF Future
  <2>5. early' + Future' + Adrift(carried') <= Allowance'
    BY <1>1, <1>2, <1>3, <2>2, <2>4
  <2>6. QED
    BY <2>5 DEF PaceInv
<1>9. ASSUME NEW seers \in (SUBSET Regions) \ {{}}, NEW status \in Sights, TargetChanges(seers, status)
      PROVE  PaceInv'
  <2>1. queue' = queue /\ monitor' = monitor /\ Spend({"site"})
    BY <1>9 DEF TargetChanges, rows
  <2>2. Allowance' = Allowance + 0
    BY <1>4, <1>5, <2>1
  <2>3. Future' = Future
    BY <1>2, <2>1 DEF Future, Asks, Checks, Touching, Clear, At, Mature, Back, Stale
  <2>4. QED
    BY <1>1, <1>2, <1>3, <2>2, <2>3 DEF PaceInv
<1>10. QED
  BY <1>7, <1>8, <1>9

\* Time ages the stamp, the result and the checks alike, up to where they stop
\* being told apart.
LEMMA AgeingKeeps ==
  ASSUME TypeInv, TypeInv', Ageing
  PROVE  (Mature => Mature') /\ (Back' => Back) /\ (Stale' => Stale)
<1>1. /\ TypeOK /\ TypeOK' /\ Primary \in Regions
      /\ Old \in Nat /\ Overdue \in Nat /\ monitor.interval \in Nat /\ monitor.interval < Old
  BY DispatchAssumption DEF TypeInv, TypeOK, Row, Regions
<1>2. /\ newest'[Primary].age = Older(newest[Primary].age, Old)
      /\ monitor'.interval = monitor.interval
      /\ \A w \in Workers :
           /\ worker'[w].pc = worker[w].pc
           /\ worker[w].pc \in {"answer", "touch"} => worker'[w].age = Older(worker[w].age, Old)
  BY <1>1, AgeingIs DEF TypeOK, Row
<1>3. /\ newest[Primary].age \in 0 .. Old /\ monitor.last \in 0 .. Overdue
      /\ \A w \in Workers : worker[w].age \in 0 .. Old
  BY <1>1 DEF TypeOK, Row, WorkerState, Ages
<1>4. monitor'.last = Older(monitor.last, Overdue)
  BY <1>1 DEF Ageing, TypeOK, Row
<1>5. /\ \A a \in 0 .. Old : Older(a, Old) \in 0 .. Old /\ Older(a, Old) >= a
      /\ \A a \in 0 .. Old : Older(a, Old) < Old => Older(a, Old) = a + 1
      /\ \A a \in 0 .. Old, b \in 0 .. Old : a <= b => Older(a, Old) <= Older(b, Old)
      /\ \A a \in 0 .. Overdue : Older(a, Overdue) \in Nat /\ Older(a, Overdue) <= a + 1
  BY <1>1 DEF Older
<1>6. Mature => Mature'
  <2>1. newest'[Primary].age \in 0 .. Old /\ newest'[Primary].age >= newest[Primary].age
    BY <1>2, <1>3, <1>5
  <2>2. QED
    BY <1>1, <1>2, <1>3, <2>1 DEF Mature
<1>7. Back' => Back
  <2>1. SUFFICES ASSUME Back' PROVE Back
    OBVIOUS
  <2>2. ~Mature
    BY <1>6, <2>1 DEF Back
  <2>3. /\ newest'[Primary].age < monitor.interval /\ monitor'.last > newest'[Primary].age
        /\ newest'[Primary].age \in 0 .. Old
    <3>1. newest'[Primary].age \in 0 .. Old
      BY <1>2, <1>3, <1>5
    <3>2. ~(newest'[Primary].age >= monitor.interval)
      BY <1>2, <2>1 DEF Back, Mature
    <3>3. QED
      BY <1>1, <2>1, <3>1, <3>2 DEF Back
  <2>4. newest'[Primary].age = newest[Primary].age + 1
    BY <1>1, <1>2, <1>3, <1>5, <2>3
  <2>5. monitor'.last <= monitor.last + 1 /\ monitor'.last \in Nat
    BY <1>3, <1>4, <1>5
  <2>6. monitor.last > newest[Primary].age
    BY <1>3, <2>3, <2>4, <2>5
  <2>7. QED
    BY <2>2, <2>6 DEF Back
<1>8. Stale' => Stale
  <2>1. SUFFICES ASSUME Stale' PROVE Stale
    OBVIOUS
  <2>2. PICK w \in Workers : worker'[w].pc \in {"answer", "touch"} /\ worker'[w].age > newest'[Primary].age
    BY <2>1 DEF Stale, At
  <2>3. worker[w].pc \in {"answer", "touch"} /\ Older(worker[w].age, Old) > Older(newest[Primary].age, Old)
    BY <1>2, <2>2
  <2>4. worker[w].age > newest[Primary].age
    <3>1. /\ Older(worker[w].age, Old) \in Nat /\ Older(newest[Primary].age, Old) \in Nat
          /\ worker[w].age <= newest[Primary].age =>
               Older(worker[w].age, Old) <= Older(newest[Primary].age, Old)
      BY <1>3, <1>5
    <3>2. QED
      BY <1>3, <2>3, <3>1
  <2>5. QED
    BY <2>3, <2>4 DEF Stale, At
<1>9. QED
  BY <1>6, <1>7, <1>8

\* A minute adds a dispatch: the only job there is, or one that is paid for.
LEMMA PaceTime ==
  ASSUME PaceInv, TypeInv', HalfMinute \/ Tick
  PROVE  PaceInv'
<1>1. /\ TypeInv /\ TypeOK /\ TypeOK' /\ Ageing /\ queue \in Seq(Job)
      /\ early + Future + Adrift(carried) <= Allowance
  BY DEF PaceInv, TypeInv, TypeOK, HalfMinute, Tick
<1>2. (Mature => Mature') /\ (Back' => Back) /\ (Stale' => Stale)
  BY <1>1, AgeingKeeps
<1>3. early' = early /\ \A w \in Workers : worker'[w].pc = worker[w].pc
  BY <1>1, AgeingIs
<1>4. /\ \A pcs : At(worker', pcs) = At(worker, pcs)
      /\ Touching' = Touching
  BY <1>3 DEF At, Touching
<1>5. Adrift(carried') \in Nat /\ Adrift(carried') <= Adrift(carried)
  <2>1. \A r \in Remotes : carried'[r] # Nothing => carried[r] # Nothing
    BY <1>1 DEF Ageing
  <2>2. QED
    BY <2>1, AdriftIs
<1>6. /\ early \in Nat /\ Future \in Nat /\ Future' \in Nat
      /\ Adrift(carried) \in Nat /\ Allowance \in Int
  <2>1. early \in Nat /\ Future \in Nat /\ Future' \in Nat
    BY <1>1, FutureIs, FutureIsThen DEF TypeOK
  <2>2. \A e \in Events : Used(e) \in Int
    BY SMTT(30), <1>1, DispatchAssumption DEF TypeOK, Used
  <2>3. QED
    BY <2>1, <2>2, AdriftIs DEF Allowance, Events, Faults
<1>7. CASE HalfMinute
  <2>1. queue' = queue /\ left' = left
    BY <1>7 DEF HalfMinute
  <2>2. Asks' = Asks /\ Checks' = Checks /\ (Clear => Clear') /\ Allowance' = Allowance
    BY <1>4, <2>1 DEF Asks, Checks, Clear, Allowance, Used
  <2>3. Future' <= Future
    BY <1>1, <1>2, <1>4, <2>2, FutureKept
  <2>4. QED
    BY <1>1, <1>3, <1>5, <1>6, <2>2, <2>3 DEF PaceInv
<1>8. CASE Tick
  <2> DEFINE q == Append(queue, Dispatching)
  <2>1. queue' = Append(q, Evaluating) /\ q \in Seq(Job)
    BY <1>1, <1>8, MinuteIs, JobTypes, QueueType DEF Tick
  <2>2. /\ Count(q, "dispatch") = Count(queue, "dispatch") + 1
        /\ Count(q, "check") = Count(queue, "check") + 0
    BY <1>1, CountIs DEF Dispatching, Bit
  <2>3. FirstAsks(queue) => FirstAsks(q)
    BY <1>1, FirstAsksIs
  <2> HIDE DEF q
  <2>4. /\ Count(queue', "dispatch") = Count(q, "dispatch") + 0
        /\ Count(queue', "check") = Count(q, "check") + 0
    BY <2>1, CountIs DEF Evaluating, Bit
  <2>5. Asks' = Asks + 1 /\ Checks' = Checks
    <3>1. /\ Count(queue, "check") \in Nat /\ Count(queue, "dispatch") \in Nat
          /\ Cardinality(At(worker, {"enqueue", "answer"})) \in Nat
      BY <1>1, CountIs, AtIs
    <3>2. /\ Asks = Count(queue, "dispatch") /\ Asks' = Count(queue', "dispatch")
          /\ Checks = Count(queue, "check") + Cardinality(At(worker, {"enqueue", "answer"}))
          /\ Checks' = Count(queue', "check") + Cardinality(At(worker', {"enqueue", "answer"}))
      BY DEF Asks, Checks
    <3>3. Cardinality(At(worker', {"enqueue", "answer"})) = Cardinality(At(worker, {"enqueue", "answer"}))
      BY <1>4
    <3>4. QED
      BY <2>2, <2>4, <3>1, <3>2, <3>3
  <2>6. Clear => Clear'
    <3>1. FirstAsks(queue) => FirstAsks(queue')
      BY <2>1, <2>3, FirstAsksIs
    <3>2. QED
      BY <1>4, <3>1 DEF Clear
  <2>7. /\ Future' <= Future + 2
        /\ Asks + Checks + Touching = 0 /\ Asks' = 1 => Future' <= Future
    BY <1>1, <1>2, <1>4, <2>5, <2>6, FutureMore
  <2>8. \A e \in Events : left'[e] = IF Busy /\ e = "behind" THEN left[e] - 1 ELSE left[e]
    BY <1>1, <1>8, TimeType
  <2>9. CASE Busy
    <3>1. \A e \in Events : left'[e] = IF e = "behind" THEN left[e] - 1 ELSE left[e]
      BY <2>8, <2>9
    <3>2. Allowance' = Allowance + 2
      BY <1>1, <3>1, AllowanceIs
    <3>3. QED
      BY <1>1, <1>3, <1>5, <1>6, <2>7, <3>2 DEF PaceInv
  <2>10. CASE ~Busy
    <3>1. Allowance' = Allowance
      BY <2>8, <2>10 DEF Allowance, Used, Events, Faults
    <3>2. Asks = 0 /\ Checks = 0 /\ Touching = 0
      <4>1. queue = <<>> /\ \A w \in Workers : worker[w].pc = "idle"
        BY <2>10 DEF Busy
      <4>2. Count(queue, "dispatch") = 0 /\ Count(queue, "check") = 0
        <5>1. \A kind : {i \in DOMAIN queue : queue[i].kind = kind} = {}
          BY <4>1
        <5>2. QED
          BY <5>1, FS_EmptySet DEF Count
      <4>3. At(worker, {"enqueue", "answer"}) = {} /\ At(worker, {"touch"}) = {}
        BY <4>1 DEF At
      <4>4. QED
        BY <4>2, <4>3, FS_EmptySet DEF Asks, Checks, Touching
    <3>3. Future' <= Future
      BY <2>5, <2>7, <3>2
    <3>4. QED
      BY <1>1, <1>3, <1>5, <1>6, <3>1, <3>3 DEF PaceInv
  <2>11. QED
    BY <2>9, <2>10
<1>9. QED
  BY <1>7, <1>8

\* What a sum of integers keeps of an order between its parts.
LEMMA NoMoreOfASum == \A e, f, g \in Int : g <= f => e + g <= e + f
OBVIOUS

\* The same of its first part.
LEMMA LessOfASum == \A e, f, g \in Int : g <= f => g + e <= f + e
OBVIOUS

\* At most is transitive.
LEMMA AtMostIsTransitive == \A e, f, g \in Int : e <= f /\ f <= g => e <= g
OBVIOUS

\* What a worker does is within the allowance, and a dead worker is paid for.
LEMMA PaceWork ==
  ASSUME PaceInv, TypeInv', NEW w \in Workers, Work(w) \/ CrashWorker(w)
  PROVE  PaceInv'
<1>1. /\ TypeInv /\ TypeOK /\ TypeOK' /\ early \in Nat
      /\ early + Future + Adrift(carried) <= Allowance
  BY DEF PaceInv, TypeInv, TypeOK
<1>2. carried' = carried
  BY DEF Work, StartDispatch, EnqueueCheck, StartCheck, FileAnswer, TouchMonitor,
         StartEvaluate, WriteVerdict, CrashWorker, world
<1>3. /\ Future \in Nat /\ Future' \in Nat /\ Adrift(carried) \in Nat
      /\ Allowance \in Int /\ early' \in Nat
  <2>1. early' \in Nat /\ Future \in Nat /\ Future' \in Nat
    BY <1>1, FutureIs, FutureIsThen DEF TypeOK
  <2>2. \A e \in Events : Used(e) \in Int
    BY <1>1, DispatchAssumption DEF TypeOK, Used
  <2>3. QED
    BY <2>1, <2>2, AdriftIs DEF Allowance, Events, Faults
<1>4. CASE Work(w)
  <2>1. Allowance' = Allowance
    BY <1>1, <1>4, WorkIs DEF Allowance, Used
  <2>2. early' + Future' <= early + Future
    <3>1. ~FileAnswer(w) => early' = early
      BY <1>4 DEF Work, StartDispatch, EnqueueCheck, StartCheck, TouchMonitor,
                  StartEvaluate, WriteVerdict
    <3>2. ~FileAnswer(w) => Future' <= Future
      BY <1>1, <1>4, PaceDispatch, PaceQuiet, PaceTouch DEF Work
    <3>3. CASE FileAnswer(w)
      BY <1>1, <3>3, PaceFile
    <3>4. CASE ~FileAnswer(w)
      <4>1. early' = early /\ Future' <= Future
        BY <3>1, <3>2, <3>4
      <4>2. early \in Int /\ Future \in Int /\ Future' \in Int
        BY <1>1, <1>3
      <4>3. early + Future' <= early + Future
        BY <4>1, <4>2, NoMoreOfASum, Zenon
      <4>4. QED
        BY <4>1, <4>3, Zenon
    <3>5. QED
      BY <3>3, <3>4
  <2>3. early' + Future' + Adrift(carried) <= early + Future + Adrift(carried)
    <3>1. /\ early' + Future' \in Int /\ early + Future \in Int
          /\ Adrift(carried) \in Int
      BY <1>1, <1>3
    <3>2. QED
      BY <2>2, <3>1, LessOfASum, Zenon
  <2>4. early' + Future' + Adrift(carried) <= Allowance
    <3>1. /\ early' + Future' + Adrift(carried) \in Int
          /\ early + Future + Adrift(carried) \in Int /\ Allowance \in Int
      BY <1>1, <1>3
    <3>2. QED
      BY <1>1, <2>3, <3>1, AtMostIsTransitive, Zenon
  <2>5. QED
    BY <1>2, <2>1, <2>4 DEF PaceInv
<1>5. CASE CrashWorker(w)
  <2>1. early' = early
    BY <1>5 DEF CrashWorker
  <2>2. \A e \in Events : left'[e] = IF e = "crash" THEN left[e] - 1 ELSE left[e]
    BY <1>1, <1>5, CrashType
  <2>3. Allowance' = Allowance + 2
    BY <1>1, <2>2, AllowanceIs
  <2>4. Future' <= Future + 2
    BY <1>1, <1>5, PaceCrash
  <2>5. QED
    BY <1>1, <1>2, <1>3, <2>1, <2>3, <2>4 DEF PaceInv
<1>6. QED
  BY <1>4, <1>5

\* At first there is no job, no look, and no result newer than the stamp that
\* is not due.
LEMMA InitPace ==
  ASSUME Init
  PROVE  PaceInv
<1>1. TypeInv /\ TypeOK
  BY InitType DEF TypeInv
<1>2. Asks = 0 /\ Checks = 0 /\ Touching = 0
  <2>1. queue = <<>> /\ \A w \in Workers : worker[w].pc = "idle"
    BY IdleType DEF Init
  <2>2. \A kind : {i \in DOMAIN queue : queue[i].kind = kind} = {}
    BY <2>1
  <2>3. Count(queue, "dispatch") = 0 /\ Count(queue, "check") = 0
    BY <2>2, FS_EmptySet DEF Count
  <2>4. At(worker, {"enqueue", "answer"}) = {} /\ At(worker, {"touch"}) = {}
    BY <2>1 DEF At
  <2>5. QED
    BY <2>3, <2>4, FS_EmptySet DEF Asks, Checks, Touching
<1>3. Bit(Back) = 0
  <2>1. newest[Primary].age = Old /\ monitor.interval \in Intervals
    BY DispatchAssumption DEF Init, Regions
  <2>2. Mature
    <3>1. Old \in Nat /\ \A i \in Intervals : i \in Nat /\ i < Old
      BY DispatchAssumption
    <3>2. QED
      BY <2>1, <3>1 DEF Mature
  <2>3. QED
    BY <2>2 DEF Back, Bit
<1>4. Future = 0
  BY <1>2, <1>3 DEF Future, Outlook
<1>5. Adrift(carried) = 0
  <2>1. {r \in Remotes : carried[r] # Nothing} = {}
    BY DEF Init
  <2>2. QED
    BY <2>1, FS_EmptySet DEF Adrift
<1>6. early = 0 /\ Allowance = 0
  <2>1. early = 0 /\ left = Budget
    BY DEF Init
  <2>2. \A e \in Events : Budget[e] \in Nat
    BY DispatchAssumption
  <2>3. \A e \in Events : Used(e) = 0
    BY <2>1, <2>2 DEF Used
  <2>4. QED
    BY <2>1, <2>3 DEF Allowance, Events, Faults
<1>7. QED
  BY <1>1, <1>4, <1>5, <1>6 DEF PaceInv

\* The primary looks at a target before its interval is over no more often than
\* the manual checks, dead workers and late minutes (twice each), edits and late
\* posts account for: for every number of workers and however they interleave.
THEOREM InPace == Spec => []PaceKept
<1>1. Init => PaceInv
  BY InitPace
<1>2. PaceInv /\ [Next]_vars /\ TypeInv' => PaceInv'
  <2> SUFFICES ASSUME PaceInv, [Next]_vars, TypeInv' PROVE PaceInv'
    OBVIOUS
  <2>1. CASE \E w \in Workers : Work(w) \/ CrashWorker(w)
    BY <2>1, PaceWork
  <2>2. CASE \E r \in Remotes : ProbeTarget(r) \/ ProbeSlowly(r) \/ IngestLate(r)
    BY <2>2, PaceProbe
  <2>3. CASE \/ RunCheckNow
             \/ \E enabled \in BOOLEAN, interval \in Intervals : EditMonitor(enabled, interval)
             \/ \E seers \in (SUBSET Regions) \ {{}}, status \in Sights : TargetChanges(seers, status)
    BY <2>3, PacePeople
  <2>4. CASE HalfMinute \/ Tick
    BY <2>4, PaceTime
  <2>5. CASE UNCHANGED vars
    <3>1. /\ queue' = queue /\ worker' = worker /\ newest' = newest /\ monitor' = monitor
          /\ carried' = carried /\ left' = left /\ early' = early
      BY <2>5 DEF vars
    <3>2. Asks' = Asks /\ Checks' = Checks /\ Touching' = Touching /\ (Clear <=> Clear')
      BY <3>1 DEF Asks, Checks, Touching, Clear, At
    <3>3. (Mature <=> Mature') /\ (Back <=> Back') /\ (Stale <=> Stale')
      BY <3>1 DEF Mature, Back, Stale, At
    <3>4. Future' = Future
      BY <3>2, <3>3 DEF Future, Bit
    <3>5. Allowance' = Allowance
      BY <3>1 DEF Allowance, Used
    <3>6. QED
      BY <3>1, <3>4, <3>5 DEF PaceInv
  <2>6. QED
    BY <2>1, <2>2, <2>3, <2>4, <2>5 DEF Next
<1>3. PaceInv => PaceKept
  <2> SUFFICES ASSUME PaceInv PROVE PaceKept
    OBVIOUS
  <2>1. /\ early \in Nat /\ Future \in Nat /\ Adrift(carried) \in Nat
        /\ early + Future + Adrift(carried) <= Allowance
    BY FutureIs, AdriftIs DEF PaceInv, TypeInv, TypeOK
  <2>2. Allowance \in Int
    <3>1. \A e \in Events : Used(e) \in Int
      BY DispatchAssumption DEF PaceInv, TypeInv, TypeOK, Used
    <3>2. QED
      BY <3>1 DEF Allowance, Events, Faults
  <2>3. early <= Allowance
    BY <2>1, <2>2
  <2>4. QED
    BY <2>3 DEF PaceKept, Allowance
<1>4. QED
  BY <1>1, <1>2, <1>3, TypesThroughout, PTL DEF Spec


(***************************************************************************)
(* The status follows.  What is counted is the time since the last change, *)
(* less what a fresh result lasts and what each fault costs: only verdicts *)
(* reached before it is positive may still disagree with the target.       *)
(***************************************************************************)
\* Minutes that began before the last one's jobs were done, and dead workers.
Lost == Used("behind") + Used("crash")

\* A post that comes late may put the next look off by as much as a result may.
Deferral == Used("late") * (Reach + 5)
Net == calm - Freshness - 2 * Lost - Deferral

\* Every region sees the target in one state; the row says so; and what is
\* about to be written says so too.
Sight == target[Primary]
Steady == monitor.enabled /\ \A r \in Regions : target[r] = Sight
Followed == monitor.status = Sight /\ (Sight = "up" => monitor.failures = 0)
Agreed == \A w \in Workers : worker[w].pc = "write" => worker[w].next = Sight
Firm == Followed /\ calm > Freshness /\ Agreed

\* A verdict that is written whatever the row says by then.
Heals(st) == st.next # st.prev \/ st.next # "up" \/ st.failures # 0
Asked(q) == \E i \in DOMAIN q : q[i].kind = "evaluate"
Coming ==
  Asked(queue) \/ \E w \in Workers : worker[w].pc = "write" /\ Heals(worker[w])

Fresher(n) == \E r \in Regions : newest[r].age <= n

\* Older verdicts may still be written.
Unsettled == Net <= half

\* A result was filed that the next evaluation finds, if none has yet.
Recent ==
  /\ Fresher(2 * Lost + half + 2 * Bit(Coming))
  /\ Net < Reach + half + 2 + 2 * Bit(Coming)

\* A look is due, or will be; what a check held was filed before.
Waiting ==
  /\ monitor.last >= Reach \/ Net < monitor.last
  /\ \A w \in Workers : worker[w].pc # "touch"
  /\ Net < Reach + half + 2 * Bit(Pending)

\* A late post does not put off what is due.
LateInv ==
  \A r \in Remotes :
    carried[r] # Nothing => carried[r].age >= Reach \/ Net < carried[r].age

Unfirm ==
  /\ Agreed \/ Unsettled
  /\ LateInv
  /\ Unsettled \/ Recent \/ Waiting

FollowInv == Steady /\ Grace < Freshness => Firm \/ Unfirm

\* What was seen since the last change is what is seen.
TruthInv ==
  /\ \A r \in Regions :
       newest[r].age < calm /\ newest[r].age < Old => newest[r].status = target[r]
  /\ \A r \in Remotes :
       carried[r] # Nothing /\ carried[r].age < calm /\ carried[r].age < Old
         => carried[r].status = target[r]

\* The numbers the invariant speaks of.
Numbers ==
  /\ Reach \in Nat \ {0} /\ Reach <= Overdue /\ Reach <= Old
  /\ Lost \in Nat /\ Deferral \in Nat /\ Net \in Int
  /\ calm \in Nat /\ Freshness \in Nat /\ half \in 0 .. 1 /\ monitor.last \in Nat
  /\ Overdue \in Nat /\ Old \in Nat
  /\ Grace = 2 + 2 * Lost /\ Net <= calm - Freshness - 2 * Lost

\* They are numbers, and the net time is less than what has passed.
LEMMA NetIs == TypeOK /\ SpentInv => Numbers
<1> SUFFICES ASSUME TypeOK, SpentInv PROVE Numbers
  OBVIOUS
<1>1. /\ Reach \in Nat \ {0} /\ Reach <= Overdue
  <2>1. monitor \in Row
    BY DEF TypeOK
  <2>2. QED
    BY <2>1, ReachIs DEF Reach
<1>2. Reach <= Old
  <2>1. monitor.interval \in Intervals /\ monitor.cap \in Caps
    BY DEF TypeOK, Row
  <2>2. QED
    BY <2>1, DispatchAssumption DEF Reach
<1>3. Used("behind") \in Nat /\ Used("crash") \in Nat /\ Used("late") \in Nat
  <2>1. "behind" \in Events /\ "crash" \in Events /\ "late" \in Events
    BY DEF Events, Faults
  <2>2. QED
    BY <2>1, UsedIs
<1>4. Lost \in Nat /\ Grace = 2 + 2 * Lost
  BY <1>3 DEF Lost, Grace
<1>5. Deferral \in Nat
  <2>1. \A a, b \in Nat : a * b \in Nat
    OBVIOUS
  <2>2. Reach + 5 \in Nat
    BY <1>1
  <2>3. QED
    BY <1>3, <2>1, <2>2 DEF Deferral
<1>6. /\ calm \in Nat /\ Freshness \in Nat /\ half \in 0 .. 1 /\ monitor.last \in Nat
      /\ Overdue \in Nat /\ Old \in Nat
  BY DispatchAssumption DEF TypeOK, Row
<1>7. Net \in Int /\ Net <= calm - Freshness - 2 * Lost
  BY <1>4, <1>5, <1>6 DEF Net
<1>8. QED
  BY <1>1, <1>2, <1>4, <1>5, <1>6, <1>7 DEF Numbers

\* ... in the next state, too.
LEMMA NetIsThen == TypeOK' /\ SpentInv' => Numbers'
BY NetIs, PTL

\* The net time stands while none of these is spent and no time passes.
LEMMA NetKept ==
  ASSUME left'["behind"] = left["behind"], left'["crash"] = left["crash"],
         left'["late"] = left["late"], calm' = calm,
         monitor'.interval = monitor.interval, monitor'.cap = monitor.cap
  PROVE  /\ Reach' = Reach /\ Lost' = Lost /\ Deferral' = Deferral /\ Net' = Net
         /\ Grace' = Grace
<1>1. Reach' = Reach
  BY DEF Reach
<1>2. /\ Used("behind")' = Used("behind") /\ Used("crash")' = Used("crash")
      /\ Used("late")' = Used("late")
  BY DEF Used
<1>3. Lost' = Lost /\ Deferral' = Deferral /\ Grace' = Grace
  BY <1>1, <1>2 DEF Lost, Deferral, Grace
<1>4. QED
  BY <1>1, <1>3 DEF Net

\* A step in no time follows if it keeps what is firm and, of what is not, the
\* order of verdicts and what is to come.
LEMMA QuietFollows ==
  ASSUME FollowInv, Numbers, Numbers', Steady' => Steady,
         Grace' = Grace, Net' = Net, half' = half, calm' = calm,
         Steady /\ Firm => Firm',
         LateInv => LateInv',
         Steady /\ Grace < Freshness /\ ~Firm /\ Agreed /\ LateInv
           /\ Net > half /\ calm > Freshness
           => \/ Firm'
              \/ /\ Agreed'
                 /\ Recent => Recent'
                 /\ Waiting => Waiting' \/ Recent'
  PROVE  FollowInv'
<1> SUFFICES ASSUME Steady', Grace' < Freshness
             PROVE  Firm' \/ Unfirm'
  BY DEF FollowInv
<1>1. Steady /\ Grace < Freshness
  OBVIOUS
<1>2. Firm \/ Unfirm
  BY <1>1 DEF FollowInv
<1>3. CASE Firm
  BY <1>1, <1>3
<1>4. CASE Unfirm /\ Unsettled
  BY <1>4 DEF Unfirm, Unsettled
<1>5. CASE ~Firm /\ Unfirm /\ ~Unsettled
  <2>1. Agreed /\ LateInv /\ (Recent \/ Waiting)
    BY <1>5 DEF Unfirm
  <2>2. Net > half
    BY <1>5 DEF Unsettled, Numbers
  <2>3. calm > Freshness
    BY <2>2 DEF Numbers
  <2>4. QED
    BY <1>1, <1>5, <2>1, <2>2, <2>3 DEF Unfirm
<1>6. QED
  BY <1>2, <1>3, <1>4, <1>5

\* Results grow no older in no time.
LEMMA FresherKept ==
  ASSUME NEW n \in Nat, TypeOK, TypeOK', \A r \in Regions : newest'[r].age <= newest[r].age
  PROVE  Fresher(n) => Fresher(n)'
<1>1. \A r \in Regions : newest[r].age \in Nat /\ newest'[r].age \in Nat
  BY DispatchAssumption DEF TypeOK, Ages
<1>2. SUFFICES ASSUME Fresher(n) PROVE Fresher(n)'
  OBVIOUS
<1>3. PICK r \in Regions : newest[r].age <= n
  BY <1>2 DEF Fresher
<1>4. newest'[r].age <= n
  BY <1>1, <1>3
<1>5. QED
  BY <1>4 DEF Fresher

\* What is recent stays so while no result grows older and no evaluation that is
\* coming is lost.
LEMMA RecentKept ==
  ASSUME TypeOK, TypeOK', Numbers, Numbers', Net' = Net, half' = half, Lost' = Lost, Reach' = Reach,
         \A r \in Regions : newest'[r].age <= newest[r].age,
         Coming => Coming', Recent
  PROVE  Recent'
<1>1. /\ Bit(Coming) \in 0 .. 1 /\ Bit(Coming)' \in 0 .. 1 /\ Bit(Coming) <= Bit(Coming)'
  BY DEF Bit
<1> DEFINE n == 2 * Lost + half + 2 * Bit(Coming)
<1>2. n \in Nat
  BY <1>1 DEF Numbers
<1>3. n' \in Nat /\ n <= n'
  BY <1>1 DEF Numbers
<1>4. Fresher(n)
  BY DEF Recent
<1> HIDE DEF n
<1>5. PICK r \in Regions : newest'[r].age <= n
  BY <1>2, <1>4, FresherKept DEF Fresher
<1>6. newest'[r].age \in Nat
  BY DispatchAssumption DEF TypeOK, Ages
<1>7. newest'[r].age <= n'
  BY <1>2, <1>3, <1>5, <1>6
<1>8. Fresher(n)'
  BY <1>7 DEF Fresher
<1>9. Net' < Reach' + half' + 2 + 2 * Bit(Coming)'
  BY <1>1 DEF Recent, Numbers
<1>10. QED
  BY <1>8, <1>9 DEF Recent, n

\* What is waited for is waited for still, while the stamp stands and what is
\* pending stays so.
LEMMA WaitingKept ==
  ASSUME Numbers, Numbers', Net' = Net, half' = half, Reach' = Reach,
         monitor'.last = monitor.last,
         \A w \in Workers : worker'[w].pc = "touch" => worker[w].pc = "touch",
         Pending => Pending', Waiting
  PROVE  Waiting'
<1>1. /\ Bit(Pending) \in 0 .. 1 /\ Bit(Pending)' \in 0 .. 1 /\ Bit(Pending) <= Bit(Pending)'
  BY DEF Bit
<1>2. monitor'.last >= Reach' \/ Net' < monitor'.last
  BY DEF Waiting
<1>3. \A w \in Workers : worker'[w].pc # "touch"
  BY DEF Waiting
<1>4. Net' < Reach' + half' + 2 * Bit(Pending)'
  BY <1>1 DEF Waiting, Numbers
<1>5. QED
  BY <1>2, <1>3, <1>4 DEF Waiting

\* A request in the queue stays there until it is taken.
LEMMA AskedIs ==
  ASSUME NEW q \in Seq(Job)
  PROVE  /\ \A j \in Job : Asked(q) => Asked(Append(q, j))
         /\ \A j \in Job : j.kind = "evaluate" => Asked(Append(q, j))
         /\ q # <<>> /\ Head(q).kind # "evaluate" /\ Asked(q) => Asked(Tail(q))
<1>1. ASSUME NEW j \in Job
      PROVE  /\ Asked(q) => Asked(Append(q, j))
             /\ j.kind = "evaluate" => Asked(Append(q, j))
  <2>1. /\ DOMAIN q = 1 .. Len(q) /\ DOMAIN Append(q, j) = 1 .. Len(q) + 1
        /\ \A i \in 1 .. Len(q) : Append(q, j)[i] = q[i]
        /\ Append(q, j)[Len(q) + 1] = j
    OBVIOUS
  <2>2. Len(q) + 1 \in 1 .. Len(q) + 1 /\ 1 .. Len(q) \subseteq 1 .. Len(q) + 1
    OBVIOUS
  <2>3. QED
    BY <2>1, <2>2, ZenonT(30) DEF Asked
<1>2. ASSUME q # <<>>, Head(q).kind # "evaluate", Asked(q) PROVE Asked(Tail(q))
  <2>1. /\ DOMAIN q = 1 .. Len(q) /\ DOMAIN Tail(q) = 1 .. Len(q) - 1
        /\ Len(q) \in Nat \ {0} /\ Head(q) = q[1]
        /\ \A i \in 1 .. Len(q) - 1 : Tail(q)[i] = q[i + 1]
    BY <1>2
  <2>2. PICK i \in 1 .. Len(q) : q[i].kind = "evaluate"
    BY <1>2, <2>1 DEF Asked
  <2>3. i - 1 \in 1 .. Len(q) - 1 /\ Tail(q)[i - 1] = q[i]
    <3>1. i # 1
      BY <1>2, <2>1, <2>2
    <3>2. i - 1 \in 1 .. Len(q) - 1 /\ (i - 1) + 1 = i
      BY <2>1, <3>1
    <3>3. QED
      BY <2>1, <3>2
  <2>4. QED
    BY <2>1, <2>2, <2>3 DEF Asked
<1>3. QED
  BY <1>1, <1>2

\* What is filed under a region is what it saw.
LEMMA TruthRecorded ==
  ASSUME TypeOK, TruthInv, target' = target, calm' = calm,
         NEW r \in Regions, NEW age \in Ages, NEW st \in Cast,
         age < calm /\ age < Old => st = target[r],
         newest' = Recorded(r, age, st)
  PROVE  \A q \in Regions :
           newest'[q].age < calm' /\ newest'[q].age < Old => newest'[q].status = target'[q]
<1>1. newest \in [Regions -> [age: Ages, status: Cast]]
  BY DEF TypeOK
<1>2. CASE newest' = newest
  BY <1>2 DEF TruthInv
<1>3. CASE newest' = [newest EXCEPT ![r] = [age |-> age, status |-> st]]
  <2> SUFFICES ASSUME NEW q \in Regions, newest'[q].age < calm, newest'[q].age < Old
               PROVE  newest'[q].status = target[q]
    OBVIOUS
  <2>1. CASE q = r
    BY <1>1, <1>3, <2>1
  <2>2. CASE q # r
    <3>1. newest'[q] = newest[q]
      BY <1>1, <1>3, <2>2
    <3>2. QED
      BY <3>1 DEF TruthInv
  <2>3. QED
    BY <2>1, <2>2
<1>4. QED
  BY <1>2, <1>3 DEF Recorded

\* Results are filed as they were seen, and grow older no slower than the calm.
LEMMA TruthStep ==
  ASSUME WatchedInv, TruthInv, [Next]_vars
  PROVE  TruthInv'
<1>1. TypeInv /\ TypeOK
  BY DEF WatchedInv, TypeInv
<1>2. CASE UNCHANGED <<newest, carried, target, calm>>
  BY <1>2 DEF TruthInv
<1>3. CASE calm' = 0 /\ newest' = newest /\ carried' = carried
  <2>1. /\ \A r \in Regions : newest'[r].age \in Nat
        /\ \A r \in Remotes : carried'[r].age \in Nat
    BY <1>1, <1>3, DispatchAssumption DEF TypeOK, Ages
  <2>2. /\ \A r \in Regions : ~(newest'[r].age < calm')
        /\ \A r \in Remotes : ~(carried'[r].age < calm')
    BY <1>3, <2>1
  <2>3. QED
    BY <2>2 DEF TruthInv
<1>4. ASSUME NEW w \in Workers, FileAnswer(w) PROVE TruthInv'
  <2>1. PICK age \in {0, worker[w].age} : newest' = Recorded(Primary, age, target[Primary])
    BY <1>4 DEF FileAnswer
  <2>2. /\ age \in Ages /\ Primary \in Regions /\ target[Primary] \in Cast
        /\ UNCHANGED <<carried, target, calm>>
    <3>1. Primary \in Regions
      BY DispatchAssumption DEF Regions
    <3>2. target[Primary] \in Cast
      BY <1>1, <3>1 DEF TypeOK
    <3>3. worker[w].age \in Ages /\ 0 \in Ages
      BY <1>1, DispatchAssumption DEF TypeOK, WorkerState, Ages
    <3>4. UNCHANGED <<carried, target, calm>>
      BY <1>4 DEF FileAnswer, world
    <3>5. QED
      BY <2>1, <3>1, <3>2, <3>3, <3>4
  <2>3. \A q \in Regions :
          newest'[q].age < calm' /\ newest'[q].age < Old => newest'[q].status = target'[q]
    BY <1>1, <2>1, <2>2, TruthRecorded
  <2>4. QED
    BY <2>2, <2>3 DEF TruthInv
<1>5. ASSUME NEW r \in Remotes, ProbeTarget(r) PROVE TruthInv'
  <2>1. /\ newest' = Recorded(r, 0, target[r]) /\ 0 \in Ages /\ r \in Regions
        /\ target[r] \in Cast /\ UNCHANGED <<carried, target, calm>>
    BY <1>1, <1>5, DispatchAssumption DEF ProbeTarget, world, TypeOK, Regions, Ages
  <2>2. \A q \in Regions :
          newest'[q].age < calm' /\ newest'[q].age < Old => newest'[q].status = target'[q]
    BY <1>1, <2>1, TruthRecorded
  <2>3. QED
    BY <2>1, <2>2 DEF TruthInv
<1>6. ASSUME NEW r \in Remotes, ProbeSlowly(r) PROVE TruthInv'
  <2>1. /\ carried' = [carried EXCEPT ![r] = [age |-> 0, status |-> target[r]]]
        /\ UNCHANGED <<newest, target, calm>>
    BY <1>6 DEF ProbeSlowly, rows
  <2>2. carried'[r].status = target[r] /\ \A q \in Remotes \ {r} : carried'[q] = carried[q]
    BY <1>1, <2>1 DEF TypeOK
  <2>3. QED
    BY <2>1, <2>2 DEF TruthInv
<1>7. ASSUME NEW r \in Remotes, IngestLate(r) PROVE TruthInv'
  <2>1. /\ newest' = Recorded(r, carried[r].age, carried[r].status)
        /\ carried[r] # Nothing
        /\ carried' = [carried EXCEPT ![r] = Nothing]
        /\ UNCHANGED <<target, calm>>
    BY <1>7 DEF IngestLate
  <2>2. /\ carried[r].age \in Ages /\ carried[r].status \in Cast /\ r \in Regions
        /\ carried[r].age < calm /\ carried[r].age < Old => carried[r].status = target[r]
    BY <1>1, <2>1 DEF TypeInv, TypeOK, TruthInv, Regions
  <2>3. \A q \in Regions :
          newest'[q].age < calm' /\ newest'[q].age < Old => newest'[q].status = target'[q]
    BY <1>1, <2>1, <2>2, TruthRecorded
  <2>4. carried'[r] = Nothing /\ \A q \in Remotes \ {r} : carried'[q] = carried[q]
    BY <1>1, <2>1 DEF TypeOK
  <2>5. QED
    BY <2>1, <2>3, <2>4 DEF TruthInv
<1>8. ASSUME Ageing PROVE TruthInv'
  <2>1. /\ \A r \in Regions : /\ newest'[r].age = Older(newest[r].age, Old)
                              /\ newest'[r].status = newest[r].status
        /\ calm' <= calm + 1 /\ calm' \in Nat /\ calm \in Nat /\ target' = target
    BY <1>1, <1>8, AgeingIs, DispatchAssumption DEF TypeOK
  <2>2. \A age \in Ages :
          /\ Older(age, Old) \in Nat
          /\ Older(age, Old) < calm' /\ Older(age, Old) < Old => age < calm /\ age < Old
    <3> SUFFICES ASSUME NEW age \in Ages
                 PROVE  /\ Older(age, Old) \in Nat
                        /\ Older(age, Old) < calm' /\ Older(age, Old) < Old
                             => age < calm /\ age < Old
      OBVIOUS
    <3>1. Old \in Nat /\ age \in 0 .. Old
      BY DispatchAssumption DEF Ages
    <3>2. Older(age, Old) \in 0 .. Old /\ (Older(age, Old) < Old => Older(age, Old) = age + 1)
      BY <3>1, OlderIs
    <3> DEFINE o == Older(age, Old)
    <3> HIDE DEF o
    <3>3. o \in 0 .. Old /\ (o < Old => o = age + 1)
      BY <3>2 DEF o
    <3>4. PICK c \in Nat : c = calm'
      BY <2>1
    <3>5. o \in Nat /\ (o < c /\ o < Old => age < calm /\ age < Old)
      BY <2>1, <3>1, <3>3, <3>4
    <3>6. QED
      BY <3>4, <3>5 DEF o
  <2>3. \A r \in Regions : newest[r].age \in Ages
    BY <1>1 DEF TypeOK
  <2>4. \A r \in Regions :
          newest'[r].age < calm' /\ newest'[r].age < Old => newest'[r].status = target'[r]
    <3> HIDE DEF Older
    <3>1. QED
      BY <2>1, <2>2, <2>3 DEF TruthInv
  <2>5. ASSUME NEW r \in Remotes, carried'[r] # Nothing, carried'[r].age < calm', carried'[r].age < Old
        PROVE  carried'[r].status = target'[r]
    <3>1. /\ carried[r] # Nothing /\ carried[r].age \in Ages
          /\ carried'[r] = [carried[r] EXCEPT !.age = Older(carried[r].age, Old)]
          /\ carried[r] \in [age: Ages, status: Verdicts]
      BY <1>1, <1>8, <2>5 DEF Ageing, TypeOK
    <3>2. carried'[r].age = Older(carried[r].age, Old) /\ carried'[r].status = carried[r].status
      BY <3>1
    <3> HIDE DEF Older
    <3>3. carried[r].age < calm /\ carried[r].age < Old
      BY <2>2, <2>5, <3>1, <3>2
    <3>4. QED
      BY <2>1, <3>1, <3>2, <3>3 DEF TruthInv
  <2>6. QED
    BY <2>4, <2>5 DEF TruthInv
<1>9. ASSUME NEW w \in Workers, Work(w) \/ CrashWorker(w) PROVE TruthInv'
  <2>1. CASE FileAnswer(w)
    BY <1>4, <2>1
  <2>2. CASE ~FileAnswer(w)
    <3>1. UNCHANGED <<newest, carried, target, calm>>
      BY <1>9, <2>2 DEF Work, StartDispatch, EnqueueCheck, StartCheck, TouchMonitor, StartEvaluate,
                        WriteVerdict, CrashWorker, rows, world
    <3>2. QED
      BY <1>2, <3>1
  <2>3. QED
    BY <2>1, <2>2
<1>10. CASE RunCheckNow
  BY <1>2, <1>10 DEF RunCheckNow, rows, world
<1>11. ASSUME NEW enabled, NEW interval, EditMonitor(enabled, interval) PROVE TruthInv'
  BY <1>3, <1>11 DEF EditMonitor
<1>12. ASSUME NEW seers, NEW status, TargetChanges(seers, status) PROVE TruthInv'
  BY <1>3, <1>12 DEF TargetChanges, rows
<1>13. CASE HalfMinute \/ Tick
  BY <1>8, <1>13 DEF HalfMinute, Tick
<1>14. CASE UNCHANGED vars
  BY <1>2, <1>14 DEF vars
<1>15. QED
  BY <1>5, <1>6, <1>7, <1>9, <1>10, <1>11, <1>12, <1>13, <1>14 DEF Next

\* When all regions see one state and older results have lost their vote, a vote
\* is for that state, whatever the threshold.
LEMMA VerdictIs ==
  ASSUME TypeOK, TruthInv, Steady, calm > Freshness, Fresh # {}
  PROVE  ConsensusStatus(Votes, MinRegions) = Sight
<1>1. /\ Freshness \in Nat /\ Old \in Nat /\ Freshness < Old /\ Sight \in Cast /\ MinRegions \in Int
      /\ calm \in Nat
  BY DispatchAssumption DEF TypeOK, Sight, Regions
<1>2. Electorate(Fresh, Regions) = Fresh
  BY DEF Electorate, Fresh
<1>3. \A r \in Fresh : newest[r].status = Sight
  <2> SUFFICES ASSUME NEW r \in Fresh PROVE newest[r].status = Sight
    OBVIOUS
  <2>1. r \in Regions /\ newest[r].age <= Freshness /\ newest[r].age \in Nat
    BY <1>1 DEF Fresh, TypeOK, Ages
  <2>2. newest[r].age < calm /\ newest[r].age < Old
    BY <1>1, <2>1
  <2>3. QED
    BY <2>1, <2>2 DEF TruthInv, Steady
<1>4. Votes = [r \in Fresh |-> Sight]
  BY <1>2, <1>3 DEF Votes
<1> DEFINE n == Cardinality(Fresh)
           required == Required(n, MinRegions)
<1>5. IsFiniteSet(Fresh) /\ n \in Nat /\ n # 0
  <2>1. IsFiniteSet(Remotes) /\ Fresh \subseteq Remotes \cup {Primary}
    BY DispatchAssumption DEF Fresh, Regions
  <2>2. IsFiniteSet(Remotes \cup {Primary})
    BY <2>1, FS_AddElement
  <2>3. IsFiniteSet(Fresh)
    BY <2>1, <2>2, FS_Subset
  <2>4. QED
    BY <2>3, FS_CardinalityType, FS_EmptySet
<1>6. required \in Nat /\ required >= 1 /\ required <= n
  <2> HIDE DEF n
  <2>1. QED
    BY <1>1, <1>5 DEF Required
<1>7. \A t : Saw(Votes, t) = IF t = Sight THEN Fresh ELSE {}
  BY <1>4 DEF Saw
<1>8. DOMAIN Votes = Fresh /\ Cardinality({}) = 0
  BY <1>4, FS_EmptySet
<1>9. ConsensusStatus(Votes, MinRegions) =
        CASE DOMAIN Votes = {} -> "unknown"
          [] DOMAIN Votes # {} /\ Cardinality(Saw(Votes, "down")) >= required -> "down"
          [] DOMAIN Votes # {} /\ Cardinality(Saw(Votes, "down")) < required
             /\ Cardinality(Saw(Votes, "down")) + Cardinality(Saw(Votes, "degraded")) >= required
               -> "degraded"
          [] OTHER -> IF Saw(Votes, "up") # {} THEN "up" ELSE "degraded"
  BY <1>8 DEF ConsensusStatus
<1> HIDE DEF n, required
<1>10. CASE Sight = "down"
  <2>1. Cardinality(Saw(Votes, "down")) = n
    BY <1>7, <1>10 DEF n
  <2>2. n >= required /\ ~(n < required)
    BY <1>5, <1>6
  <2>3. QED
    BY <1>8, <1>9, <1>10, <2>1, <2>2
<1>11. CASE Sight = "degraded"
  <2>1. Cardinality(Saw(Votes, "down")) = 0 /\ Cardinality(Saw(Votes, "degraded")) = n
    BY <1>7, <1>8, <1>11 DEF n
  <2>2. 0 + n >= required /\ 0 < required /\ ~(0 >= required)
    BY <1>5, <1>6
  <2>3. QED
    BY <1>8, <1>9, <1>11, <2>1, <2>2
<1>12. CASE Sight = "up"
  <2>1. /\ Cardinality(Saw(Votes, "down")) = 0 /\ Cardinality(Saw(Votes, "degraded")) = 0
        /\ Saw(Votes, "up") = Fresh
    BY <1>7, <1>8, <1>12
  <2>2. ~(0 + 0 >= required) /\ ~(0 >= required)
    BY <1>5, <1>6
  <2>3. QED
    BY <1>8, <1>9, <1>12, <2>1, <2>2
<1>13. QED
  BY <1>1, <1>10, <1>11, <1>12 DEF Cast

\* What a step of a worker leaves of the frame of the invariant.
LEMMA WorkFrame ==
  ASSUME WatchedInv, WatchedInv', NEW w \in Workers, Work(w)
  PROVE  /\ TypeInv /\ TypeOK /\ TypeOK' /\ Numbers /\ Numbers'
         /\ Reach' = Reach /\ Lost' = Lost /\ Net' = Net /\ Grace' = Grace
         /\ half' = half /\ calm' = calm /\ Sight' = Sight
         /\ (Steady' => Steady) /\ (LateInv => LateInv')
         /\ \A v \in Workers \ {w} : worker'[v] = worker[v]
         /\ worker \in [Workers -> WorkerState] /\ queue \in Seq(Job)
<1>1. TypeInv /\ TypeOK /\ TypeOK' /\ SpentInv /\ SpentInv'
  BY DEF WatchedInv, TypeInv
<1>2. Numbers /\ Numbers'
  BY <1>1, NetIs, NetIsThen
<1>3. /\ left' = left /\ half' = half /\ calm' = calm
      /\ \A v \in Workers \ {w} : worker'[v] = worker[v]
      /\ monitor'.enabled = monitor.enabled /\ monitor'.interval = monitor.interval
      /\ monitor'.cap = monitor.cap
  BY <1>1, WorkIs
<1>4. Reach' = Reach /\ Lost' = Lost /\ Net' = Net /\ Grace' = Grace
  BY <1>3, NetKept
<1>5. target' = target /\ carried' = carried
  BY DEF Work, StartDispatch, EnqueueCheck, StartCheck, FileAnswer, TouchMonitor,
         StartEvaluate, WriteVerdict, world
<1>6. Sight' = Sight /\ (Steady' => Steady) /\ (LateInv => LateInv')
  BY <1>3, <1>4, <1>5 DEF Sight, Steady, LateInv
<1>7. worker \in [Workers -> WorkerState] /\ queue \in Seq(Job)
  BY <1>1 DEF TypeOK
<1>8. QED
  BY <1>1, <1>2, <1>3, <1>4, <1>6, <1>7

\* An evaluation that is coming still comes when a worker that was to write
\* nothing of the kind takes another job or ends one.
LEMMA ComingKept ==
  ASSUME NEW w \in Workers, \A v \in Workers \ {w} : worker'[v] = worker[v],
         Asked(queue) => Asked(queue'), ~(worker[w].pc = "write" /\ Heals(worker[w])),
         Coming
  PROVE  Coming'
BY DEF Coming

\* A dispatch that finds the monitor not due leaves the stamp to be waited for.
LEMMA FollowDispatch ==
  ASSUME WatchedInv, WatchedInv', FollowInv,
         NEW w \in Workers, StartDispatch(w)
  PROVE  FollowInv'
<1>1. Work(w)
  BY DEF Work
<1>2. /\ TypeInv /\ TypeOK /\ TypeOK' /\ Numbers /\ Numbers'
      /\ Reach' = Reach /\ Lost' = Lost /\ Net' = Net /\ Grace' = Grace
      /\ half' = half /\ calm' = calm /\ Sight' = Sight
      /\ (Steady' => Steady) /\ (LateInv => LateInv')
      /\ \A v \in Workers \ {w} : worker'[v] = worker[v]
      /\ worker \in [Workers -> WorkerState] /\ queue \in Seq(Job)
  BY <1>1, WorkFrame
<1> DEFINE st == IF monitor.enabled /\ Due THEN [Idle EXCEPT !.pc = "enqueue"] ELSE Idle
<1>3. /\ worker' = [worker EXCEPT ![w] = st] /\ worker[w].pc = "idle"
      /\ queue # <<>> /\ Head(queue).kind = "dispatch" /\ queue' = Tail(queue)
      /\ monitor' = monitor /\ newest' = newest
  BY DEF StartDispatch, Take, Go, rows
<1>4. st.pc = (IF monitor.enabled /\ Due THEN "enqueue" ELSE "idle")
  BY IdleType DEF Idle
<1>5. worker'[w].pc = (IF monitor.enabled /\ Due THEN "enqueue" ELSE "idle")
  <2> HIDE DEF st
  <2>1. QED
    BY <1>2, <1>3, <1>4
<1> HIDE DEF st
<1>6. Agreed => Agreed'
  BY <1>2, <1>5 DEF Agreed
<1>7. Firm => Firm'
  BY <1>2, <1>3, <1>6 DEF Firm, Followed
<1>8. Coming => Coming'
  BY <1>2, <1>3, AskedIs, ComingKept
<1>9. Recent => Recent'
  <2>1. \A r \in Regions : newest'[r].age <= newest[r].age
    BY <1>1, <1>2, WorkIs
  <2>2. QED
    BY <1>2, <1>8, <2>1, RecentKept
<1>10. \A v \in Workers : worker'[v].pc = "touch" => worker[v].pc = "touch"
  BY <1>2, <1>5
<1>11. Steady /\ Waiting => Waiting'
  <2> SUFFICES ASSUME Steady, Waiting PROVE Waiting'
    OBVIOUS
  <2>1. CASE Due
    <3>1. Pending'
      BY <1>5, <2>1 DEF Pending, Steady
    <3>2. QED
      BY <1>2, <1>3, <1>10, <3>1, WaitingKept
  <2>2. CASE ~Due
    <3> DEFINE span == monitor.interval * Multiplier(monitor.failures, monitor.cap)
    <3>1. span \in Nat /\ span <= Reach
      BY <1>2, ReachIs DEF Reach, TypeOK
    <3>2. ~(monitor.last >= span)
      BY <2>2 DEF Due
    <3> HIDE DEF span
    <3>3. monitor.last < Reach
      BY <1>2, <3>1, <3>2 DEF Numbers
    <3>4. Net < monitor.last
      BY SMTT(30), <1>2, <3>3 DEF Waiting, Numbers
    <3>5. Net' < monitor'.last
      BY <1>2, <1>3, <3>4
    <3>6. Bit(Pending)' \in 0 .. 1
      BY DEF Bit
    <3>7. Net' < Reach' + half' + 2 * Bit(Pending)'
      BY <1>2, <3>3, <3>4, <3>6 DEF Numbers
    <3>8. \A v \in Workers : worker'[v].pc # "touch"
      BY <1>10 DEF Waiting
    <3>9. QED
      BY <3>5, <3>7, <3>8 DEF Waiting
  <2>3. QED
    BY <2>1, <2>2
<1>12. QED
  BY <1>2, <1>6, <1>7, <1>9, <1>11, QuietFollows

\* A check that is queued, or taken, is pending still.
LEMMA FollowCheck ==
  ASSUME WatchedInv, WatchedInv', FollowInv,
         NEW w \in Workers, EnqueueCheck(w) \/ StartCheck(w)
  PROVE  FollowInv'
<1>1. Work(w)
  BY DEF Work
<1>2. /\ TypeInv /\ TypeOK /\ TypeOK' /\ Numbers /\ Numbers'
      /\ Reach' = Reach /\ Lost' = Lost /\ Net' = Net /\ Grace' = Grace
      /\ half' = half /\ calm' = calm /\ Sight' = Sight
      /\ (Steady' => Steady) /\ (LateInv => LateInv')
      /\ \A v \in Workers \ {w} : worker'[v] = worker[v]
      /\ worker \in [Workers -> WorkerState] /\ queue \in Seq(Job)
  BY <1>1, WorkFrame
<1>3. monitor' = monitor /\ newest' = newest
  BY DEF EnqueueCheck, StartCheck, rows
<1>4. /\ worker[w].pc # "write" /\ worker'[w].pc \in {"idle", "answer"}
      /\ Asked(queue) => Asked(queue')
  <2>1. CASE EnqueueCheck(w)
    <3>1. worker' = [worker EXCEPT ![w] = Idle] /\ queue' = Append(queue, Checking)
          /\ worker[w].pc = "enqueue"
      BY <2>1 DEF EnqueueCheck, Done, Go
    <3>2. worker'[w].pc = "idle"
      BY <1>2, <3>1, IdleType
    <3>3. QED
      BY <1>2, <3>1, <3>2, AskedIs, JobTypes
  <2>2. CASE StartCheck(w)
    <3> DEFINE st == [Idle EXCEPT !.pc = "answer", !.tries = Head(queue).tries]
    <3>1. worker' = [worker EXCEPT ![w] = st] /\ worker[w].pc = "idle"
          /\ queue # <<>> /\ Head(queue).kind = "check" /\ queue' = Tail(queue)
      BY <2>2 DEF StartCheck, Go, Take
    <3>2. st.pc = "answer"
      BY DEF Idle
    <3> HIDE DEF st
    <3>3. worker'[w].pc = "answer"
      BY <1>2, <3>1, <3>2
    <3>4. QED
      BY <1>2, <3>1, <3>3, AskedIs
  <2>3. QED
    BY <2>1, <2>2
<1>5. Agreed => Agreed'
  BY <1>2, <1>4 DEF Agreed
<1>6. Firm => Firm'
  BY <1>2, <1>3, <1>5 DEF Firm, Followed
<1>7. Recent => Recent'
  <2>1. \A r \in Regions : newest'[r].age <= newest[r].age
    BY <1>1, <1>2, WorkIs
  <2>2. Coming => Coming'
    BY <1>2, <1>4, ComingKept
  <2>3. QED
    BY <1>2, <2>1, <2>2, RecentKept
<1>8. Waiting => Waiting'
  <2>1. \A v \in Workers : worker'[v].pc = "touch" => worker[v].pc = "touch"
    BY <1>2, <1>4
  <2>2. Pending => Pending'
    <3>1. ~StartDispatch(w) /\ ~FileAnswer(w)
      <4>1. CASE EnqueueCheck(w)
        BY <4>1 DEF EnqueueCheck, StartDispatch, FileAnswer, Take
      <4>2. CASE StartCheck(w)
        BY <4>2 DEF StartCheck, StartDispatch, FileAnswer, Take
      <4>3. QED
        BY <4>1, <4>2
    <3>2. QED
      BY <1>1, <1>2, <3>1, WorkPending
  <2>3. QED
    BY <1>2, <1>3, <2>1, <2>2, WaitingKept
<1>9. QED
  BY <1>2, <1>5, <1>6, <1>7, <1>8, QuietFollows

\* An answer that is filed is recent, whatever was waited for.
LEMMA FollowFile ==
  ASSUME WatchedInv, WatchedInv', FollowInv, NEW w \in Workers, FileAnswer(w)
  PROVE  FollowInv'
<1>1. Work(w)
  BY DEF Work
<1>2. /\ TypeInv /\ TypeOK /\ TypeOK' /\ Numbers /\ Numbers'
      /\ Reach' = Reach /\ Lost' = Lost /\ Net' = Net /\ Grace' = Grace
      /\ half' = half /\ calm' = calm /\ Sight' = Sight
      /\ (Steady' => Steady) /\ (LateInv => LateInv')
      /\ \A v \in Workers \ {w} : worker'[v] = worker[v]
      /\ worker \in [Workers -> WorkerState] /\ queue \in Seq(Job)
  BY <1>1, WorkFrame
<1>3. SpentInv /\ HeldInv
  BY DEF WatchedInv
<1>4. /\ worker'[w].pc = "touch" /\ newest'[Primary].age <= worker'[w].age
      /\ worker'[w].age \in Nat /\ worker'[w].age <= 2 * Used("behind") + half
      /\ Used("behind") \in Nat
  BY <1>2, <1>3, FileIs
<1>5. monitor' = monitor /\ queue' = queue /\ worker[w].pc = "answer"
  BY DEF FileAnswer
<1>6. Agreed => Agreed'
  BY <1>2, <1>4 DEF Agreed
<1>7. Firm => Firm'
  BY <1>2, <1>5, <1>6 DEF Firm, Followed
<1>8. Recent => Recent'
  <2>1. \A r \in Regions : newest'[r].age <= newest[r].age
    BY <1>1, <1>2, WorkIs
  <2>2. Coming => Coming'
    BY <1>2, <1>5, ComingKept
  <2>3. QED
    BY <1>2, <2>1, <2>2, RecentKept
<1>9. Waiting => Recent'
  <2> SUFFICES ASSUME Waiting PROVE Recent'
    OBVIOUS
  <2>1. Bit(Coming)' \in 0 .. 1 /\ Bit(Pending) \in 0 .. 1
    BY DEF Bit
  <2>2. Used("crash") \in Nat /\ Used("behind") \in Nat
    BY <1>2, <1>3, UsedIs DEF Events, Faults
  <2>3. PICK age \in Nat : age = newest'[Primary].age
    BY <1>2, DispatchAssumption DEF TypeOK, Ages, Regions
  <2>4. age <= 2 * Lost' + half' + 2 * Bit(Coming)'
    <3>1. age <= 2 * Used("behind") + half
      BY <1>2, <1>4, <2>3 DEF Numbers
    <3>2. age <= 2 * Lost + half
      <4>1. PICK b \in Nat, k \in Nat : b = Used("behind") /\ k = Used("crash")
        BY <2>2
      <4>2. PICK h \in Int : h = half
        BY <1>2 DEF Numbers
      <4>3. age <= 2 * b + h
        BY <3>1, <4>1, <4>2
      <4>4. Lost = b + k
        BY <4>1 DEF Lost
      <4>5. QED
        BY <4>1, <4>2, <4>3, <4>4
    <3>3. QED
      BY <1>2, <2>1, <3>2 DEF Numbers
  <2>5. Fresher(2 * Lost + half + 2 * Bit(Coming))'
    BY <2>3, <2>4 DEF Fresher, Regions
  <2>6. Net' < Reach' + half' + 2 + 2 * Bit(Coming)'
    BY <1>2, <2>1 DEF Waiting, Numbers
  <2>7. QED
    BY <2>5, <2>6 DEF Recent
<1>10. QED
  BY <1>2, <1>6, <1>7, <1>8, <1>9, QuietFollows

\* A stamp that is moved was filed before: nothing was waited for.
LEMMA FollowTouch ==
  ASSUME WatchedInv, WatchedInv', FollowInv, NEW w \in Workers, TouchMonitor(w)
  PROVE  FollowInv'
<1>1. Work(w)
  BY DEF Work
<1>2. /\ TypeInv /\ TypeOK /\ TypeOK' /\ Numbers /\ Numbers'
      /\ Reach' = Reach /\ Lost' = Lost /\ Net' = Net /\ Grace' = Grace
      /\ half' = half /\ calm' = calm /\ Sight' = Sight
      /\ (Steady' => Steady) /\ (LateInv => LateInv')
      /\ \A v \in Workers \ {w} : worker'[v] = worker[v]
      /\ worker \in [Workers -> WorkerState] /\ queue \in Seq(Job)
  BY <1>1, WorkFrame
<1>3. /\ worker' = [worker EXCEPT ![w] = Idle] /\ worker[w].pc = "touch" /\ queue' = queue
      /\ monitor' = [monitor EXCEPT !.last = Stamp(worker[w])]
  BY DEF TouchMonitor, Done, Go
<1>4. worker'[w].pc = "idle"
  BY <1>2, <1>3, IdleType
<1>5. monitor'.status = monitor.status /\ monitor'.failures = monitor.failures
  BY <1>2, <1>3 DEF TypeOK, Row
<1>6. Agreed => Agreed'
  BY <1>2, <1>4 DEF Agreed
<1>7. Firm => Firm'
  BY <1>2, <1>5, <1>6 DEF Firm, Followed
<1>8. Recent => Recent'
  <2>1. \A r \in Regions : newest'[r].age <= newest[r].age
    BY <1>1, <1>2, WorkIs
  <2>2. Coming => Coming'
    BY <1>2, <1>3, ComingKept
  <2>3. QED
    BY <1>2, <2>1, <2>2, RecentKept
<1>9. ~Waiting
  BY <1>3 DEF Waiting
<1>10. QED
  BY <1>2, <1>6, <1>7, <1>8, <1>9, QuietFollows

\* An evaluation reads what all regions see, if it reads anything; and while the
\* row says otherwise, its verdict will be written.
LEMMA FollowEvaluate ==
  ASSUME WatchedInv, WatchedInv', TruthInv, FollowInv, NEW w \in Workers, StartEvaluate(w)
  PROVE  FollowInv'
<1>1. Work(w)
  BY DEF Work
<1>2. /\ TypeInv /\ TypeOK /\ TypeOK' /\ Numbers /\ Numbers'
      /\ Reach' = Reach /\ Lost' = Lost /\ Net' = Net /\ Grace' = Grace
      /\ half' = half /\ calm' = calm /\ Sight' = Sight
      /\ (Steady' => Steady) /\ (LateInv => LateInv')
      /\ \A v \in Workers \ {w} : worker'[v] = worker[v]
      /\ worker \in [Workers -> WorkerState] /\ queue \in Seq(Job)
  BY <1>1, WorkFrame
<1> DEFINE next == ConsensusStatus(Votes, MinRegions)
           st == [Idle EXCEPT !.pc = "write", !.prev = monitor.status,
                              !.failures = monitor.failures, !.next = next]
<1>3. /\ worker' = [worker EXCEPT ![w] = IF monitor.enabled /\ Fresh # {} THEN st ELSE Idle]
      /\ worker[w].pc = "idle" /\ queue' = Tail(queue) /\ queue # <<>>
      /\ Head(queue).kind = "evaluate" /\ monitor' = monitor /\ newest' = newest
  BY DEF StartEvaluate, Take, Go, rows
<1> HIDE DEF next
<1>4. st.pc = "write" /\ st.prev = monitor.status /\ st.failures = monitor.failures /\ st.next = next
  BY DEF Idle
<1> HIDE DEF st
<1>5. worker'[w] = IF monitor.enabled /\ Fresh # {} THEN st ELSE Idle
  BY <1>2, <1>3
<1>6. Steady /\ calm > Freshness /\ Fresh # {} => next = Sight
  BY <1>2, VerdictIs DEF next
<1>7. worker'[w].pc \in {"idle", "write"}
  BY <1>4, <1>5, IdleType
<1>8. Steady /\ calm > Freshness /\ Agreed => Agreed'
  <2> SUFFICES ASSUME Steady, calm > Freshness, Agreed,
                      NEW v \in Workers, worker'[v].pc = "write"
               PROVE  worker'[v].next = Sight
    BY <1>2 DEF Agreed
  <2>1. CASE v = w
    BY <1>4, <1>5, <1>6, <2>1, IdleType
  <2>2. CASE v # w
    BY <1>2, <2>2 DEF Agreed
  <2>3. QED
    BY <2>1, <2>2
<1>9. Steady /\ Firm => Firm'
  BY <1>2, <1>3, <1>8 DEF Firm, Followed
<1>10. Steady /\ Grace < Freshness /\ ~Firm /\ Agreed /\ calm > Freshness /\ Recent => Recent'
  <2> SUFFICES ASSUME Steady, Grace < Freshness, ~Firm, Agreed, calm > Freshness, Recent
               PROVE  Recent'
    OBVIOUS
  <2>1. Fresh # {}
    <3> DEFINE n == 2 * Lost + half + 2 * Bit(Coming)
    <3>1. n \in Nat /\ n <= Freshness
      <4>1. Bit(Coming) \in 0 .. 1
        BY DEF Bit
      <4>2. QED
        BY <1>2, <4>1 DEF Numbers
    <3>2. Fresher(n)
      BY DEF Recent
    <3> HIDE DEF n
    <3>3. PICK r \in Regions : newest[r].age <= n
      BY <3>2 DEF Fresher
    <3>4. newest[r].age \in Nat /\ Freshness \in Nat
      BY <1>2, DispatchAssumption DEF TypeOK, Ages
    <3>5. newest[r].age <= Freshness
      BY <3>1, <3>3, <3>4
    <3>6. QED
      BY <3>5 DEF Fresh
  <2>2. worker'[w] = st
    BY <1>5, <2>1 DEF Steady
  <2>3. st.pc = "write" /\ st.prev = monitor.status /\ st.failures = monitor.failures /\ st.next = Sight
    BY <1>4, <1>6, <2>1
  <2>4. ~Followed
    BY DEF Firm
  <2>5. Heals(st)
    BY <2>3, <2>4 DEF Heals, Followed
  <2>6. Coming'
    BY <2>2, <2>3, <2>5 DEF Coming, Heals
  <2>7. \A r \in Regions : newest'[r].age <= newest[r].age
    BY <1>1, <1>2, WorkIs
  <2>8. QED
    BY <1>2, <2>6, <2>7, RecentKept
<1>11. Waiting => Waiting'
  <2>1. \A v \in Workers : worker'[v].pc = "touch" => worker[v].pc = "touch"
    BY <1>2, <1>7
  <2>2. ~StartDispatch(w) /\ ~FileAnswer(w)
    BY <1>3 DEF StartDispatch, FileAnswer, Take
  <2>3. Pending => Pending'
    BY <1>1, <1>2, <2>2, WorkPending
  <2>4. QED
    BY <1>2, <1>3, <2>1, <2>3, WaitingKept
<1>12. QED
  BY <1>2, <1>8, <1>9, <1>10, <1>11, QuietFollows

\* A verdict that is written for what all regions see settles the row.
LEMMA FollowVerdict ==
  ASSUME WatchedInv, WatchedInv', FollowInv, NEW w \in Workers, WriteVerdict(w)
  PROVE  FollowInv'
<1>1. Work(w)
  BY DEF Work
<1>2. /\ TypeInv /\ TypeOK /\ TypeOK' /\ Numbers /\ Numbers'
      /\ Reach' = Reach /\ Lost' = Lost /\ Net' = Net /\ Grace' = Grace
      /\ half' = half /\ calm' = calm /\ Sight' = Sight
      /\ (Steady' => Steady) /\ (LateInv => LateInv')
      /\ \A v \in Workers \ {w} : worker'[v] = worker[v]
      /\ worker \in [Workers -> WorkerState] /\ queue \in Seq(Job)
  BY <1>1, WorkFrame
<1>3. /\ worker' = [worker EXCEPT ![w] = Idle] /\ queue' = queue /\ newest' = newest
      /\ worker[w].pc = "write"
      /\ monitor' = IF Heals(worker[w])
                    THEN [monitor EXCEPT !.status = worker[w].next,
                                         !.failures = NextFailures(worker[w])]
                    ELSE monitor
  BY DEF WriteVerdict, Done, Go, Heals
<1>4. worker'[w].pc = "idle"
  BY <1>2, <1>3, IdleType
<1>5. Agreed => Agreed'
  BY <1>2, <1>4 DEF Agreed
<1>6. Agreed /\ Heals(worker[w]) => Followed'
  <2> SUFFICES ASSUME Agreed, Heals(worker[w]) PROVE Followed'
    OBVIOUS
  <2>1. worker[w].next = Sight
    BY <1>3 DEF Agreed
  <2>2. monitor'.status = Sight /\ monitor'.failures = NextFailures(worker[w])
    BY <1>2, <1>3, <2>1 DEF TypeOK, Row
  <2>3. Sight = "up" => NextFailures(worker[w]) = 0
    BY <2>1 DEF NextFailures
  <2>4. QED
    BY <1>2, <2>2, <2>3 DEF Followed
<1>7. Firm => Firm'
  <2>1. CASE Heals(worker[w])
    BY <1>2, <1>5, <1>6, <2>1 DEF Firm
  <2>2. CASE ~Heals(worker[w])
    BY <1>2, <1>3, <1>5, <2>2 DEF Firm, Followed
  <2>3. QED
    BY <2>1, <2>2
<1>8. CASE Heals(worker[w])
  <2>1. Agreed /\ calm > Freshness => Firm'
    BY <1>2, <1>5, <1>6, <1>8 DEF Firm
  <2>2. QED
    BY <1>2, <1>7, <2>1, QuietFollows
<1>9. CASE ~Heals(worker[w])
  <2>1. monitor' = monitor
    BY <1>3, <1>9
  <2>2. Recent => Recent'
    <3>1. \A r \in Regions : newest'[r].age <= newest[r].age
      BY <1>1, <1>2, WorkIs
    <3>2. Coming => Coming'
      BY <1>2, <1>3, <1>9, ComingKept
    <3>3. QED
      BY <1>2, <3>1, <3>2, RecentKept
  <2>3. Waiting => Waiting'
    <3>1. \A v \in Workers : worker'[v].pc = "touch" => worker[v].pc = "touch"
      BY <1>2, <1>4
    <3>2. ~StartDispatch(w) /\ ~FileAnswer(w)
      BY <1>3 DEF StartDispatch, FileAnswer, Take
    <3>3. Pending => Pending'
      BY <1>1, <1>2, <3>2, WorkPending
    <3>4. QED
      BY <1>2, <2>1, <3>1, <3>3, WaitingKept
  <2>4. QED
    BY <1>2, <1>5, <1>7, <2>2, <2>3, QuietFollows
<1>10. QED
  BY <1>8, <1>9

\* A worker that dies costs two half minutes, which is as much as its job held up.
LEMMA FollowCrash ==
  ASSUME WatchedInv, WatchedInv', FollowInv, NEW w \in Workers, CrashWorker(w)
  PROVE  FollowInv'
<1>1. TypeInv /\ TypeOK /\ TypeOK' /\ SpentInv /\ SpentInv' /\ Numbers /\ Numbers'
  <2>1. TypeInv /\ TypeOK /\ TypeOK' /\ SpentInv /\ SpentInv'
    BY DEF WatchedInv, TypeInv
  <2>2. QED
    BY <2>1, NetIs, NetIsThen
<1>2. /\ worker' = [worker EXCEPT ![w] = Idle] /\ monitor' = monitor /\ newest' = newest
      /\ half' = half /\ carried' = carried /\ target' = target /\ calm' = calm
  BY DEF CrashWorker, Done, Go, rows, world
<1>3. worker'[w].pc = "idle" /\ \A v \in Workers \ {w} : worker'[v] = worker[v]
  BY <1>1, <1>2, IdleType DEF TypeOK
<1>4. /\ Reach' = Reach /\ Lost' = Lost + 1 /\ Net' = Net - 2 /\ Grace' = Grace + 2
  <2>1. \A e \in Events : left'[e] = IF e = "crash" THEN left[e] - 1 ELSE left[e]
    BY <1>1, CrashType
  <2>2. {"crash", "behind", "late"} \subseteq Events
    BY DEF Events, Faults
  <2>3. /\ left'["crash"] = left["crash"] - 1 /\ left'["behind"] = left["behind"]
        /\ left'["late"] = left["late"]
    BY <2>1, <2>2
  <2>4. left["crash"] \in Nat /\ Budget["crash"] \in Nat
    BY <1>1, <2>2, DispatchAssumption DEF TypeOK
  <2>5. /\ Used("crash")' = Used("crash") + 1 /\ Used("behind")' = Used("behind")
        /\ Used("late")' = Used("late")
    BY <2>3, <2>4 DEF Used
  <2>6. Used("crash") \in Nat /\ Used("behind") \in Nat
    BY <1>1, <2>2, UsedIs
  <2>7. Reach' = Reach /\ Deferral' = Deferral
    BY <1>2, <2>5 DEF Reach, Deferral
  <2>8. Lost' = Lost + 1
    BY <2>5, <2>6 DEF Lost
  <2>9. Net' = Net - 2 /\ Grace' = Grace + 2
    BY <1>1, <1>2, <2>7, <2>8 DEF Net, Numbers
  <2>10. QED
    BY <2>7, <2>8, <2>9
<1>5. SUFFICES ASSUME Steady', Grace' < Freshness PROVE Firm' \/ Unfirm'
  BY DEF FollowInv
<1>6. Steady /\ Sight' = Sight
  BY <1>2, <1>5 DEF Steady, Sight
<1>7. Grace < Freshness
  BY <1>1, <1>4, <1>5 DEF Numbers
<1>8. Agreed => Agreed'
  BY <1>3, <1>6 DEF Agreed
<1>9. Firm \/ Unfirm
  BY <1>6, <1>7 DEF FollowInv
<1>10. CASE Firm
  BY <1>2, <1>6, <1>8, <1>10 DEF Firm, Followed
<1>11. CASE Unfirm
  <2>1. Unsettled => Unsettled'
    BY <1>1, <1>2, <1>4 DEF Unsettled, Numbers
  <2>2. LateInv'
    <3>1. \A r \in Remotes : carried[r].age \in Nat
      BY <1>1, DispatchAssumption DEF TypeOK, Ages
    <3>2. LateInv
      BY <1>11 DEF Unfirm
    <3>3. QED
      BY <1>1, <1>2, <1>4, <3>1, <3>2 DEF LateInv, Numbers
  <2>3. Recent => Recent'
    <3> SUFFICES ASSUME Recent PROVE Recent'
      OBVIOUS
    <3>1. Bit(Coming) \in 0 .. 1 /\ Bit(Coming)' \in 0 .. 1
      BY DEF Bit
    <3>2. PICK r \in Regions : newest[r].age <= 2 * Lost + half + 2 * Bit(Coming)
      BY DEF Recent, Fresher
    <3>3. newest[r].age \in Nat
      BY <1>1, DispatchAssumption DEF TypeOK, Ages
    <3>4. newest[r].age <= 2 * (Lost + 1) + half + 2 * Bit(Coming)'
      BY <1>1, <3>1, <3>2, <3>3 DEF Numbers
    <3>5. Fresher(2 * Lost + half + 2 * Bit(Coming))'
      BY <1>2, <1>4, <3>4 DEF Fresher
    <3>6. Net' < Reach' + half' + 2 + 2 * Bit(Coming)'
      BY <1>1, <1>2, <1>4, <3>1 DEF Recent, Numbers
    <3>7. QED
      BY <3>5, <3>6 DEF Recent
  <2>4. Waiting => Waiting'
    <3> SUFFICES ASSUME Waiting PROVE Waiting'
      OBVIOUS
    <3>1. Bit(Pending) \in 0 .. 1 /\ Bit(Pending)' \in 0 .. 1
      BY DEF Bit
    <3>2. monitor'.last >= Reach' \/ Net' < monitor'.last
      BY <1>1, <1>2, <1>4 DEF Waiting, Numbers
    <3>3. \A v \in Workers : worker'[v].pc # "touch"
      BY <1>3 DEF Waiting
    <3>4. Net' < Reach' + half' + 2 * Bit(Pending)'
      BY <1>1, <1>2, <1>4, <3>1 DEF Waiting, Numbers
    <3>5. QED
      BY <3>2, <3>3, <3>4 DEF Waiting
  <2>5. QED
    BY <1>8, <1>11, <2>1, <2>2, <2>3, <2>4 DEF Unfirm
<1>12. QED
  BY <1>9, <1>10, <1>11

\* A change starts anew: no verdict is owed until a fresh result has lasted.
Anew == Grace < Freshness => Net < 0

\* ... and so nothing is out of step.
LEMMA FollowsAnew == TypeOK /\ Numbers /\ Anew => FollowInv
<1> SUFFICES ASSUME TypeOK, Numbers, Anew, Grace < Freshness PROVE Unfirm
  BY DEF FollowInv
<1>1. Net < 0
  BY DEF Anew
<1>2. Unsettled
  BY <1>1 DEF Unsettled, Numbers
<1>3. LateInv
  <2>1. \A r \in Remotes : carried[r].age \in Nat
    BY DispatchAssumption DEF TypeOK, Ages
  <2>2. QED
    BY <1>1, <2>1 DEF LateInv, Numbers
<1>4. QED
  BY <1>2, <1>3 DEF Unfirm

\* ... in the next state, too.
LEMMA FollowsAnewThen == TypeOK' /\ Numbers' /\ Anew' => FollowInv'
BY FollowsAnew, PTL

\* A result that a remote region files is recent.
LEMMA FollowProbe ==
  ASSUME WatchedInv, WatchedInv', FollowInv, NEW r \in Remotes, ProbeTarget(r)
  PROVE  FollowInv'
<1>1. TypeInv /\ TypeOK /\ TypeOK' /\ Numbers /\ Numbers' /\ r \in Regions
  <2>1. TypeInv /\ TypeOK /\ TypeOK' /\ SpentInv /\ SpentInv'
    BY DEF WatchedInv, TypeInv
  <2>2. QED
    BY <2>1, NetIs, NetIsThen DEF Regions
<1>2. /\ queue' = queue /\ worker' = worker /\ left' = left
      /\ half' = half /\ carried' = carried /\ target' = target /\ calm' = calm
      /\ newest' = Recorded(r, 0, target[r]) /\ monitor' = [monitor EXCEPT !.last = 0]
  BY DEF ProbeTarget, world
<1>3. /\ monitor'.enabled = monitor.enabled /\ monitor'.interval = monitor.interval
      /\ monitor'.cap = monitor.cap /\ monitor'.status = monitor.status
      /\ monitor'.failures = monitor.failures
  BY <1>1, <1>2 DEF TypeOK, Row
<1>4. Reach' = Reach /\ Lost' = Lost /\ Net' = Net /\ Grace' = Grace
  BY <1>2, <1>3, NetKept
<1>5. (Steady' => Steady) /\ (LateInv => LateInv') /\ (Agreed => Agreed') /\ (Firm => Firm')
  BY <1>2, <1>3, <1>4 DEF Steady, Sight, LateInv, Agreed, Firm, Followed
<1>6. /\ \A q \in Regions : newest'[q].age <= newest[q].age
      /\ newest'[r].age <= 0 /\ newest'[r].age \in Nat
  <2>1. 0 \in Ages /\ target[r] \in Cast
    BY <1>1, DispatchAssumption DEF TypeOK, Ages
  <2>2. newest'[r].age \in Nat
    BY <1>1, DispatchAssumption DEF TypeOK, Ages
  <2>3. QED
    BY <1>1, <1>2, <2>1, <2>2, RecordedIs DEF TypeOK
<1>7. Recent => Recent'
  <2>1. Coming => Coming'
    BY <1>2 DEF Coming
  <2>2. QED
    BY <1>1, <1>2, <1>4, <1>6, <2>1, RecentKept
<1>8. Waiting => Recent'
  <2> SUFFICES ASSUME Waiting PROVE Recent'
    OBVIOUS
  <2>1. Bit(Coming)' \in 0 .. 1 /\ Bit(Pending) \in 0 .. 1
    BY DEF Bit
  <2>2. newest'[r].age <= 2 * Lost' + half' + 2 * Bit(Coming)'
    BY <1>1, <1>6, <2>1 DEF Numbers
  <2>3. Fresher(2 * Lost + half + 2 * Bit(Coming))'
    BY <1>1, <2>2 DEF Fresher
  <2>4. Net' < Reach' + half' + 2 + 2 * Bit(Coming)'
    BY <1>1, <1>2, <1>4, <2>1 DEF Waiting, Numbers
  <2>5. QED
    BY <2>3, <2>4 DEF Recent
<1>9. QED
  BY <1>1, <1>2, <1>4, <1>5, <1>7, <1>8, QuietFollows

\* A post that will come late is charged with what it may put off.
LEMMA FollowSlow ==
  ASSUME WatchedInv, WatchedInv', FollowInv, NEW r \in Remotes, ProbeSlowly(r)
  PROVE  FollowInv'
<1>1. TypeInv /\ TypeOK /\ TypeOK' /\ SpentInv /\ Numbers /\ Numbers'
  <2>1. TypeInv /\ TypeOK /\ TypeOK' /\ SpentInv /\ SpentInv'
    BY DEF WatchedInv, TypeInv
  <2>2. QED
    BY <2>1, NetIs, NetIsThen
<1>2. /\ half' = half /\ monitor' = monitor /\ newest' = newest /\ queue' = queue
      /\ worker' = worker /\ target' = target /\ calm' = calm
  BY DEF ProbeSlowly, rows
<1>3. Reach' = Reach /\ Lost' = Lost /\ Grace' = Grace /\ Net' = Net - (Reach + 5)
  <2>1. \A e \in Events : left'[e] = IF e = "late" THEN left[e] - 1 ELSE left[e]
    BY <1>1, ProbeType
  <2>2. {"crash", "behind", "late"} \subseteq Events
    BY DEF Events, Faults
  <2>3. /\ left'["late"] = left["late"] - 1 /\ left'["behind"] = left["behind"]
        /\ left'["crash"] = left["crash"]
    BY <2>1, <2>2
  <2>4. left["late"] \in Nat /\ Budget["late"] \in Nat
    BY <1>1, <2>2, DispatchAssumption DEF TypeOK
  <2>5. /\ Used("late")' = Used("late") + 1 /\ Used("behind")' = Used("behind")
        /\ Used("crash")' = Used("crash")
    BY <2>3, <2>4 DEF Used
  <2>6. Reach' = Reach /\ Lost' = Lost
    BY <1>2, <2>5 DEF Reach, Lost
  <2>7. Deferral' = Deferral + (Reach + 5)
    <3>1. \A a, b \in Nat : (a + 1) * b = a * b + b
      OBVIOUS
    <3>2. Used("late") \in Nat /\ Reach + 5 \in Nat
      BY <1>1, <2>2, UsedIs DEF Numbers
    <3>3. QED
      BY <2>5, <2>6, <3>1, <3>2 DEF Deferral
  <2>8. Net' = Net - (Reach + 5)
    BY <1>1, <1>2, <2>6, <2>7 DEF Net, Numbers
  <2>9. Grace' = Grace
    BY <2>5 DEF Grace
  <2>10. QED
    BY <2>6, <2>8, <2>9
<1>4. (Steady' => Steady) /\ (Firm => Firm')
  BY <1>2 DEF Steady, Sight, Agreed, Firm, Followed
<1>5. CASE Net < Reach + 5
  <2>1. Net' < 0
    BY <1>1, <1>3, <1>5 DEF Numbers
  <2>2. QED
    BY <1>1, <2>1, FollowsAnewThen DEF Anew
<1>6. CASE ~(Net < Reach + 5)
  <2>1. ~Unfirm
    <3>1. Bit(Coming) \in 0 .. 1 /\ Bit(Pending) \in 0 .. 1
      BY DEF Bit
    <3>2. ~Unsettled
      BY <1>1, <1>6 DEF Unsettled, Numbers
    <3>3. ~Recent
      BY <1>1, <1>6, <3>1 DEF Recent, Numbers
    <3>4. ~Waiting
      BY <1>1, <1>6, <3>1 DEF Waiting, Numbers
    <3>5. QED
      BY <3>2, <3>3, <3>4 DEF Unfirm
  <2>2. QED
    BY <1>3, <1>4, <2>1 DEF FollowInv
<1>7. QED
  BY <1>5, <1>6

\* When it comes, it puts off nothing that is due.
LEMMA FollowIngest ==
  ASSUME WatchedInv, WatchedInv', FollowInv, NEW r \in Remotes, IngestLate(r)
  PROVE  FollowInv'
<1>1. TypeInv /\ TypeOK /\ TypeOK' /\ Numbers /\ Numbers' /\ r \in Regions
  <2>1. TypeInv /\ TypeOK /\ TypeOK' /\ SpentInv /\ SpentInv'
    BY DEF WatchedInv, TypeInv
  <2>2. QED
    BY <2>1, NetIs, NetIsThen DEF Regions
<1>2. /\ queue' = queue /\ worker' = worker /\ left' = left
      /\ half' = half /\ target' = target /\ calm' = calm /\ carried[r] # Nothing
      /\ carried' = [carried EXCEPT ![r] = Nothing]
      /\ newest' = Recorded(r, carried[r].age, carried[r].status)
      /\ monitor' = [monitor EXCEPT !.last = Upto(carried[r].age)]
  BY DEF IngestLate
<1>3. /\ monitor'.enabled = monitor.enabled /\ monitor'.interval = monitor.interval
      /\ monitor'.cap = monitor.cap /\ monitor'.status = monitor.status
      /\ monitor'.failures = monitor.failures /\ monitor'.last = Upto(carried[r].age)
  BY <1>1, <1>2 DEF TypeOK, Row
<1>4. Reach' = Reach /\ Lost' = Lost /\ Net' = Net /\ Grace' = Grace
  BY <1>2, <1>3, NetKept
<1>5. carried'[r] = Nothing /\ \A q \in Remotes \ {r} : carried'[q] = carried[q]
  BY <1>1, <1>2 DEF TypeOK
<1>6. (Steady' => Steady) /\ (LateInv => LateInv') /\ (Agreed => Agreed') /\ (Firm => Firm')
  BY <1>2, <1>3, <1>4, <1>5 DEF Steady, Sight, LateInv, Agreed, Firm, Followed
<1>7. carried[r].age \in Ages /\ carried[r].status \in Cast
  BY <1>1, <1>2 DEF TypeInv, TypeOK
<1>8. Recent => Recent'
  <2>1. \A q \in Regions : newest'[q].age <= newest[q].age
    BY <1>1, <1>2, <1>7, RecordedIs DEF TypeOK
  <2>2. Coming => Coming'
    BY <1>2 DEF Coming
  <2>3. QED
    BY <1>1, <1>2, <1>4, <2>1, <2>2, RecentKept
<1>9. LateInv /\ Waiting => Waiting'
  <2> SUFFICES ASSUME LateInv, Waiting PROVE Waiting'
    OBVIOUS
  <2>1. carried[r].age >= Reach \/ Net < carried[r].age
    BY <1>2 DEF LateInv
  <2>2. monitor'.last >= Reach' \/ Net' < monitor'.last
    <3>1. /\ Upto(carried[r].age) \in 0 .. Overdue
          /\ Upto(carried[r].age) < Overdue => Upto(carried[r].age) = carried[r].age
      BY <1>7, UptoIs
    <3>2. CASE monitor'.last < Overdue
      BY <1>3, <1>4, <2>1, <3>1, <3>2
    <3>3. CASE ~(monitor'.last < Overdue)
      BY <1>1, <1>4, <3>3 DEF Numbers
    <3>4. QED
      BY <3>2, <3>3
  <2>3. Pending' = Pending
    BY <1>2 DEF Pending
  <2>4. Bit(Pending) \in 0 .. 1 /\ Bit(Pending)' = Bit(Pending)
    BY <2>3 DEF Bit
  <2>5. Net' < Reach' + half' + 2 * Bit(Pending)'
    BY <1>1, <1>2, <1>4, <2>4 DEF Waiting, Numbers
  <2>6. \A w \in Workers : worker'[w].pc # "touch"
    BY <1>2 DEF Waiting
  <2>7. QED
    BY <2>2, <2>5, <2>6 DEF Waiting
<1>10. QED
  BY <1>1, <1>2, <1>4, <1>6, <1>8, <1>9, QuietFollows

\* What people do, but for an edit or a change of the target, owes no verdict.
LEMMA FollowPeople ==
  ASSUME WatchedInv, WatchedInv', FollowInv,
         \/ RunCheckNow
         \/ \E enabled \in BOOLEAN, interval \in Intervals : EditMonitor(enabled, interval)
         \/ \E seers \in (SUBSET Regions) \ {{}}, status \in Sights : TargetChanges(seers, status)
  PROVE  FollowInv'
<1>1. TypeInv /\ TypeOK /\ TypeOK' /\ Numbers /\ Numbers'
  <2>1. TypeInv /\ TypeOK /\ TypeOK' /\ SpentInv /\ SpentInv'
    BY DEF WatchedInv, TypeInv
  <2>2. QED
    BY <2>1, NetIs, NetIsThen
<1>2. CASE RunCheckNow
  <2>1. /\ monitor' = monitor /\ newest' = newest /\ worker' = worker /\ half' = half
        /\ carried' = carried /\ target' = target /\ calm' = calm
        /\ queue' = Append(queue, Checking)
    BY <1>2 DEF RunCheckNow, rows, world
  <2>2. left'["behind"] = left["behind"] /\ left'["crash"] = left["crash"] /\ left'["late"] = left["late"]
    <3>1. Spend({"manual"}) /\ {"manual"} \in SUBSET Events /\ IsFiniteSet({"manual"})
      BY <1>2, FS_Singleton DEF RunCheckNow, Events, Faults
    <3>2. left \in [Events \cup {"any"} -> Nat]
      BY <1>1 DEF TypeOK
    <3>3. \A e \in Events : left'[e] = IF e \in {"manual"} THEN left[e] - 1 ELSE left[e]
      BY <3>1, <3>2, Spent
    <3>4. QED
      BY <3>3 DEF Events, Faults
  <2>3. Reach' = Reach /\ Lost' = Lost /\ Net' = Net /\ Grace' = Grace
    BY <2>1, <2>2, NetKept
  <2>4. (Steady' => Steady) /\ (LateInv => LateInv') /\ (Agreed => Agreed') /\ (Firm => Firm')
    BY <2>1, <2>3 DEF Steady, Sight, LateInv, Agreed, Firm, Followed
  <2>5. Recent => Recent'
    <3>1. Coming => Coming'
      BY <1>1, <2>1, AskedIs, JobTypes DEF Coming, TypeOK
    <3>2. \A r \in Regions : newest'[r].age <= newest[r].age
      BY <1>1, <2>1, DispatchAssumption DEF TypeOK, Ages
    <3>3. QED
      BY <1>1, <2>1, <2>3, <3>1, <3>2, RecentKept
  <2>6. Waiting => Waiting'
    <3>1. Pending => Pending'
      BY <1>1, <2>1, QueuedIs, JobTypes DEF Pending, TypeOK
    <3>2. QED
      BY <1>1, <2>1, <2>3, <3>1, WaitingKept
  <2>7. QED
    BY <1>1, <2>1, <2>3, <2>4, <2>5, <2>6, QuietFollows
<1>3. CASE ~RunCheckNow
  <2>1. calm' = 0
    BY <1>3 DEF EditMonitor, TargetChanges
  <2>2. Anew'
    <3>1. PICK net \in Int, lost \in Nat : net = Net' /\ lost = Lost'
      BY <1>1 DEF Numbers
    <3>2. net <= 0 - Freshness - 2 * lost /\ Freshness \in Nat
      BY <1>1, <2>1, <3>1 DEF Numbers
    <3>3. \A f, l \in Nat, n \in Int : n <= 0 - f - 2 * l /\ 2 + 2 * l < f => n < 0
      OBVIOUS
    <3>4. 2 + 2 * lost < Freshness => net < 0
      BY <3>1, <3>2, <3>3
    <3>5. Grace' = 2 + 2 * lost
      BY <1>1, <3>1 DEF Numbers
    <3>6. QED
      BY <3>1, <3>4, <3>5 DEF Anew
  <2>3. QED
    BY <1>1, <2>2, FollowsAnewThen
<1>4. QED
  BY <1>2, <1>3

\* What half a minute does to the frame of the invariant.
LEMMA TimeFrame ==
  ASSUME WatchedInv, WatchedInv', HalfMinute \/ Tick
  PROVE  /\ TypeInv /\ TypeOK /\ TypeOK' /\ Numbers /\ Numbers' /\ StampInv'
         /\ Reach' = Reach /\ Sight' = Sight /\ (Steady' => Steady)
         /\ \/ HalfMinute /\ half = 0 /\ half' = 1 /\ Lost' = Lost /\ Net' <= Net + 1
            \/ Tick /\ half = 1 /\ half' = 0 /\ Busy /\ Lost' = Lost + 1 /\ Net' <= Net - 1
            \/ Tick /\ half = 1 /\ half' = 0 /\ ~Busy /\ Lost' = Lost /\ Net' <= Net + 1
         /\ Agreed => Agreed'
         /\ Firm => Firm'
         /\ monitor'.last >= Reach \/ monitor'.last = monitor.last + 1
         /\ \A r \in Regions : newest'[r].age <= newest[r].age + 1
         /\ \A w \in Workers :
              /\ worker'[w].pc = worker[w].pc
              /\ worker[w].pc = "write" => worker'[w] = worker[w]
<1>1. /\ TypeInv /\ TypeOK /\ TypeOK' /\ SpentInv /\ SpentInv' /\ StampInv' /\ Numbers /\ Numbers'
  <2>1. TypeInv /\ TypeOK /\ TypeOK' /\ SpentInv /\ SpentInv' /\ StampInv'
    BY DEF WatchedInv, TypeInv
  <2>2. QED
    BY <2>1, NetIs, NetIsThen
<1>2. Ageing
  BY DEF HalfMinute, Tick
<1>3. /\ monitor' \in Row /\ monitor' = [monitor EXCEPT !.last = monitor'.last]
      /\ monitor'.last < Overdue => monitor'.last = monitor.last + 1
      /\ \A r \in Regions : newest'[r].age <= newest[r].age + 1
      /\ \A w \in Workers :
           /\ worker'[w].pc = worker[w].pc
           /\ worker[w].pc \notin {"answer", "touch"} => worker'[w] = worker[w]
      /\ calm' <= calm + 1 /\ target' = target
  BY <1>1, <1>2, AgeingIs
<1>4. /\ monitor'.enabled = monitor.enabled /\ monitor'.interval = monitor.interval
      /\ monitor'.cap = monitor.cap /\ monitor'.status = monitor.status
      /\ monitor'.failures = monitor.failures
  BY <1>1, <1>3 DEF TypeOK, Row
<1>5. Reach' = Reach /\ Sight' = Sight /\ (Steady' => Steady)
  BY <1>3, <1>4 DEF Reach, Sight, Steady
<1>6. calm' >= calm
  <2>1. Settled \in Nat /\ calm \in 0 .. Settled /\ calm' = Older(calm, Settled)
    BY <1>1, <1>2, DispatchAssumption DEF TypeOK, Ageing
  <2>2. QED
    BY <2>1 DEF Older
<1>7. \A w \in Workers : worker[w].pc = "write" => worker'[w] = worker[w]
  BY <1>3
<1>8. Agreed => Agreed'
  BY <1>3, <1>5, <1>7 DEF Agreed
<1>9. Firm => Firm'
  <2>1. calm > Freshness => calm' > Freshness
    BY <1>1, <1>6 DEF Numbers
  <2>2. QED
    BY <1>4, <1>5, <1>8, <2>1 DEF Firm, Followed
<1>10. monitor'.last >= Reach \/ monitor'.last = monitor.last + 1
  <2>1. monitor'.last \in Nat /\ Overdue \in Nat /\ Reach \in Nat /\ Reach <= Overdue
    BY <1>1 DEF Numbers
  <2>2. QED
    BY <1>3, <2>1
<1>11. \/ HalfMinute /\ half = 0 /\ half' = 1 /\ Lost' = Lost /\ Net' <= Net + 1
       \/ Tick /\ half = 1 /\ half' = 0 /\ Busy /\ Lost' = Lost + 1 /\ Net' <= Net - 1
       \/ Tick /\ half = 1 /\ half' = 0 /\ ~Busy /\ Lost' = Lost /\ Net' <= Net + 1
  <2>1. {"crash", "behind", "late"} \subseteq Events
    BY DEF Events, Faults
  <2>2. /\ Used("behind") \in Nat /\ Used("crash") \in Nat
        /\ Budget["behind"] \in Nat /\ left["behind"] \in Nat
    BY <1>1, <2>1, UsedIs, DispatchAssumption DEF TypeOK
  <2>3. CASE HalfMinute
    <3>1. left' = left /\ half = 0 /\ half' = 1
      BY <2>3 DEF HalfMinute
    <3>2. Lost' = Lost /\ Deferral' = Deferral
      BY <1>5, <3>1 DEF Lost, Deferral, Used
    <3>3. Net' <= Net + 1
      BY <1>1, <1>3, <3>2 DEF Net, Numbers
    <3>4. QED
      BY <2>3, <3>1, <3>2, <3>3
  <2>4. CASE Tick
    <3>1. half = 1 /\ half' = 0
      BY <2>4 DEF Tick
    <3>2. \A e \in Events : left'[e] = IF Busy /\ e = "behind" THEN left[e] - 1 ELSE left[e]
      BY <1>1, <2>4, TimeType
    <3>3. /\ left'["crash"] = left["crash"] /\ left'["late"] = left["late"]
          /\ left'["behind"] = IF Busy THEN left["behind"] - 1 ELSE left["behind"]
      BY <2>1, <3>2
    <3>4. Deferral' = Deferral /\ Used("crash")' = Used("crash")
      BY <1>5, <3>3 DEF Deferral, Used
    <3>5. CASE Busy
      <4>1. Used("behind")' = Used("behind") + 1
        BY <2>2, <3>3, <3>5 DEF Used
      <4>2. Lost' = Lost + 1
        BY <2>2, <3>4, <4>1 DEF Lost
      <4>3. Net' <= Net - 1
        BY <1>1, <1>3, <3>4, <4>2 DEF Net, Numbers
      <4>4. QED
        BY <2>4, <3>1, <3>5, <4>2, <4>3
    <3>6. CASE ~Busy
      <4>1. Used("behind")' = Used("behind")
        BY <3>3, <3>6 DEF Used
      <4>2. Lost' = Lost
        BY <3>4, <4>1 DEF Lost
      <4>3. Net' <= Net + 1
        BY <1>1, <1>3, <3>4, <4>2 DEF Net, Numbers
      <4>4. QED
        BY <2>4, <3>1, <3>6, <4>2, <4>3
    <3>7. QED
      BY <3>5, <3>6
  <2>5. QED
    BY <2>3, <2>4
<1>12. QED
  BY <1>1, <1>3, <1>5, <1>7, <1>8, <1>9, <1>10, <1>11

\* A post that is on its way grows older as fast as the calm.
LEMMA LateAges ==
  ASSUME WatchedInv, WatchedInv', HalfMinute \/ Tick, LateInv, Net' <= Net + 1
  PROVE  LateInv'
<1>1. TypeInv /\ TypeOK /\ TypeOK' /\ Numbers /\ Numbers' /\ Reach' = Reach
  BY TimeFrame
<1> SUFFICES ASSUME NEW r \in Remotes, carried'[r] # Nothing
             PROVE  carried'[r].age >= Reach' \/ Net' < carried'[r].age
  BY DEF LateInv
<1>2. /\ carried[r] # Nothing /\ carried[r].age \in 0 .. Old
      /\ carried'[r] = [carried[r] EXCEPT !.age = Older(carried[r].age, Old)]
      /\ carried[r] \in [age: Ages, status: Verdicts]
  BY DEF HalfMinute, Tick, Ageing, TypeOK, Ages, WatchedInv, TypeInv
<1>3. carried'[r].age = Older(carried[r].age, Old)
  BY <1>2
<1>4. carried[r].age >= Reach \/ Net < carried[r].age
  BY <1>2 DEF LateInv
<1>5. PICK a \in Nat, b \in Nat, n \in Int : a = carried[r].age /\ b = carried'[r].age /\ n = Net'
  <2>1. carried[r].age \in Nat /\ carried'[r].age \in Nat
    BY <1>1, DispatchAssumption DEF TypeOK, Ages
  <2>2. QED
    BY <1>1, <2>1 DEF Numbers
<1>6. b = IF a < Old THEN a + 1 ELSE Old
  BY <1>3, <1>5 DEF Older
<1>7. b >= Reach \/ n < b
  <2>1. Old \in Nat /\ Reach \in Nat /\ Reach <= Old /\ Net \in Int /\ n <= Net + 1
    BY <1>1, <1>5 DEF Numbers
  <2>2. a >= Reach \/ Net < a
    BY <1>4, <1>5
  <2>3. QED
    BY <1>6, <2>1, <2>2
<1>8. QED
  BY <1>1, <1>5, <1>7

\* Half a minute keeps what follows.
LEMMA FollowHalf ==
  ASSUME WatchedInv, WatchedInv', FollowInv, HalfMinute
  PROVE  FollowInv'
<1>1. /\ TypeInv /\ TypeOK /\ TypeOK' /\ Numbers /\ Numbers' /\ StampInv'
      /\ Reach' = Reach /\ Sight' = Sight /\ (Steady' => Steady)
      /\ half = 0 /\ half' = 1 /\ Lost' = Lost /\ Net' <= Net + 1
      /\ Agreed => Agreed'
      /\ Firm => Firm'
      /\ monitor'.last >= Reach \/ monitor'.last = monitor.last + 1
      /\ \A r \in Regions : newest'[r].age <= newest[r].age + 1
      /\ \A w \in Workers :
           /\ worker'[w].pc = worker[w].pc
           /\ worker[w].pc = "write" => worker'[w] = worker[w]
  <2>1. ~Tick
    BY DEF HalfMinute, Tick
  <2>2. QED
    BY <2>1, TimeFrame
<1>2. queue' = queue
  BY DEF HalfMinute
<1> SUFFICES ASSUME Steady', Grace' < Freshness PROVE Firm' \/ Unfirm'
  BY DEF FollowInv
<1>3. Steady /\ Grace < Freshness
  BY <1>1 DEF Numbers
<1>4. PICK net \in Int : net = Net' /\ net <= Net + 1
  BY <1>1 DEF Numbers
<1>5. CASE Firm
  BY <1>1, <1>5
<1>6. CASE Unfirm
  <2>1. Unsettled => Unsettled'
    <3>1. Net <= 0 => net <= 1
      BY <1>1, <1>4 DEF Numbers
    <3>2. QED
      BY <1>1, <1>4, <3>1 DEF Unsettled
  <2>2. LateInv'
    BY <1>1, <1>6, LateAges DEF Unfirm
  <2>3. Recent => Recent'
    <3> SUFFICES ASSUME Recent PROVE Recent'
      OBVIOUS
    <3>1. Coming => Coming'
      BY <1>1, <1>2 DEF Coming
    <3>2. Bit(Coming) \in 0 .. 1 /\ Bit(Coming)' \in 0 .. 1 /\ Bit(Coming) <= Bit(Coming)'
      BY <3>1 DEF Bit
    <3>3. PICK r \in Regions : newest[r].age <= 2 * Lost + half + 2 * Bit(Coming)
      BY DEF Recent, Fresher
    <3>4. PICK a \in Nat : a = newest'[r].age
      BY <1>1, DispatchAssumption DEF TypeOK, Ages
    <3>5. newest[r].age \in Nat /\ a <= newest[r].age + 1
      BY <1>1, <3>4, DispatchAssumption DEF TypeOK, Ages
    <3>6. a <= 2 * Lost' + half' + 2 * Bit(Coming)'
      BY <1>1, <3>2, <3>3, <3>4, <3>5 DEF Numbers
    <3>7. Fresher(2 * Lost + half + 2 * Bit(Coming))'
      BY <3>4, <3>6 DEF Fresher
    <3>8. net < Reach + 1 + 2 + 2 * Bit(Coming)'
      BY <1>1, <1>4, <3>2 DEF Recent, Numbers
    <3>9. Net' < Reach' + half' + 2 + 2 * Bit(Coming)'
      BY <1>1, <1>4, <3>8
    <3>10. QED
      BY <3>7, <3>9 DEF Recent
  <2>4. Waiting => Waiting'
    <3> SUFFICES ASSUME Waiting PROVE Waiting'
      OBVIOUS
    <3>1. Pending => Pending'
      BY <1>1, <1>2 DEF Pending
    <3>2. Bit(Pending) \in 0 .. 1 /\ Bit(Pending)' \in 0 .. 1 /\ Bit(Pending) <= Bit(Pending)'
      BY <3>1 DEF Bit
    <3>3. PICK last \in Nat : last = monitor'.last
      BY <1>1 DEF Numbers
    <3>4. last >= Reach \/ net < last
      BY <1>1, <1>4, <3>3 DEF Waiting, Numbers
    <3>5. monitor'.last >= Reach' \/ Net' < monitor'.last
      BY <1>1, <1>4, <3>3, <3>4
    <3>6. \A v \in Workers : worker'[v].pc # "touch"
      BY <1>1 DEF Waiting
    <3>7. net < Reach + 1 + 2 * Bit(Pending)'
      BY <1>1, <1>4, <3>2 DEF Waiting, Numbers
    <3>8. Net' < Reach' + half' + 2 * Bit(Pending)'
      BY <1>1, <1>4, <3>7
    <3>9. QED
      BY <3>5, <3>6, <3>8 DEF Waiting
  <2>5. QED
    BY <1>1, <1>6, <2>1, <2>2, <2>3, <2>4 DEF Unfirm
<1>7. QED
  BY <1>3, <1>5, <1>6 DEF FollowInv

\* So does the minute: one that finds jobs undone is charged, and one that finds
\* none has a recent result or waits for the next.
LEMMA FollowTick ==
  ASSUME WatchedInv, WatchedInv', FollowInv, Tick
  PROVE  FollowInv'
<1>1. /\ TypeInv /\ TypeOK /\ TypeOK' /\ Numbers /\ Numbers' /\ StampInv'
      /\ Reach' = Reach /\ Sight' = Sight /\ (Steady' => Steady)
      /\ half = 1 /\ half' = 0
      /\ \/ Busy /\ Lost' = Lost + 1 /\ Net' <= Net - 1
         \/ ~Busy /\ Lost' = Lost /\ Net' <= Net + 1
      /\ Agreed => Agreed'
      /\ Firm => Firm'
      /\ monitor'.last >= Reach \/ monitor'.last = monitor.last + 1
      /\ \A r \in Regions : newest'[r].age <= newest[r].age + 1
      /\ \A w \in Workers :
           /\ worker'[w].pc = worker[w].pc
           /\ worker[w].pc = "write" => worker'[w] = worker[w]
  <2>1. ~HalfMinute
    BY DEF HalfMinute, Tick
  <2>2. QED
    BY <2>1, TimeFrame
<1>2. Coming' /\ Pending'
  <2>1. queue' = queue \o <<Dispatching, Evaluating>> /\ queue \in Seq(Job)
    BY <1>1 DEF Tick, TypeOK
  <2>2. queue' = Append(Append(queue, Dispatching), Evaluating)
    BY <2>1, MinuteIs
  <2>3. Append(queue, Dispatching) \in Seq(Job) /\ Evaluating \in Job /\ Evaluating.kind = "evaluate"
    BY <2>1, JobTypes DEF Evaluating
  <2>4. Asked(queue')
    BY <2>2, <2>3, AskedIs
  <2>5. Queued(queue')
    BY <2>1, QueuedIs
  <2>6. QED
    BY <2>4, <2>5 DEF Coming, Pending
<1>3. /\ Bit(Coming)' = 1 /\ Bit(Pending)' = 1
      /\ Bit(Coming) \in 0 .. 1 /\ Bit(Pending) \in 0 .. 1
  BY <1>2 DEF Bit
<1> SUFFICES ASSUME Steady', Grace' < Freshness PROVE Firm' \/ Unfirm'
  BY DEF FollowInv
<1>4. Steady /\ Grace < Freshness
  <2>1. PICK lost \in Nat : lost = Lost' /\ (lost = Lost + 1 \/ lost = Lost)
    BY <1>1 DEF Numbers
  <2>2. Grace' = 2 + 2 * lost
    BY <1>1, <2>1 DEF Numbers
  <2>3. 2 + 2 * lost < Freshness
    BY <2>2
  <2>4. Grace = 2 + 2 * Lost /\ Lost \in Nat /\ Freshness \in Nat
    BY <1>1 DEF Numbers
  <2>5. Grace < Freshness
    <3>1. CASE lost = Lost
      BY <2>3, <2>4, <3>1
    <3>2. CASE lost = Lost + 1
      BY <2>3, <2>4, <3>2
    <3>3. QED
      BY <2>1, <3>1, <3>2
  <2>6. QED
    BY <1>1, <2>5
<1>5. PICK net \in Int, last \in Nat : net = Net' /\ last = monitor'.last
  BY <1>1 DEF Numbers
<1>6. \A r \in Regions : newest[r].age \in Nat /\ newest'[r].age \in Nat
  BY <1>1, DispatchAssumption DEF TypeOK, Ages
<1>7. ASSUME Unfirm PROVE LateInv'
  <2>1. Net' <= Net + 1
    BY <1>1, <1>5 DEF Numbers
  <2>2. QED
    BY <1>7, <2>1, LateAges DEF Unfirm
<1>8. CASE Firm
  BY <1>1, <1>8
<1>9. CASE Unfirm /\ Busy
  <2>1. Lost' = Lost + 1 /\ net <= Net - 1
    BY <1>1, <1>5, <1>9
  <2>2. Unsettled => Unsettled'
    <3>1. Net <= 1 => net <= 0
      BY <1>1, <1>5, <2>1 DEF Numbers
    <3>2. QED
      BY <1>1, <1>5, <3>1 DEF Unsettled
  <2>3. Recent => Recent'
    <3> SUFFICES ASSUME Recent PROVE Recent'
      OBVIOUS
    <3>1. PICK r \in Regions : newest[r].age <= 2 * Lost + half + 2 * Bit(Coming)
      BY DEF Recent, Fresher
    <3>2. PICK a \in Nat : a = newest'[r].age /\ a <= newest[r].age + 1
      BY <1>1, <1>6
    <3>3. a <= 2 * (Lost + 1) + 0 + 2 * 1
      BY <1>1, <1>3, <1>6, <3>1, <3>2 DEF Numbers
    <3>4. newest'[r].age <= 2 * Lost' + half' + 2 * Bit(Coming)'
      BY <1>1, <1>3, <2>1, <3>2, <3>3
    <3>5. Fresher(2 * Lost + half + 2 * Bit(Coming))'
      BY <3>4 DEF Fresher
    <3>6. net < Reach + 0 + 2 + 2 * 1
      BY <1>1, <1>3, <1>5, <2>1 DEF Recent, Numbers
    <3>7. Net' < Reach' + half' + 2 + 2 * Bit(Coming)'
      BY <1>1, <1>3, <1>5, <3>6
    <3>8. QED
      BY <3>5, <3>7 DEF Recent
  <2>4. Waiting => Waiting'
    <3> SUFFICES ASSUME Waiting PROVE Waiting'
      OBVIOUS
    <3>1. last >= Reach \/ net < last
      BY <1>1, <1>5, <2>1 DEF Waiting, Numbers
    <3>2. monitor'.last >= Reach' \/ Net' < monitor'.last
      BY <1>1, <1>5, <3>1
    <3>3. \A v \in Workers : worker'[v].pc # "touch"
      BY <1>1 DEF Waiting
    <3>4. net < Reach + 0 + 2 * 1
      BY <1>1, <1>3, <1>5, <2>1 DEF Waiting, Numbers
    <3>5. Net' < Reach' + half' + 2 * Bit(Pending)'
      BY <1>1, <1>3, <1>5, <3>4
    <3>6. QED
      BY <3>2, <3>3, <3>5 DEF Waiting
  <2>5. QED
    BY <1>1, <1>7, <1>9, <2>2, <2>3, <2>4 DEF Unfirm
<1>10. CASE Unfirm /\ ~Busy
  <2>1. Lost' = Lost /\ net <= Net + 1
    BY <1>1, <1>5, <1>10
  <2>2. queue = <<>> /\ \A w \in Workers : worker[w].pc = "idle"
    BY <1>10 DEF Busy
  <2>3. \A w \in Workers : worker'[w].pc = "idle"
    BY <1>1, <2>2
  <2>4. Bit(Coming) = 0 /\ Bit(Pending) = 0
    BY <2>2 DEF Bit, Coming, Asked, Pending, Queued
  <2>5. Agreed'
    BY <2>3 DEF Agreed
  <2>6. ASSUME NEW r \in Regions, newest'[r].age <= 2 * Lost + 2, net < Reach + 4 PROVE Recent'
    <3>1. 2 * Lost' + half' + 2 * Bit(Coming)' = 2 * Lost + 2
      BY <1>1, <1>3, <2>1 DEF Numbers
    <3>2. Fresher(2 * Lost + half + 2 * Bit(Coming))'
      BY <2>6, <3>1 DEF Fresher
    <3>3. Reach' + half' + 2 + 2 * Bit(Coming)' = Reach + 4
      BY <1>1, <1>3 DEF Numbers
    <3>4. QED
      BY <1>5, <2>6, <3>2, <3>3 DEF Recent
  <2>7. ASSUME last >= Reach \/ net < last, net < Reach + 2 PROVE Waiting'
    <3>1. monitor'.last >= Reach' \/ Net' < monitor'.last
      BY <1>1, <1>5, <2>7
    <3>2. Reach' + half' + 2 * Bit(Pending)' = Reach + 2
      BY <1>1, <1>3 DEF Numbers
    <3>3. QED
      BY <1>5, <2>3, <2>7, <3>1, <3>2 DEF Waiting
  <2>8. CASE Recent
    <3>1. PICK r \in Regions : newest[r].age <= 2 * Lost + half + 2 * Bit(Coming)
      BY <2>8 DEF Recent, Fresher
    <3>2. PICK a \in Nat : a = newest'[r].age /\ a <= newest[r].age + 1
      BY <1>1, <1>6
    <3>3. a <= 2 * Lost + 2
      BY <1>1, <1>6, <2>4, <3>1, <3>2 DEF Numbers
    <3>4. net < Reach + 4
      BY <1>1, <1>5, <2>1, <2>4, <2>8 DEF Recent, Numbers
    <3>5. QED
      BY <1>7, <1>10, <2>5, <2>6, <3>2, <3>3, <3>4 DEF Unfirm
  <2>9. CASE Waiting
    <3>1. last >= Reach \/ net < last
      BY <1>1, <1>5, <2>1, <2>9 DEF Waiting, Numbers
    <3>2. net < Reach + 2
      BY <1>1, <1>5, <2>1, <2>4, <2>9 DEF Waiting, Numbers
    <3>3. QED
      BY <1>7, <1>10, <2>5, <2>7, <3>1, <3>2 DEF Unfirm
  <2>10. CASE Unsettled
    <3>1. net <= 2 /\ net < Reach + 2 /\ net < Reach + 4
      BY <1>1, <1>5, <2>1, <2>10 DEF Unsettled, Numbers
    <3>2. CASE \E r \in Regions : newest'[r].age <= 2 * Lost + 2
      BY <1>7, <1>10, <2>5, <2>6, <3>1, <3>2 DEF Unfirm
    <3>3. CASE \A r \in Regions : ~(newest'[r].age <= 2 * Lost + 2)
      <4>1. last >= Overdue \/ \E r \in Regions : newest'[r].age <= last
        BY <1>1, <1>5 DEF StampInv, Numbers
      <4>2. ASSUME NEW r \in Regions, newest'[r].age <= last PROVE net < last
        <5>1. PICK a \in Nat : a = newest'[r].age
          BY <1>6
        <5>2. a <= last /\ ~(a <= 2 * Lost + 2)
          BY <3>3, <4>2, <5>1
        <5>3. QED
          BY <1>1, <1>5, <3>1, <5>1, <5>2 DEF Numbers
      <4>3. last >= Overdue => last >= Reach
        BY <1>1, <1>5 DEF Numbers
      <4>4. last >= Reach \/ net < last
        BY <4>1, <4>2, <4>3
      <4>5. QED
        BY <1>7, <1>10, <2>5, <2>7, <3>1, <4>4 DEF Unfirm
    <3>4. QED
      BY <3>2, <3>3
  <2>11. QED
    BY <1>10, <2>8, <2>9, <2>10 DEF Unfirm
<1>11. QED
  BY <1>4, <1>8, <1>9, <1>10 DEF FollowInv

\* What follows does so throughout.
LEMMA FollowThroughout == Spec => [](WatchedInv /\ FollowInv)
<1>1. Init => TruthInv /\ FollowInv
  <2> SUFFICES ASSUME Init PROVE TruthInv /\ FollowInv
    OBVIOUS
  <2>1. TypeInv /\ TypeOK /\ SpentInv /\ Numbers /\ calm = 0
    <3>1. TypeInv /\ TypeOK /\ SpentInv
      BY InitWatched DEF WatchedInv, TypeInv
    <3>2. QED
      BY <3>1, NetIs DEF Init
  <2>2. TruthInv
    <3>1. /\ \A r \in Regions : newest[r].age \in Nat
          /\ \A r \in Remotes : carried[r].age \in Nat
      BY <2>1, DispatchAssumption DEF TypeOK, Ages
    <3>2. /\ \A r \in Regions : ~(newest[r].age < calm)
          /\ \A r \in Remotes : ~(carried[r].age < calm)
      BY <2>1, <3>1
    <3>3. QED
      BY <3>2 DEF TruthInv
  <2>3. Anew
    BY <2>1 DEF Anew, Numbers
  <2>4. QED
    BY <2>1, <2>2, <2>3, FollowsAnew
<1>2. WatchedInv /\ WatchedInv' /\ TruthInv /\ FollowInv /\ [Next]_vars => TruthInv' /\ FollowInv'
  <2> SUFFICES ASSUME WatchedInv, WatchedInv', TruthInv, FollowInv, [Next]_vars
               PROVE  TruthInv' /\ FollowInv'
    OBVIOUS
  <2>1. TruthInv'
    BY TruthStep
  <2>2. ASSUME NEW w \in Workers, Work(w) PROVE FollowInv'
    BY <2>2, FollowDispatch, FollowCheck, FollowFile, FollowTouch, FollowEvaluate, FollowVerdict
       DEF Work
  <2>3. CASE \E w \in Workers : CrashWorker(w)
    BY <2>1, <2>3, FollowCrash
  <2>4. CASE \E r \in Remotes : ProbeTarget(r) \/ ProbeSlowly(r) \/ IngestLate(r)
    BY <2>1, <2>4, FollowProbe, FollowSlow, FollowIngest
  <2>5. CASE \/ RunCheckNow
             \/ \E enabled \in BOOLEAN, interval \in Intervals : EditMonitor(enabled, interval)
             \/ \E seers \in (SUBSET Regions) \ {{}}, status \in Sights : TargetChanges(seers, status)
    BY <2>1, <2>5, FollowPeople
  <2>6. CASE HalfMinute \/ Tick
    BY <2>1, <2>6, FollowHalf, FollowTick
  <2>7. CASE UNCHANGED vars
    <3>1. Steady' = Steady /\ Grace' = Grace
      BY <2>7 DEF vars, Steady, Sight, Grace, Used
    <3>2. Agreed' = Agreed /\ Firm' = Firm
      BY <2>7 DEF vars, Sight, Firm, Followed, Agreed
    <3>3. Net' = Net /\ Reach' = Reach /\ Lost' = Lost /\ half' = half
      BY <2>7 DEF vars, Net, Lost, Deferral, Reach, Used
    <3>4. Unsettled' = Unsettled /\ LateInv' = LateInv
      BY <2>7, <3>3 DEF vars, Unsettled, LateInv
    <3>5. Coming' = Coming /\ Pending' = Pending
      BY <2>7 DEF vars, Coming, Pending
    <3>6. Recent' = Recent
      BY <2>7, <3>3, <3>5 DEF vars, Recent, Fresher, Bit
    <3>7. Waiting' = Waiting
      BY <2>7, <3>3, <3>5 DEF vars, Waiting, Bit
    <3>8. QED
      BY <2>1, <3>1, <3>2, <3>4, <3>6, <3>7 DEF FollowInv, Unfirm
  <2>8. QED
    BY <2>1, <2>2, <2>3, <2>4, <2>5, <2>6, <2>7 DEF Next
<1>3. QED
  BY <1>1, <1>2, WatchedThroughout, PTL DEF Spec

\* Verdicts that may still disagree are reached before the net time is up.
LEMMA FollowedAtLast ==
  ASSUME TypeOK, SpentInv, FollowInv, Steady, Grace < Freshness, Net > Reach + 4
  PROVE  Followed
<1>1. Numbers
  BY NetIs
<1>2. Firm \/ Unfirm
  BY DEF FollowInv
<1>3. ~Unfirm
  <2>1. Bit(Coming) \in 0 .. 1 /\ Bit(Pending) \in 0 .. 1
    BY DEF Bit
  <2>2. ~Unsettled
    BY <1>1 DEF Unsettled, Numbers
  <2>3. ~Recent
    BY <1>1, <2>1 DEF Recent, Numbers
  <2>4. ~Waiting
    BY <1>1, <2>1 DEF Waiting, Numbers
  <2>5. QED
    BY <2>2, <2>3, <2>4 DEF Unfirm
<1>4. QED
  BY <1>2, <1>3 DEF Firm

\* What StatusFollows says holds after a longer time, too, whatever posts come
\* late: each may put off the next look by as much as the interval, stretched by
\* its cap, for it moves last_checked_at without a result that has a vote.
StatusFollowsLate ==
  \A s \in Sights :
    /\ monitor.enabled
    /\ calm > Patience + Freshness + 2 + Used("late") * (monitor.interval * monitor.cap + 5)
    /\ \A r \in Regions : target[r] = s
    => /\ monitor.status = s
       /\ s = "up" => monitor.failures = 0

\* Once every region has seen the target in one state for that long, the monitor
\* is in it, whatever the number of workers, the regions, the threshold and the
\* interval, as long as a result keeps its vote for longer than the jobs of a
\* minute may take (Grace): else none may be left to vote when one evaluates.
THEOREM FollowsLate == Spec => [](Grace < Freshness => StatusFollowsLate)
<1>1. WatchedInv /\ FollowInv => (Grace < Freshness => StatusFollowsLate)
  <2> SUFFICES ASSUME WatchedInv, FollowInv, Grace < Freshness, NEW s \in Sights, monitor.enabled,
                      calm > Patience + Freshness + 2
                               + Used("late") * (monitor.interval * monitor.cap + 5),
                      \A r \in Regions : target[r] = s
               PROVE  monitor.status = s /\ (s = "up" => monitor.failures = 0)
    BY DEF StatusFollowsLate
  <2>1. TypeOK /\ SpentInv /\ Numbers
    BY NetIs DEF WatchedInv, TypeInv
  <2>2. Sight = s /\ Steady
    BY DEF Sight, Steady, Regions
  <2>3. Net > Reach + 4
    <3>1. Patience = Reach + Grace
      BY DEF Patience, Reach
    <3>2. Used("late") * (monitor.interval * monitor.cap + 5) = Deferral
      BY DEF Deferral, Reach
    <3>3. calm > Reach + Grace + Freshness + 2 + Deferral
      BY <3>1, <3>2
    <3>4. QED
      BY <2>1, <3>3 DEF Net, Numbers
  <2>4. Followed
    BY <2>1, <2>2, <2>3, FollowedAtLast
  <2>5. QED
    BY <2>2, <2>4 DEF Followed
<1>2. QED
  BY <1>1, FollowThroughout, PTL

\* While no post came late, that is the time StatusFollows gives.
THEOREM FollowsInTime == Spec => [](Grace < Freshness /\ Used("late") = 0 => StatusFollows)
<1>1. WatchedInv /\ (Grace < Freshness => StatusFollowsLate)
        => (Grace < Freshness /\ Used("late") = 0 => StatusFollows)
  <2> SUFFICES ASSUME WatchedInv, StatusFollowsLate, Used("late") = 0,
                      NEW s \in Sights, monitor.enabled, calm > Patience + Freshness + 2,
                      \A r \in Regions : target[r] = s
               PROVE  monitor.status = s /\ (s = "up" => monitor.failures = 0)
    BY DEF StatusFollows
  <2>1. Numbers
    BY NetIs DEF WatchedInv, TypeInv
  <2>2. Patience + Freshness + 2 \in Int /\ Used("late") * (Reach + 5) = 0
    BY <2>1 DEF Numbers, Patience, Reach
  <2>3. calm > Patience + Freshness + 2 + Used("late") * (monitor.interval * monitor.cap + 5)
    BY <2>2 DEF Reach
  <2>4. QED
    BY <2>3 DEF StatusFollowsLate
<1>2. QED
  BY <1>1, WatchedThroughout, FollowsLate, PTL
=============================================================================
