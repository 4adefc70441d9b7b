------------------------------ MODULE HostChecks ------------------------------
(***************************************************************************)
(* RunDnsCheck and RunPortScan: the checks of a host that find several     *)
(* things at once and open an incident for each.  One monitor of one of    *)
(* the two kinds, the queue between its dispatch and its workers, the      *)
(* host, the snapshots and the incidents.                                  *)
(*                                                                         *)
(*   dns        goes through the record types, compares each answer with   *)
(*              the last snapshot of the type, stores what changed and     *)
(*              opens an incident for it                                   *)
(*   port_scan  looks at all ports, opens one incident for the expected    *)
(*              ones that are closed and one for the others that are open  *)
(*                                                                         *)
(* Neither resolves anything.  Another process can fall between any two    *)
(* statements of a job; checks of one monitor overlap when the queue is    *)
(* behind, as it stays due until its check has written the row.            *)
(***************************************************************************)
EXTENDS Integers, Sequences, FiniteSets, FiniteSetsExt, SequencesExt

CONSTANTS
  Kinds,        \* the kinds of monitor considered
  RecordTypes,  \* the keys of RESOLVERS, in order
  Versions,     \* bound: record sets of a type, lists of ports, told apart
  Workers,      \* jobs that may run at once
  MaxPending,   \* bound: jobs of the monitor waiting in the queue
  Budgets       \* bound: how often each event of the environment may happen

Findings == <<"missing", "unexpected">>
Events == {"edit", "window", "resolve", "crash", "manual", "any", "overlap"}
Steps == {"idle", "ask", "read", "store", "look", "open", "row"}

\* A part of the host shows a number: the record set of a type, 0 for none, or
\* the ports a finding lists, 0 when all is as expected.
Nothing == 0
Unanswered == -1  \* the resolver failed: SERVFAIL, a timeout
Never == -2       \* no snapshot of the type yet
Shown == Nothing .. Versions

ASSUME HostAssumption ==
  /\ Kinds \subseteq {"dns", "port_scan"}
  /\ RecordTypes \in Seq(STRING) /\ RecordTypes # <<>>
  /\ IsInjective(RecordTypes)
  /\ Versions \in Nat \ {0}
  /\ IsFiniteSet(Workers)
  /\ MaxPending \in Nat \ {0}
  /\ Budgets \subseteq [Events -> Nat]

VARIABLES
  kind,       \* monitors.type
  target,     \* what each part of the host shows now
  window,     \* the monitor is inside a maintenance window
  status,     \* monitors.status
  due,        \* the interval has passed since last_checked_at
  pending,    \* jobs waiting in the queue
  worker,     \* per worker the job it runs
  snapshot,   \* per record type the newest DnsSnapshot
  incidents,  \* unresolved incidents: [id, part, what]
  untold,     \* record types with a stored change nobody was told of
  mishaps,    \* what happened that a statement below sets aside
  left        \* how many of each event may still happen

host == <<kind, target, window>>
findings == <<snapshot, incidents, untold>>
vars == <<host, status, due, pending, worker, findings, mishaps, left>>

Parts == IF kind = "dns" THEN RecordTypes ELSE Findings
Part == ToSet(Parts)

\* todo: parts the job still has to go through.
Idle == [step |-> "idle", attempt |-> 1, inWindow |-> FALSE,
         seen |-> <<>>, todo |-> <<>>, changed |-> FALSE]

AtStep(w, s) == worker[w].step = s
Busy(w) == ~AtStep(w, "idle")
Go(w, st) == worker' = [worker EXCEPT ![w] = st]
To(st, step) == [st EXCEPT !.step = step]
\* "any" bounds the events of all sorts together; "overlap" is not spent.
Spend(e) ==
  /\ left[e] > 0 /\ left["any"] > 0
  /\ left' = [left EXCEPT ![e] = @ - 1, !["any"] = @ - 1]

-----------------------------------------------------------------------------
(* Dispatch: DispatchDueChecks, RunCheckAction, the queue                  *)

DispatchDue ==
  /\ due /\ pending < MaxPending
  /\ pending' = pending + 1
  /\ UNCHANGED <<host, status, due, worker, findings, mishaps, left>>

RunCheckNow ==
  /\ pending < MaxPending
  /\ Spend("manual")
  /\ pending' = pending + 1
  /\ UNCHANGED <<host, status, due, worker, findings, mishaps>>

\* The monitor is read and the check is dated.
Begin(attempt) ==
  [Idle EXCEPT !.step = "ask", !.attempt = attempt, !.inWindow = window,
               !.seen = [p \in Part |-> Unanswered], !.todo = Parts]

Start(w) ==
  /\ ~Busy(w) /\ pending > 0
  /\ left["overlap"] > 0 \/ w = CHOOSE v \in Workers : TRUE
  /\ pending' = pending - 1
  /\ Go(w, Begin(1))
  /\ mishaps' = IF \E v \in Workers : Busy(v) THEN mishaps \cup {"overlap"} ELSE mishaps
  /\ UNCHANGED <<host, status, due, findings, left>>

-----------------------------------------------------------------------------
(* The statements of a job                                                 *)

\* On to the next part: another lookup, or another finding of the same scan.
NextPart(st) ==
  [st EXCEPT !.todo = Tail(@), !.changed = FALSE,
             !.step = IF Tail(st.todo) = <<>> THEN "row"
                      ELSE IF kind = "dns" THEN "ask" ELSE "look"]

\* Mutant: a resolver that cannot answer found no records.
AnsweredAnyhow(v) == TRUE
\* Mutant: a type without records is a lookup that failed.
AnsweredWithRecords(v) == v > Nothing

Answered(v) == v # Unanswered

\* ENODATA and ENOTFOUND are an answer.
Resolve(w) ==
  LET st == worker[w]
      t == Head(st.todo)
      asked == [st EXCEPT !.seen[t] = target[t]]
  IN  /\ AtStep(w, "ask") /\ kind = "dns"
      /\ Go(w, IF Answered(target[t]) THEN To(asked, "read") ELSE NextPart(asked))
      /\ UNCHANGED <<host, status, due, pending, findings, mishaps, left>>

\* Mutant: one finding is enough.
WrongFirst(seen) ==
  LET wrong == SelectSeq(Findings, LAMBDA p : seen[p] # Nothing)
  IN  SubSeq(wrong, 1, Min({1, Len(wrong)}))

Wrong(seen) == SelectSeq(Findings, LAMBDA p : seen[p] # Nothing)

ScanPorts(w) ==
  /\ AtStep(w, "ask") /\ kind = "port_scan"
  /\ Go(w, [worker[w] EXCEPT !.seen = target, !.todo = Wrong(target),
                             !.step = IF Wrong(target) = <<>> THEN "row" ELSE "look"])
  /\ UNCHANGED <<host, status, due, pending, findings, mishaps, left>>

\* A type never published stays out of the table; an answer like the last one
\* is not stored again.
ReadPrevious(w) ==
  LET st == worker[w]
      t == Head(st.todo)
      previous == snapshot[t]
      skip == \/ previous = Never /\ st.seen[t] = Nothing
              \/ previous = st.seen[t]
  IN  /\ AtStep(w, "read")
      /\ Go(w, IF skip THEN NextPart(st)
               ELSE [st EXCEPT !.step = "store", !.changed = previous # Never])
      /\ UNCHANGED <<host, status, due, pending, findings, mishaps, left>>

\* The first snapshot of a type is nothing to tell.
Store(w) ==
  LET st == worker[w]
      t == Head(st.todo)
  IN  /\ AtStep(w, "store")
      /\ snapshot' = [snapshot EXCEPT ![t] = st.seen[t]]
      /\ untold' = IF st.changed THEN untold \cup {t} ELSE untold
      /\ Go(w, IF st.changed THEN To(st, "look") ELSE NextPart(st))
      /\ UNCHANGED <<host, status, due, pending, incidents, mishaps, left>>

\* A cause names the type and whether its records changed (1) or went (0), or
\* the finding and its ports.
Cause(p, shown) ==
  [part |-> p, what |-> IF kind = "dns" /\ shown # Nothing THEN 1 ELSE shown]

\* Mutant: nobody looks for an incident that stands already.
StandingNone(p, shown) == {}
\* Mutant: one incident per part, whatever its cause.
StandingOfPart(p, shown) == {i \in incidents : i.part = p}

WithCause(p, shown) ==
  {i \in incidents : [part |-> i.part, what |-> i.what] = Cause(p, shown)}

Standing(p, shown) == WithCause(p, shown)

\* openIncident asks about checkedAt, then for an unresolved incident with the
\* same cause.
Look(w) ==
  LET st == worker[w]
      p == Head(st.todo)
      opens == ~st.inWindow /\ Standing(p, st.seen[p]) = {}
  IN  /\ AtStep(w, "look")
      /\ Go(w, IF opens THEN To(st, "open") ELSE NextPart(st))
      /\ untold' = IF WithCause(p, st.seen[p]) # {} THEN untold \ {p} ELSE untold
      /\ UNCHANGED <<host, status, due, pending, snapshot, incidents, mishaps, left>>

FreshId ==
  LET used == {i.id : i \in incidents}
  IN  Min((1 .. Cardinality(used) + 1) \ used)

Open(w) ==
  LET st == worker[w]
      p == Head(st.todo)
      cause == Cause(p, st.seen[p])
  IN  /\ AtStep(w, "open")
      /\ incidents' = incidents \cup {[id |-> FreshId, part |-> cause.part,
                                       what |-> cause.what]}
      /\ untold' = untold \ {p}
      /\ Go(w, NextPart(st))
      /\ UNCHANGED <<host, status, due, pending, snapshot, mishaps, left>>

\* A host without any record is down, one with wrong ports degraded.
StatusOf(seen) ==
  IF kind = "dns" THEN IF \E p \in Part : seen[p] > Nothing THEN "up" ELSE "down"
  ELSE IF \E p \in Part : seen[p] # Nothing THEN "degraded" ELSE "up"

WriteRow(w) ==
  /\ AtStep(w, "row")
  /\ status' = StatusOf(worker[w].seen)
  /\ due' = FALSE
  /\ Go(w, Idle)
  /\ UNCHANGED <<host, pending, findings, mishaps, left>>

Work(w) ==
  \/ Start(w) \/ Resolve(w) \/ ScanPorts(w) \/ ReadPrevious(w) \/ Store(w)
  \/ Look(w) \/ Open(w) \/ WriteRow(w)

-----------------------------------------------------------------------------
(* The environment                                                         *)

Tries == IF kind = "dns" THEN 2 ELSE 1

\* A job that throws, dies or times out is run again from its start, while it
\* has tries.
Crash(w) ==
  /\ Busy(w)
  /\ Spend("crash")
  /\ Go(w, IF worker[w].attempt < Tries THEN Begin(worker[w].attempt + 1) ELSE Idle)
  /\ mishaps' = mishaps \cup {"crash"}
  /\ UNCHANGED <<host, status, due, pending, findings>>

IntervalPasses ==
  /\ due' = TRUE
  /\ UNCHANGED <<host, status, pending, worker, findings, mishaps, left>>

\* Records are edited or removed, a resolver fails or comes back, a port opens
\* or closes.
Edit(p, v) ==
  /\ v # target[p]
  /\ Spend("edit")
  /\ target' = [target EXCEPT ![p] = v]
  /\ UNCHANGED <<kind, window, status, due, pending, worker, findings, mishaps>>

ToggleWindow ==
  /\ Spend("window")
  /\ window' = ~window
  /\ mishaps' = mishaps \cup {"window"}
  /\ UNCHANGED <<kind, target, status, due, pending, worker, findings>>

\* UpdateIncidentAction with status 'resolved'.
ResolveByHand(i) ==
  /\ Spend("resolve")
  /\ incidents' = incidents \ {i}
  /\ UNCHANGED <<host, status, due, pending, worker, snapshot, untold, mishaps>>

MayShow == IF kind = "dns" THEN Shown \cup {Unanswered} ELSE Shown

Init ==
  /\ kind \in Kinds
  /\ target \in [Part -> {0, 1}]
  /\ window = FALSE /\ status = "unknown" /\ due = TRUE /\ pending = 0
  /\ worker = [w \in Workers |-> Idle]
  /\ snapshot = [t \in ToSet(RecordTypes) |-> Never]
  /\ incidents = {} /\ untold = {} /\ mishaps = {}
  /\ left \in Budgets

Next ==
  \/ DispatchDue \/ RunCheckNow
  \/ \E w \in Workers : Work(w) \/ Crash(w)
  \/ IntervalPasses \/ ToggleWindow
  \/ \E p \in Part, v \in MayShow : Edit(p, v)
  \/ \E i \in incidents : ResolveByHand(i)

Spec == Init /\ [][Next]_vars

\* Time passes, the scheduler runs every minute, and a worker takes the next
\* job and goes on with the one it has.
Fairness ==
  /\ WF_vars(IntervalPasses)
  /\ WF_vars(DispatchDue)
  /\ \A w \in Workers : WF_vars(Work(w))

FairSpec == Spec /\ Fairness

-----------------------------------------------------------------------------
(* Properties                                                              *)

AtRest == \A w \in Workers : ~Busy(w)
Calm(ms) == mishaps \cap ms = {}

\* The types of the variables: a resolver that fails leaves no snapshot, and
\* the words of a status are those its kind has.
TypeOK ==
  /\ kind \in Kinds
  /\ target \in [Part -> MayShow]
  /\ status \in {"unknown", "up", IF kind = "dns" THEN "down" ELSE "degraded"}
  /\ pending \in 0 .. MaxPending
  /\ \A w \in Workers :
       /\ worker[w].step \in Steps
       /\ Busy(w) => worker[w].seen \in [Part -> Shown \cup {Unanswered}]
       /\ worker[w].todo \in Seq(Part)
  /\ snapshot \in [ToSet(RecordTypes) -> Shown \cup {Never}]
  /\ incidents \subseteq [id: Nat \ {0}, part: Part, what: Shown]
  /\ untold \subseteq ToSet(RecordTypes)
  /\ mishaps \subseteq {"overlap", "crash", "window"}
  /\ left \in [Events -> Nat]

\* Checks that do not overlap never leave two incidents open with one cause,
\* whatever moves on, crashes, is retried or resolved by hand; and there are
\* incidents of several causes at once.
OneOfACause ==
  Calm({"overlap"}) =>
    \A i, j \in incidents : i.part = j.part /\ i.what = j.what => i = j

\* A change that is in the table was told: its own incident was opened, or one
\* that says the same stood, for every type a run goes through, unless a crash
\* fell between the two or a window was open.
ChangesAreTold ==
  AtRest /\ Calm({"overlap", "crash", "window"}) => untold = {}

\* What a type shows for good becomes its newest snapshot, removal included,
\* whatever overlapping checks had stored.
SnapshotsCatchUp ==
  \A i \in DOMAIN RecordTypes, v \in Shown :
    LET t == RecordTypes[i]
    IN  <>[](kind = "dns" /\ target[t] = v) =>
          <>[](snapshot[t] = v \/ (v = Nothing /\ snapshot[t] = Never))

\* Ports that stay wrong have an incident that names them, beside the incident
\* of the other finding, whatever window it began in and whoever resolved one.
WrongPortsStayOpen ==
  \A i \in DOMAIN Findings, v \in Shown \ {Nothing} :
    LET p == Findings[i]
    IN  <>[](kind = "port_scan" /\ target[p] = v /\ ~window) =>
          <>[](\E x \in incidents : x.part = p /\ x.what = v)
=============================================================================
