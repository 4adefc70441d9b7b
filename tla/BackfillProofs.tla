---------------------------- MODULE BackfillProofs ----------------------------
(***************************************************************************)
(* What is proved of Backfill, for every set of monitors, tokens, readings *)
(* and batch size, however often either command runs, aborts or dies.      *)
(***************************************************************************)
EXTENDS Backfill, FiniteSetTheorems, WellFoundedInduction, TLAPS

(***************************************************************************)
(* Least and greatest elements, first and last of sequences.               *)
(***************************************************************************)
\* A nonempty set of natural numbers has a least one.
LEMMA LeastExists ==
  ASSUME NEW S \in SUBSET Nat, S # {}
  PROVE  Min(S) \in S /\ \A x \in S : Min(S) <= x
<1> DEFINE less == {ss \in Nat \X Nat : ss[1] < ss[2]}
<1>1. IsWellFoundedOn(less, Nat)
  BY NatLessThanWellFounded DEF OpToRel
<1>2. PICK m \in S : \A x \in S : ~ (<<x, m>> \in less)
  <2> HIDE DEF less
  <2>1. QED
    BY <1>1, WFMin
<1>3. ASSUME NEW x \in S PROVE m <= x
  <2>1. m \in Nat /\ x \in Nat
    OBVIOUS
  <2>2. x < m => <<x, m>> \in less
    BY <2>1
  <2>3. QED
    BY <1>2, <2>1, <2>2
<1>4. QED
  BY <1>2, <1>3 DEF Min

\* A nonempty set of numbers up to a bound has a greatest one.
LEMMA GreatestExists ==
  ASSUME NEW n \in Nat, NEW S \in SUBSET (1 .. n), S # {}
  PROVE  Max(S) \in S /\ \A x \in S : Max(S) >= x
<1> DEFINE below == {n - x : x \in S}
<1>1. below \in SUBSET Nat /\ below # {}
  <2>1. \A x \in S : n - x \in Nat
    OBVIOUS
  <2>2. QED
    BY <2>1
<1>2. Min(below) \in below /\ \A y \in below : Min(below) <= y
  BY <1>1, LeastExists
<1>3. PICK m \in S : Min(below) = n - m
  BY <1>2
<1>4. \A x \in S : n - m <= n - x
  BY <1>2, <1>3
<1>5. \A x \in S : m >= x
  BY <1>4
<1>6. QED
  BY <1>5 DEF Max

\* A nonempty set of servers has one with the lowest id.
LEMMA LowestIdExists ==
  ASSUME NEW S, S # {}, \A c \in S : c.id \in Nat
  PROVE  \E c \in S : \A d \in S : c.id <= d.id
<1> DEFINE ids == {c.id : c \in S}
<1>1. Min(ids) \in ids /\ \A y \in ids : Min(ids) <= y
  BY ZenonT(60), LeastExists
<1>2. QED
  BY <1>1

(***************************************************************************)
(* Types.                                                                  *)
(***************************************************************************)
Counters == {"servers", "orphans", "incidents", "batch", "idle"}
Restoring == {"restore", "rest", "close", "delete", "reopen"}
Steps == Counters \cup Restoring \cup {"flush", "note", "sweeps"}
Server == [id: Nat, token: Tokens, monitors: SUBSET Monitors]
TokenGroup == [token: Tokens, monitors: SUBSET Monitors, existing: Nat, attach: BOOLEAN]
Command == [pc: Steps, then: Counters, entry: Entry, index: Nat,
            live: SUBSET TokenGroup, orphans: SUBSET TokenGroup,
            made: Seq(Server), kept: Seq(Server), sweep: Sweep,
            from: Nat, hi: Nat, todo: (SUBSET Row) \cup SUBSET Monitors]
Request == [pc: {"idle", "server", "incident", "legacy", "edge"}, reading: Nat,
            server: Nat, monitor: Monitors \cup {0}]

\* The request has a reading that is nowhere yet.
Carrying == push.pc \in {"server", "legacy"}

\* A reading that was taken.
Taken(x) == x.reading \in DOMAIN source

\* A group or a created server has monitors.
Held(e) == \A c \in e.created : c.monitors # {}

\* Readings are rows or samples only once they were taken, a command under way
\* has its place in the journal, a rollback is after the rows of a sweep, and
\* groups and servers have monitors.
WhereInv ==
  /\ nextServer # 0
  /\ \A x \in rows : Taken(x)
  /\ \A x \in samples : Taken(x)
  /\ Carrying => Taken(push)
  /\ push.pc \in {"legacy", "edge"} => push.monitor \in Monitors
  /\ run.pc # "idle" => run.index \in 1 .. Len(journal) + 1
  /\ run.pc \in Restoring => run.index \in DOMAIN journal
  /\ run.pc \in {"close", "delete"} => run.entry.created # {}
  /\ run.pc = "restore" => run.todo \subseteq LastMoved(run.entry.sweeps)
  /\ run.pc \in {"incidents", "note"} \/ (run.pc = "flush" /\ run.then = "incidents") =>
       run.todo \subseteq Monitors
  /\ run.pc = "note" => run.todo # {}
  /\ \A g \in run.live \cup run.orphans : g.monitors # {}
  /\ Held(run.entry)
  /\ \A i \in DOMAIN journal : Held(journal[i])

TypeInv == TypeOK /\ run \in Command /\ push \in Request /\ WhereInv

\* An event that is charged leaves the budget a budget.
LEMMA SpendType ==
  ASSUME left \in [Events -> Nat], NEW e \in Events, Spend(e)
  PROVE  left' \in [Events -> Nat]
BY DEF Spend

\* The command at rest, and a first entry, have their types.
LEMMA IdleType == Idle \in Command /\ NewEntry \in Entry
<1>1. NewEntry \in Entry
  BY DEF NewEntry, Entry
<1>2. NewSweep(0, {}) \in Sweep
  BY DEF NewSweep, Sweep
<1>3. QED
  BY <1>1, <1>2 DEF Idle, Command, Steps, Counters

\* What the file will hold of the entry under way is an entry.
LEMMA EntryNowType ==
  ASSUME NEW st \in Command
  PROVE  EntryNow(st) \in Entry
<1>1. st.entry \in Entry /\ st.sweep \in Sweep
  BY DEF Command
<1>2. Append(st.entry.sweeps, st.sweep) \in Seq(Sweep)
  BY <1>1 DEF Entry
<1>3. [st.entry EXCEPT !.sweeps = Append(@, st.sweep)] \in Entry
  BY <1>1, <1>2 DEF Entry
<1>4. QED
  BY <1>1, <1>3 DEF EntryNow

\* A write of the journal keeps its other entries and has the entry in its place.
LEMMA WriteEntryType ==
  ASSUME TypeInv, run.pc # "idle",
         NEW outcome \in {"running", "complete", "aborted"}, WriteEntry(run, outcome)
  PROVE  /\ journal' \in Seq(Entry)
         /\ Len(journal') = run.index
         /\ \A i \in 1 .. run.index - 1 : journal'[i] = journal[i]
         /\ journal'[run.index] = [EntryNow(run) EXCEPT !.outcome = outcome,
                                                        !.finished = Len(source)]
<1> DEFINE entry == [EntryNow(run) EXCEPT !.outcome = outcome, !.finished = Len(source)]
           head == SubSeq(journal, 1, run.index - 1)
<1>1. Len(source) \in Nat
  BY DEF TypeInv, TypeOK
<1>2. EntryNow(run) \in Entry
  BY EntryNowType DEF TypeInv
<1>3. entry \in Entry
  BY <1>1, <1>2 DEF Entry
<1>4. journal \in Seq(Entry) /\ run.index \in 1 .. Len(journal) + 1
  BY DEF TypeInv, TypeOK, WhereInv
<1>5. /\ head \in Seq(Entry) /\ Len(head) = run.index - 1
      /\ \A i \in 1 .. run.index - 1 : head[i] = journal[i]
  BY <1>4
<1>6. journal' = Append(head, entry)
  BY DEF WriteEntry
<1> HIDE DEF entry, head
<1>7. /\ journal' \in Seq(Entry) /\ Len(journal') = run.index
      /\ \A i \in 1 .. run.index - 1 : journal'[i] = journal[i]
      /\ journal'[run.index] = entry
  BY <1>3, <1>4, <1>5, <1>6
<1>8. QED
  BY <1>7 DEF entry

\* Nor does it name a server without monitors.
LEMMA WriteEntryHeld ==
  ASSUME TypeInv, run.pc # "idle",
         NEW outcome \in {"running", "complete", "aborted"}, WriteEntry(run, outcome)
  PROVE  \A i \in DOMAIN journal' : Held(journal'[i])
<1>1. /\ journal' \in Seq(Entry) /\ Len(journal') = run.index
      /\ \A i \in 1 .. run.index - 1 : journal'[i] = journal[i]
      /\ journal'[run.index] = [EntryNow(run) EXCEPT !.outcome = outcome,
                                                     !.finished = Len(source)]
  BY WriteEntryType
<1>2. run.entry \in Entry /\ EntryNow(run) \in Entry
  BY EntryNowType DEF TypeInv, Command
<1>3. EntryNow(run).created = run.entry.created
  BY <1>2 DEF EntryNow, Entry
<1>4. Held(journal'[run.index])
  BY <1>1, <1>2, <1>3 DEF Held, Entry, TypeInv, WhereInv
<1>5. journal \in Seq(Entry) /\ run.index \in 1 .. Len(journal) + 1
  BY DEF TypeInv, TypeOK, WhereInv
<1>6. ASSUME NEW i \in 1 .. run.index - 1 PROVE Held(journal'[i])
  BY <1>1, <1>5, <1>6 DEF TypeInv, WhereInv
<1>7. DOMAIN journal' = 1 .. run.index
  BY <1>1
<1>8. \A i \in DOMAIN journal' : i = run.index \/ i \in 1 .. run.index - 1
  BY <1>5, <1>7
<1>9. QED
  BY <1>4, <1>6, <1>8

\* A flush keeps the types: the file has the entry of the command under way.
LEMMA FlushType ==
  ASSUME TypeInv, Flush
  PROVE  TypeInv'
<1>1. run.pc = "flush" /\ run \in Command
  BY DEF Flush, TypeInv
<1>2. /\ journal' \in Seq(Entry) /\ Len(journal') = run.index
      /\ WriteEntry(run, run.entry.outcome)
  BY <1>1, WriteEntryType DEF Flush, Command, Entry
<1>3. run' = Idle \/ (run' = [run EXCEPT !.pc = run.then] /\ run.then # "idle")
  BY DEF Flush
<1>4. run' \in Command
  BY <1>1, <1>3, IdleType DEF Command, Steps
<1>5. TypeOK' /\ push' \in Request
  BY <1>2, <1>4 DEF TypeInv, TypeOK, Flush, db, Keep, world, Command, Request
<1>6. WhereInv'
  <2>1. /\ UNCHANGED <<rows, samples, source, push, nextServer>>
        /\ DOMAIN source' = DOMAIN source
    BY DEF Flush, db, Keep, world
  <2>2. run'.pc # "idle" => run'.index \in 1 .. Len(journal') + 1
    BY <1>1, <1>2, <1>3 DEF TypeInv, WhereInv, Command, Idle
  <2>3. run'.pc \notin Restoring
    BY <1>1, <1>3 DEF Command, Counters, Restoring, Idle
  <2>4. run'.pc = "incidents" => run'.todo \subseteq Monitors
    BY SMTT(30), <1>1, <1>3 DEF TypeInv, WhereInv, Command, Idle
  <2>5. run'.pc \notin {"flush", "note"}
    BY <1>1, <1>3 DEF Command, Counters, Idle
  <2>6. /\ \A g \in run'.live \cup run'.orphans : g.monitors # {}
        /\ Held(run'.entry)
    BY SMTT(30), <1>1, <1>3 DEF TypeInv, WhereInv, Command, Idle, NewEntry, Held
  <2>7. \A i \in DOMAIN journal' : Held(journal'[i])
    BY <1>1, <1>2, WriteEntryHeld DEF Command, Entry
  <2>8. QED
    BY <2>1, <2>2, <2>3, <2>4, <2>5, <2>6, <2>7 DEF TypeInv, WhereInv, Taken, Carrying, Restoring
<1>7. QED
  BY <1>4, <1>5, <1>6 DEF TypeInv

\* The token groups read at the start, and a first one of those still to do.
LEMMA GroupType ==
  ASSUME TypeInv, NEW t \in Tokens
  PROVE  /\ Group(t) \in TokenGroup
         /\ Group(t).token = t /\ Group(t).monitors = {m \in Monitors : token[m] = t}
         /\ Group(t).existing # 0 =>
              \E s \in servers : s.id = Group(t).existing /\ s.token = t
<1>1. ServersWith(t) \in SUBSET Nat
  BY DEF ServersWith, TypeInv, TypeOK
<1>2. ServersWith(t) # {} => Min(ServersWith(t)) \in ServersWith(t)
  BY <1>1, LeastExists
<1>3. QED
  BY <1>1, <1>2 DEF Group, TokenGroup, ServersWith

\* Of groups that have monitors there is a first one.
LEMMA FirstExists ==
  ASSUME NEW groups \in SUBSET TokenGroup, groups # {},
         \A g \in groups : g.monitors # {}
  PROVE  First(groups) \in groups
<1> DEFINE firsts == {Min(g.monitors) : g \in groups}
<1>1. Monitors \subseteq Nat
  BY BackfillAssumption
<1>2. \A g \in groups : Min(g.monitors) \in Nat
  BY <1>1, LeastExists DEF TokenGroup
<1>3. firsts \in SUBSET Nat /\ firsts # {}
  BY <1>2
<1>4. Min(firsts) \in firsts /\ \A y \in firsts : Min(firsts) <= y
  BY <1>3, LeastExists
<1>5. PICK g \in groups : Min(firsts) = Min(g.monitors)
  BY <1>4
<1>6. \A h \in groups : Min(g.monitors) <= Min(h.monitors)
  BY <1>4, <1>5
<1>7. QED
  BY <1>6 DEF First

\* The phases that read the groups, create and use servers, and drop the tokens
\* of orphans keep the types.
LEMMA StartBackfillType ==
  ASSUME TypeInv, StartBackfill
  PROVE  TypeInv'
<1> DEFINE held == {token[m] : m \in Monitors} \ {NoToken}
           groups == {Group(t) : t \in held}
           live == {g \in groups : IsLive(g)}
<1>1. held \subseteq Tokens
  BY DEF TypeInv, TypeOK
<1>2. \A g \in groups : g \in TokenGroup /\ g.monitors # {}
  <2> SUFFICES ASSUME NEW t \in held PROVE Group(t) \in TokenGroup /\ Group(t).monitors # {}
    OBVIOUS
  <2>1. Group(t) \in TokenGroup /\ Group(t).monitors = {m \in Monitors : token[m] = t}
    BY <1>1, GroupType
  <2>2. QED
    BY <2>1
<1>3. /\ run' = [Idle EXCEPT !.index = Len(journal) + 1, !.live = live,
                             !.orphans = groups \ live,
                             !.pc = "flush", !.then = "servers"]
      /\ UNCHANGED <<db, world, journal, mishaps>>
      /\ Spend("backfill")
  BY DEF StartBackfill, Recorded, Idle
<1> HIDE DEF held, groups
<1>4. live \in SUBSET TokenGroup /\ groups \ live \in SUBSET TokenGroup
  BY <1>2
<1>5. Len(journal) + 1 \in Nat
  BY DEF TypeInv, TypeOK
<1> HIDE DEF live
<1>6. run' \in Command
  BY <1>3, <1>4, <1>5, IdleType DEF Command, Steps, Counters
<1>7. TypeOK'
  <2>1. left' \in [Events -> Nat]
    BY <1>3, SpendType DEF TypeInv, TypeOK, Events
  <2>2. QED
    BY <1>3, <1>6, <2>1 DEF TypeInv, TypeOK, db, world, Command
<1>8. WhereInv'
  <2>1. run'.pc = "flush" /\ run'.then = "servers" /\ run'.index = Len(journal) + 1
        /\ run'.live = live /\ run'.orphans = groups \ live /\ run'.entry = NewEntry
    BY <1>3 DEF Idle
  <2>2. live \cup (groups \ live) \subseteq groups
    BY DEF live
  <2>3. Held(NewEntry)
    BY DEF Held, NewEntry
  <2>4. run'.index \in 1 .. Len(journal') + 1
    BY <1>3, <1>5, <2>1
  <2>5. QED
    BY <1>2, <1>3, <2>1, <2>2, <2>3, <2>4 DEF TypeInv, WhereInv, Taken, Carrying, Restoring, db, world
<1>9. QED
  BY <1>3, <1>6, <1>7, <1>8 DEF TypeInv, world

\* What a phase of the backfill may change: a command in the middle of it keeps
\* its place, its entry grows by servers that have monitors, and it goes on with
\* fewer groups.
LEMMA PhaseWhere ==
  ASSUME TypeInv, run.pc \in {"servers", "orphans", "sweeps", "batch"},
         UNCHANGED <<nextServer, samples, rows, source, push, journal>>,
         run'.index = run.index,
         run'.pc \notin Restoring \cup {"incidents", "note"},
         run'.pc = "flush" => run'.then # "incidents",
         run'.live \subseteq run.live, run'.orphans \subseteq run.orphans,
         Held(run'.entry)
  PROVE  WhereInv'
BY DEF TypeInv, WhereInv, Taken, Carrying, Restoring

\* Phase A inserts a server under the next id and attaches the monitors of its
\* token in one transaction: ids stay numbers and the new server has monitors.
LEMMA CreateServerType ==
  ASSUME TypeInv, CreateServer
  PROVE  TypeInv'
<1> DEFINE g == First(run.live)
           s == [id |-> nextServer, token |-> g.token, monitors |-> g.monitors]
<1>1. run \in Command /\ run.pc = "servers" /\ g \in run.live /\ g.monitors # {}
  BY FirstExists DEF CreateServer, TypeInv, WhereInv, Command
<1>2. g \in TokenGroup /\ s \in Server
  BY <1>1 DEF Command, TokenGroup, Server, TypeInv, TypeOK
<1>3. /\ run' = [run EXCEPT !.entry.created = @ \cup {s}, !.live = @ \ {g},
                            !.made = Append(@, s), !.pc = "flush", !.then = "servers"]
      /\ servers' = servers \cup {[id |-> nextServer, token |-> g.token]}
      /\ nextServer' = nextServer + 1
      /\ attached' = AttachAll(g.token, nextServer)
      /\ UNCHANGED <<rows, samples, token, legacy, hot, journal>>
      /\ UNCHANGED <<source, push, mishaps, left>>
  BY <1>1 DEF CreateServer, Recorded, Keep, world, Command
<1> HIDE DEF g, s
<1>4. [run.entry EXCEPT !.created = @ \cup {s}] \in Entry
  BY <1>1, <1>2 DEF Command, Entry, Server
<1>5. Append(run.made, s) \in Seq(Server)
  BY <1>1, <1>2 DEF Command
<1>6. run' \in Command
  BY <1>1, <1>3, <1>4, <1>5 DEF Command, Steps, Counters
<1>7. TypeOK'
  <2>1. attached' \in [Monitors -> Nat]
    BY <1>3 DEF AttachAll, TypeInv, TypeOK
  <2>2. servers' \in SUBSET [id: Nat, token: Tokens]
    BY <1>2, <1>3 DEF TypeInv, TypeOK, TokenGroup
  <2>3. nextServer' \in Nat /\ nextServer' # 0
    BY <1>3 DEF TypeInv, TypeOK
  <2>4. run'.entry \in Entry /\ run'.sweep \in Sweep
    BY <1>6 DEF Command
  <2>5. QED
    BY <1>3, <2>1, <2>2, <2>3, <2>4 DEF TypeInv, TypeOK
<1>8. Held(run'.entry)
  BY <1>1, <1>3 DEF Held, TypeInv, WhereInv, Command, Entry, s
<1>9. WhereInv'
  <2>1. nextServer' # 0
    BY <1>3 DEF TypeInv, TypeOK
  <2>2. /\ run'.pc = "flush" /\ run'.then = "servers" /\ run'.index = run.index
        /\ run'.live \subseteq run.live /\ run'.orphans = run.orphans
    BY <1>1, <1>3 DEF Command
  <2>3. QED
    BY <1>1, <1>3, <1>8, <2>1, <2>2 DEF TypeInv, WhereInv, Taken, Carrying, Restoring
<1>10. QED
  BY <1>3, <1>6, <1>7, <1>9 DEF TypeInv

\* A token that has a server already is given its id, which is a number.
LEMMA UseServerType ==
  ASSUME TypeInv, UseServer
  PROVE  TypeInv'
<1> DEFINE g == First(run.live)
           s == [id |-> g.existing, token |-> g.token, monitors |-> g.monitors]
<1>1. run \in Command /\ run.pc = "servers" /\ g \in run.live /\ g.monitors # {}
  BY FirstExists DEF UseServer, TypeInv, WhereInv, Command
<1>2. g \in TokenGroup /\ s \in Server
  BY <1>1 DEF Command, TokenGroup, Server
<1>3. /\ run' = [run EXCEPT !.live = @ \ {g}, !.kept = Append(@, s)]
      /\ attached' = Attachment(g)
      /\ UNCHANGED <<rows, samples, servers, nextServer, token, legacy, hot, journal>>
      /\ UNCHANGED <<source, push, mishaps, left>>
  BY DEF UseServer, Keep, world
<1> HIDE DEF g, s
<1>4. Append(run.kept, s) \in Seq(Server)
  BY <1>1, <1>2 DEF Command
<1>5. run' \in Command
  BY <1>1, <1>3, <1>4 DEF Command
<1>6. attached' \in [Monitors -> Nat]
  BY <1>2, <1>3 DEF Attachment, AttachAll, TypeInv, TypeOK, TokenGroup
<1>7. TypeOK'
  BY <1>3, <1>5, <1>6 DEF TypeInv, TypeOK, Command
<1>8. WhereInv'
  BY <1>1, <1>3, PhaseWhere DEF TypeInv, WhereInv, Restoring, Command
<1>9. QED
  BY <1>3, <1>5, <1>7, <1>8 DEF TypeInv

\* Phase B clears the token of a group and notes what it was; groups and tokens
\* keep their types.
LEMMA DropOrphanType ==
  ASSUME TypeInv, DropOrphan
  PROVE  TypeInv'
<1> DEFINE g == First(run.orphans)
           gone == {[monitor |-> m, token |-> g.token] : m \in g.monitors}
<1>1. run \in Command /\ run.pc = "orphans" /\ g \in run.orphans /\ g.monitors # {}
  BY FirstExists DEF DropOrphan, TypeInv, WhereInv, Command
<1>2. g \in TokenGroup /\ gone \in SUBSET [monitor: Monitors, token: Tokens]
  BY <1>1 DEF Command, TokenGroup
<1>3. /\ run' = [run EXCEPT !.entry.dropped = @ \cup gone, !.orphans = @ \ {g},
                            !.pc = "flush", !.then = "orphans"]
      /\ token' = [m \in Monitors |-> IF m \in g.monitors THEN NoToken ELSE token[m]]
      /\ UNCHANGED <<rows, samples, servers, nextServer, attached, legacy, hot, journal>>
      /\ UNCHANGED <<source, push, mishaps, left>>
  BY <1>1 DEF DropOrphan, Recorded, Keep, world, Command
<1> HIDE DEF g, gone
<1>4. [run.entry EXCEPT !.dropped = @ \cup gone] \in Entry
  BY <1>1, <1>2 DEF Command, Entry
<1>5. run' \in Command
  BY <1>1, <1>3, <1>4 DEF Command, Steps, Counters
<1>6. token' \in [Monitors -> Tokens \cup {NoToken}]
  BY <1>3 DEF TypeInv, TypeOK
<1>7. TypeOK'
  BY <1>3, <1>5, <1>6 DEF TypeInv, TypeOK, Command
<1>8. Held(run'.entry)
  BY <1>1, <1>3 DEF Held, TypeInv, WhereInv, Command, Entry
<1>9. WhereInv'
  BY <1>1, <1>3, <1>8, PhaseWhere DEF TypeInv, WhereInv, Restoring, Command
<1>10. QED
  BY <1>3, <1>5, <1>7, <1>9 DEF TypeInv

\* An incident is resolved first, and the phase owes it a note and a place in the
\* entry.
LEMMA ResolveIncidentType ==
  ASSUME TypeInv, ResolveIncident
  PROVE  TypeInv'
<1>1. run \in Command /\ run.pc = "incidents" /\ run.todo \subseteq Monitors /\ run.todo # {}
  BY DEF ResolveIncident, TypeInv, WhereInv
<1>2. /\ run' = [run EXCEPT !.pc = "note"] /\ legacy' \subseteq legacy
      /\ UNCHANGED <<rows, samples, servers, nextServer, token, attached, hot, journal>>
      /\ UNCHANGED <<source, push, mishaps, left>>
  BY DEF ResolveIncident, Goto, Keep, world
<1>3. run' \in Command
  BY <1>1, <1>2 DEF Command, Steps
<1>4. TypeOK'
  BY <1>2, <1>3 DEF TypeInv, TypeOK, Command
<1>5. WhereInv'
  BY <1>1, <1>2 DEF TypeInv, WhereInv, Taken, Carrying, Restoring, Command
<1>6. QED
  BY <1>2, <1>3, <1>4, <1>5 DEF TypeInv

\* The note joins the incident to the entry.
LEMMA NoteIncidentType ==
  ASSUME TypeInv, NoteIncident
  PROVE  TypeInv'
<1> DEFINE m == Min(run.todo)
<1>1. run \in Command /\ run.pc = "note" /\ run.todo \subseteq Monitors /\ run.todo # {}
  BY DEF NoteIncident, TypeInv, WhereInv
<1>2. m \in run.todo
  BY <1>1, LeastExists, BackfillAssumption
<1>3. /\ run' = [run EXCEPT !.entry.resolved = @ \cup {m}, !.todo = @ \ {m},
                            !.pc = "flush", !.then = "incidents"]
      /\ UNCHANGED <<rows, samples, servers, nextServer, token, attached, legacy, hot, journal>>
      /\ UNCHANGED <<source, push, mishaps, left>>
  BY <1>1 DEF NoteIncident, Recorded, Keep, world, db, Command
<1> HIDE DEF m
<1>4. [run.entry EXCEPT !.resolved = @ \cup {m}] \in Entry
  BY <1>1, <1>2 DEF Command, Entry
<1>5. run' \in Command
  BY <1>1, <1>3, <1>4 DEF Command, Steps, Counters
<1>6. TypeOK'
  BY <1>3, <1>5 DEF TypeInv, TypeOK, Command
<1>7. Held(run'.entry)
  BY <1>1, <1>3 DEF Held, TypeInv, WhereInv, Command, Entry
<1>8. WhereInv'
  BY <1>1, <1>3, <1>7 DEF TypeInv, WhereInv, Taken, Carrying, Restoring, Command
<1>9. QED
  BY <1>3, <1>5, <1>6, <1>8 DEF TypeInv

\* A sweep starts with the range of readings its monitors have, if they have any.
LEMMA StartSweepType ==
  ASSUME TypeInv, StartSweep
  PROVE  TypeInv'
<1> DEFINE s == Head(run.made)
           ids == {x.reading : x \in {y \in rows : y.monitor \in s.monitors}}
<1>1. run \in Command /\ run.pc = "sweeps" /\ run.made # <<>>
  BY DEF StartSweep, TypeInv
<1>2. s \in Server /\ Tail(run.made) \in Seq(Server)
  BY <1>1 DEF Command
<1>3. ids \in SUBSET Nat /\ ids \in SUBSET (1 .. Len(source)) /\ Len(source) \in Nat
  BY DEF TypeInv, TypeOK, WhereInv, Taken, Carrying, Row
<1>4. /\ run' = [run EXCEPT !.pc = IF ids = {} THEN "sweeps" ELSE "batch",
                            !.made = Tail(@), !.sweep = NewSweep(s.id, s.monitors),
                            !.from = IF ids = {} THEN 0 ELSE Min(ids),
                            !.hi = IF ids = {} THEN 0 ELSE Max(ids)]
      /\ UNCHANGED <<db, journal, source, push, mishaps, left>>
  BY DEF StartSweep, Keep, world
<1> HIDE DEF s, ids
<1>5. ids # {} => Min(ids) \in Nat /\ Max(ids) \in Nat
  BY <1>3, LeastExists, GreatestExists
<1>6. NewSweep(s.id, s.monitors) \in Sweep
  BY <1>2 DEF NewSweep, Sweep, Server
<1>7. PICK pc \in {"sweeps", "batch"}, from \in Nat, hi \in Nat, sweep \in Sweep,
           made \in Seq(Server) :
        run' = [run EXCEPT !.pc = pc, !.made = made, !.sweep = sweep,
                           !.from = from, !.hi = hi]
  <2>1. CASE ids = {}
    <3>1. run' = [run EXCEPT !.pc = "sweeps", !.made = Tail(run.made),
                             !.sweep = NewSweep(s.id, s.monitors), !.from = 0, !.hi = 0]
      BY <1>4, <2>1
    <3>2. QED
      BY <1>2, <1>6, <3>1
  <2>2. CASE ids # {}
    <3>1. run' = [run EXCEPT !.pc = "batch", !.made = Tail(run.made),
                             !.sweep = NewSweep(s.id, s.monitors), !.from = Min(ids),
                             !.hi = Max(ids)]
      BY <1>4, <2>2
    <3>2. QED
      BY <1>2, <1>5, <1>6, <2>2, <3>1
  <2>3. QED
    BY <2>1, <2>2
<1>8. run' \in Command
  <2>1. pc \in Steps
    BY DEF Steps, Counters
  <2>2. QED
    BY <1>1, <1>7, <2>1 DEF Command
<1>9. UNCHANGED <<db, journal, source, push, mishaps, left>>
  BY <1>4
<1>10. run'.entry \in Entry /\ run'.sweep \in Sweep
  BY <1>8 DEF Command
<1>11. TypeOK'
  BY <1>9, <1>10 DEF TypeInv, TypeOK, db
<1>12. WhereInv'
  BY <1>1, <1>7, <1>9, PhaseWhere DEF TypeInv, WhereInv, Restoring, Command, db
<1>13. QED
  BY <1>8, <1>9, <1>11, <1>12 DEF TypeInv

\* A batch turns rows that were taken into samples and leaves the rest behind.
LEMMA SweepBatchType ==
  ASSUME TypeInv, SweepBatch
  PROVE  TypeInv'
<1> DEFINE batch == BatchRows(run.sweep, run.from)
           moved == {x \in batch : Convertible(x)}
<1>1. run \in Command /\ run.pc = "batch"
  BY DEF SweepBatch, TypeInv
<1>2. batch \subseteq rows /\ moved \subseteq batch
  BY DEF BatchRows
<1>3. /\ rows' = rows \ batch
      /\ samples' = samples \cup {AsSample(x, run.sweep.server) : x \in moved}
      /\ run' = [run EXCEPT !.sweep.moved = @ \cup moved,
                            !.sweep.bare = @ \cup (batch \ moved),
                            !.from = @ + Batch, !.pc = "flush", !.then = "batch"]
      /\ UNCHANGED <<servers, nextServer, token, attached, legacy, hot, journal>>
      /\ UNCHANGED <<source, push, mishaps, left>>
  BY <1>1 DEF SweepBatch, Recorded, Keep, world, Command
<1> HIDE DEF batch, moved
<1>4. [run.sweep EXCEPT !.moved = @ \cup moved, !.bare = @ \cup (batch \ moved)] \in Sweep
  BY <1>1, <1>2 DEF Command, Sweep, TypeInv, TypeOK
<1>5. run.from + Batch \in Nat
  BY <1>1, BackfillAssumption DEF Command
<1>6. run' \in Command
  BY <1>1, <1>3, <1>4, <1>5 DEF Command, Steps, Counters
<1>7. \A x \in moved : AsSample(x, run.sweep.server) \in Sample /\ Taken(AsSample(x, run.sweep.server))
  BY <1>1, <1>2 DEF AsSample, Sample, Taken, Command, Sweep, TypeInv, TypeOK, WhereInv, Row
<1>8. TypeOK'
  <2>1. rows' \in SUBSET Row /\ samples' \in SUBSET Sample
    BY <1>3, <1>7 DEF TypeInv, TypeOK
  <2>2. run'.entry \in Entry /\ run'.sweep \in Sweep
    BY <1>6 DEF Command
  <2>3. QED
    BY <1>3, <2>1, <2>2 DEF TypeInv, TypeOK
<1>9. WhereInv'
  <2>1. /\ run'.pc = "flush" /\ run'.then = "batch" /\ run'.index = run.index
        /\ run'.live = run.live /\ run'.orphans = run.orphans /\ run'.entry = run.entry
    BY <1>1, <1>3 DEF Command
  <2>2. (\A x \in rows' : x.reading \in DOMAIN source)
        /\ (\A x \in samples' : x.reading \in DOMAIN source)
    BY <1>2, <1>3, <1>7 DEF TypeInv, WhereInv, Taken, Carrying
  <2>3. QED
    BY <1>1, <1>3, <2>1, <2>2 DEF TypeInv, WhereInv, Taken, Carrying, Restoring
<1>10. QED
  BY <1>3, <1>6, <1>8, <1>9 DEF TypeInv

\* The sweep that ends joins the entry it is recorded in.
LEMMA EndSweepType ==
  ASSUME TypeInv, EndSweep
  PROVE  TypeInv'
<1>1. run \in Command /\ run.pc = "batch" /\ EntryNow(run) \in Entry
  BY EntryNowType DEF EndSweep, TypeInv
<1>2. NewSweep(0, {}) \in Sweep
  BY DEF NewSweep, Sweep
<1>3. /\ run' = [run EXCEPT !.pc = "sweeps", !.entry = EntryNow(run),
                            !.sweep = NewSweep(0, {})]
      /\ UNCHANGED <<db, journal, source, push, mishaps, left>>
  BY DEF EndSweep, Keep, world
<1>4. run' \in Command
  BY <1>1, <1>2, <1>3 DEF Command, Steps
<1>5. TypeOK'
  BY <1>3, <1>4 DEF TypeInv, TypeOK, Command, db
<1>6. EntryNow(run).created = run.entry.created
  BY <1>1 DEF EntryNow, Entry, Command
<1>7. Held(run'.entry)
  BY <1>1, <1>3, <1>6 DEF Held, TypeInv, WhereInv, Command
<1>8. WhereInv'
  BY <1>1, <1>3, <1>7, PhaseWhere DEF TypeInv, WhereInv, Restoring, Command, db
<1>9. QED
  BY <1>3, <1>4, <1>5, <1>8 DEF TypeInv

\* The next phase finds what it goes over: monitors with an open incident,
\* servers to sweep into.
LEMMA NextPhaseType ==
  ASSUME TypeInv, NextPhase
  PROVE  TypeInv'
<1>1. /\ UNCHANGED <<rows, samples, servers, nextServer, token, attached, legacy, hot>>
      /\ UNCHANGED <<journal, source, push, mishaps, left>>
      /\ run \in Command /\ legacy \subseteq Monitors
  BY DEF NextPhase, Keep, world, db, TypeInv, TypeOK
<1>2. \/ run.pc = "servers" /\ run' = [run EXCEPT !.pc = "orphans"]
      \/ run.pc = "orphans" /\ run' = [run EXCEPT !.pc = "incidents", !.todo = legacy]
      \/ run.pc = "incidents" /\ run' = [run EXCEPT !.pc = "sweeps", !.made = run.made \o run.kept]
      \/ run.pc = "sweeps" /\ run' = [run EXCEPT !.entry.outcome = "complete",
                                                 !.pc = "flush", !.then = "idle"]
  BY <1>1 DEF NextPhase, Goto, Recorded, Command
<1>3. run.made \o run.kept \in Seq(Server)
  BY <1>1 DEF Command
<1>4. [run.entry EXCEPT !.outcome = "complete"] \in Entry
  BY <1>1 DEF Command, Entry
<1>5. run' \in Command
  BY ZenonT(120), <1>1, <1>2, <1>3, <1>4 DEF Command, Steps, Counters
<1>6. TypeOK'
  BY <1>1, <1>5 DEF TypeInv, TypeOK, Command
<1>7. Held(run'.entry)
  <2>1. run'.entry = run.entry \/ run'.entry = [run.entry EXCEPT !.outcome = "complete"]
    BY <1>1, <1>2 DEF Command
  <2>2. run'.entry.created = run.entry.created
    BY <1>1, <2>1 DEF Command, Entry
  <2>3. QED
    BY <2>2 DEF Held, TypeInv, WhereInv
<1>8. WhereInv'
  BY ZenonT(30), <1>1, <1>2, <1>7 DEF TypeInv, WhereInv, Taken, Carrying, Restoring, Command
<1>9. QED
  BY <1>1, <1>5, <1>6, <1>8 DEF TypeInv

\* An exception writes the entry as aborted in its place and leaves no command.
LEMMA AbortType ==
  ASSUME TypeInv, Abort
  PROVE  TypeInv'
<1>1. /\ run.pc # "idle" /\ WriteEntry(run, "aborted") /\ run' = Idle
      /\ mishaps' \in {mishaps, mishaps \cup {"unrecorded"}}
      /\ Spend("abort") /\ UNCHANGED <<db, source, push>>
  BY DEF Abort, world
<1>2. journal' \in Seq(Entry) /\ \A i \in DOMAIN journal' : Held(journal'[i])
  BY <1>1, WriteEntryType, WriteEntryHeld
<1>3. left' \in [Events -> Nat]
  BY <1>1, SpendType DEF TypeInv, TypeOK, Events
<1>4. run' \in Command
  BY <1>1, IdleType
<1>5. TypeOK'
  BY <1>1, <1>2, <1>3, <1>4 DEF TypeInv, TypeOK, Command, db
<1>6. WhereInv'
  BY <1>1, <1>2 DEF TypeInv, WhereInv, Taken, Carrying, Restoring, Idle, NewEntry, Held, db
<1>7. QED
  BY <1>1, <1>4, <1>5, <1>6 DEF TypeInv

(***************************************************************************)
(* The rollback and the environment keep the types.                        *)
(***************************************************************************)
\* The newest run not rolled back is in the journal.
LEMMA NewestApplied ==
  ASSUME TypeInv, Applied # {}
  PROVE  Max(Applied) \in DOMAIN journal /\ Max(Applied) \in Applied
<1>1. Len(journal) \in Nat /\ Applied \in SUBSET (1 .. Len(journal))
  BY DEF TypeInv, TypeOK, Applied
<1>2. Max(Applied) \in Applied
  BY <1>1, GreatestExists
<1>3. QED
  BY <1>2 DEF Applied

\* What the last sweep moved was rows.
LEMMA LastMovedType ==
  ASSUME NEW sweeps \in Seq(Sweep)
  PROVE  /\ LastMoved(sweeps) \in SUBSET Row
         /\ sweeps # <<>> => /\ Last(sweeps) \in Sweep /\ Front(sweeps) \in Seq(Sweep)
                             /\ Last(sweeps) = sweeps[Len(sweeps)] /\ Len(sweeps) \in DOMAIN sweeps
                             /\ LastMoved(sweeps) = Last(sweeps).moved
                             /\ DOMAIN Front(sweeps) = 1 .. Len(sweeps) - 1
                             /\ \A i \in DOMAIN Front(sweeps) : Front(sweeps)[i] = sweeps[i]
<1>1. CASE sweeps = <<>>
  BY <1>1 DEF LastMoved
<1>2. CASE sweeps # <<>>
  <2>1. Len(sweeps) \in DOMAIN sweeps
    BY <1>2
  <2>2. Last(sweeps) \in Sweep /\ Last(sweeps) = sweeps[Len(sweeps)]
    BY <2>1 DEF Last
  <2>3. Front(sweeps) = SubSeq(sweeps, 1, Len(sweeps) - 1)
    BY DEF Front
  <2>4. /\ Front(sweeps) \in Seq(Sweep)
        /\ DOMAIN Front(sweeps) = 1 .. Len(sweeps) - 1
        /\ \A i \in DOMAIN Front(sweeps) : Front(sweeps)[i] = sweeps[i]
    BY <1>2, <2>1, <2>3
  <2>5. QED
    BY <1>2, <2>1, <2>2, <2>4 DEF LastMoved, Sweep
<1>3. QED
  BY <1>1, <1>2

\* A rollback takes its entry from the journal, at an index the journal has.
LEMMA StartRollbackType ==
  ASSUME TypeInv, StartRollback
  PROVE  TypeInv'
<1> DEFINE i == Max(Applied)
           e == journal[i]
<1>1. i \in DOMAIN journal
  BY NewestApplied DEF StartRollback
<1>2. e \in Entry /\ i \in Nat /\ Held(e) /\ i \in 1 .. Len(journal)
  BY <1>1 DEF TypeInv, TypeOK, WhereInv
<1>3. /\ run' = [Idle EXCEPT !.pc = "restore", !.entry = e, !.index = i,
                             !.todo = LastMoved(e.sweeps)]
      /\ UNCHANGED <<db, source, push, journal, mishaps>> /\ Spend("rollback")
  BY DEF StartRollback, world
<1> HIDE DEF i, e
<1>4. LastMoved(e.sweeps) \in SUBSET Row
  BY <1>2, LastMovedType DEF Entry
<1>5. run' \in Command
  BY <1>2, <1>3, <1>4, IdleType DEF Command, Steps, Restoring
<1>6. left' \in [Events -> Nat]
  BY <1>3, SpendType DEF TypeInv, TypeOK, Events
<1>7. TypeOK'
  BY <1>3, <1>5, <1>6 DEF TypeInv, TypeOK, Command, db
<1>8. /\ run'.pc = "restore" /\ run'.index = i /\ run'.entry = e
      /\ run'.todo = LastMoved(e.sweeps) /\ run'.live = {} /\ run'.orphans = {}
  BY <1>3 DEF Idle
<1>9. WhereInv'
  BY <1>1, <1>2, <1>3, <1>8 DEF TypeInv, TypeOK, WhereInv, Taken, Carrying, Restoring, db
<1>10. QED
  BY <1>3, <1>5, <1>7, <1>9 DEF TypeInv

\* Readings that go back become rows of monitors.
LEMMA RestoreSamplesType ==
  ASSUME TypeInv, NEW owner, NEW server, RestoreSamples(owner, server),
         \A r \in DOMAIN owner : owner[r] \in Monitors
  PROVE  /\ rows' \in SUBSET Row /\ samples' \in SUBSET Sample
         /\ \A x \in rows' : x.reading \in DOMAIN source
         /\ \A x \in samples' : x.reading \in DOMAIN source
<1> DEFINE back == {x \in samples : x.server = server /\ x.reading \in DOMAIN owner}
<1>1. /\ rows' = rows \cup {AsRow(x, owner[x.reading]) : x \in back}
      /\ samples' = samples \ back
  BY DEF RestoreSamples, SamplesWithout
<1>2. \A x \in back : AsRow(x, owner[x.reading]) \in Row /\ AsRow(x, owner[x.reading]).reading \in DOMAIN source
  BY DEF AsRow, Row, Sample, TypeInv, TypeOK, WhereInv, Taken, Carrying
<1>3. QED
  BY <1>1, <1>2 DEF TypeInv, TypeOK, WhereInv, Taken, Carrying

\* A reading of a moved row goes back to a monitor of such a row.
LEMMA MonitorForMoved ==
  ASSUME NEW sw \in Sweep, NEW x \in sw.moved
  PROVE  \E y \in sw.moved : y.reading = x.reading /\ MonitorFor(sw, x.reading) = y.monitor
BY DEF MonitorFor

\* What a rollback restores of a sweep were rows of its monitors, and samples
\* that were taken.
LEMMA RestoreBatchType ==
  ASSUME TypeInv, RestoreBatch
  PROVE  TypeInv'
<1> DEFINE sw == Last(run.entry.sweeps)
           first == FirstBatch(run.todo)
           owner == [r \in {x.reading : x \in first} |-> MonitorFor(sw, r)]
<1>1. run \in Command /\ run.pc = "restore" /\ run.entry.sweeps # <<>>
  BY DEF RestoreBatch, TypeInv
<1>2. sw \in Sweep /\ run.todo \subseteq sw.moved /\ first \subseteq run.todo
  BY <1>1, LastMovedType DEF TypeInv, WhereInv, Command, Entry, FirstBatch
<1>3. /\ RestoreSamples(owner, sw.server)
      /\ run' = [run EXCEPT !.todo = @ \ first]
      /\ UNCHANGED <<servers, nextServer, token, attached, legacy, hot, journal>>
      /\ UNCHANGED <<source, push, mishaps, left>>
  BY DEF RestoreBatch, Keep, world
<1>4. \A r \in DOMAIN owner : owner[r] \in Monitors
  <2> SUFFICES ASSUME NEW x \in first PROVE MonitorFor(sw, x.reading) \in Monitors
    OBVIOUS
  <2>1. x \in sw.moved
    BY <1>2
  <2>2. QED
    BY <1>2, <2>1, MonitorForMoved DEF Sweep, Row
<1> HIDE DEF owner, sw, first
<1>5. /\ rows' \in SUBSET Row /\ samples' \in SUBSET Sample
      /\ \A x \in rows' : x.reading \in DOMAIN source
      /\ \A x \in samples' : x.reading \in DOMAIN source
  BY <1>3, <1>4, RestoreSamplesType
<1>6. run.todo \ first \in (SUBSET Row) \cup SUBSET Monitors
  BY <1>1 DEF Command
<1>7. run' \in Command
  BY <1>1, <1>3, <1>6 DEF Command
<1>8. TypeOK'
  BY <1>3, <1>5, <1>7 DEF TypeInv, TypeOK, Command
<1>9. WhereInv'
  BY <1>1, <1>3, <1>5 DEF TypeInv, WhereInv, Taken, Carrying, Restoring, Command
<1>10. QED
  BY <1>3, <1>7, <1>8, <1>9 DEF TypeInv

\* The rows without metrics, kept in the journal, were taken too.
LEMMA RestoreBareType ==
  ASSUME TypeInv, RestoreBare, \A x \in Last(run.entry.sweeps).bare : Taken(x)
  PROVE  TypeInv'
<1> DEFINE bare == Last(run.entry.sweeps).bare
           rest == Front(run.entry.sweeps)
<1>1. run \in Command /\ run.pc = "restore" /\ run.entry.sweeps # <<>>
  BY DEF RestoreBare, TypeInv
<1>2. bare \in SUBSET Row /\ rest \in Seq(Sweep) /\ LastMoved(rest) \in SUBSET Row
  <2>1. Last(run.entry.sweeps) \in Sweep /\ rest \in Seq(Sweep)
    BY <1>1, LastMovedType DEF Command, Entry
  <2>2. QED
    BY <2>1, LastMovedType DEF Sweep
<1>3. /\ \/ run' = Idle /\ UNCHANGED rows
         \/ /\ rows' = rows \cup bare
            /\ run' = [run EXCEPT !.entry.sweeps = rest, !.todo = LastMoved(rest)]
      /\ UNCHANGED <<samples, servers, nextServer, token, attached, legacy, hot, journal>>
      /\ UNCHANGED <<source, push, mishaps, left>>
  BY DEF RestoreBare, Keep, world
<1>4. \A x \in bare : x.reading \in DOMAIN source
  BY DEF Taken
<1> HIDE DEF bare, rest
<1>5. [run.entry EXCEPT !.sweeps = rest] \in Entry
  BY <1>1, <1>2 DEF Command, Entry
<1>6. run' \in Command
  BY <1>1, <1>2, <1>3, <1>5, IdleType DEF Command
<1>7. TypeOK'
  BY <1>2, <1>3, <1>6 DEF TypeInv, TypeOK, Command
<1>8. WhereInv'
  <2>1. \A x \in rows' : x.reading \in DOMAIN source
    BY <1>3, <1>4 DEF TypeInv, WhereInv, Taken, Carrying
  <2>2. CASE run' = Idle
    BY <1>3, <2>1, <2>2 DEF TypeInv, WhereInv, Taken, Carrying, Restoring, Idle, NewEntry, Held
  <2>3. CASE run' = [run EXCEPT !.entry.sweeps = rest, !.todo = LastMoved(rest)]
    <3>1. /\ run'.pc = "restore" /\ run'.index = run.index
          /\ run'.todo = LastMoved(rest) /\ run'.entry.sweeps = rest
          /\ run'.entry.created = run.entry.created
          /\ run'.live = run.live /\ run'.orphans = run.orphans
      BY <1>1, <2>3 DEF Command, Entry
    <3>2. QED
      BY <1>1, <1>3, <2>1, <3>1 DEF TypeInv, WhereInv, Taken, Carrying, Restoring, Held
  <2>4. QED
    BY <1>3, <2>2, <2>3
<1>9. QED
  BY <1>3, <1>6, <1>7, <1>8 DEF TypeInv

\* The server that is undone next is one the entry created.
LEMMA CreatedIs ==
  ASSUME run \in Command, run.entry.created # {}
  PROVE  Created \in run.entry.created /\ Created.id \in Nat
<1>1. \A c \in run.entry.created : c.id \in Nat
  BY DEF Command, Entry
<1>2. \E c \in run.entry.created : \A d \in run.entry.created : c.id <= d.id
  BY <1>1, LowestIdExists
<1>3. QED
  BY <1>1, <1>2 DEF Created

\* The samples that came later go to a monitor the created server has.
LEMMA RestoreRestType ==
  ASSUME TypeInv, RestoreRest
  PROVE  TypeInv'
<1> DEFINE first == FirstBatch(OnServer(Created.id))
           owner == [r \in {x.reading : x \in first} |-> Lowest(Created.monitors)]
<1>1. run \in Command /\ run.pc = "rest" /\ run.entry.created # {}
  BY DEF RestoreRest, TypeInv
<1>2. Created \in run.entry.created
  BY <1>1, CreatedIs
<1>3. Created.monitors \in SUBSET Monitors /\ Created.monitors # {}
  BY <1>1, <1>2 DEF Command, Entry, TypeInv, WhereInv, Held
<1>4. Lowest(Created.monitors) \in Monitors
  BY <1>3, LeastExists, BackfillAssumption DEF Lowest
<1>5. /\ \/ RestoreSamples(owner, Created.id) /\ UNCHANGED run
         \/ run' = [run EXCEPT !.pc = "close"] /\ UNCHANGED <<rows, samples>>
      /\ UNCHANGED <<servers, nextServer, token, attached, legacy, hot, journal>>
      /\ UNCHANGED <<source, push, mishaps, left>>
  BY DEF RestoreRest, Keep, world, Goto
<1>6. \A r \in DOMAIN owner : owner[r] \in Monitors
  BY <1>4
<1> HIDE DEF owner, first
<1>7. /\ rows' \in SUBSET Row /\ samples' \in SUBSET Sample
      /\ \A x \in rows' : x.reading \in DOMAIN source
      /\ \A x \in samples' : x.reading \in DOMAIN source
  BY <1>5, <1>6, RestoreSamplesType DEF TypeInv, TypeOK, WhereInv, Taken, Carrying
<1>8. run' \in Command
  BY <1>1, <1>5 DEF Command, Steps, Restoring
<1>9. TypeOK'
  BY <1>5, <1>7, <1>8 DEF TypeInv, TypeOK, Command
<1>10. WhereInv'
  BY <1>1, <1>5, <1>7 DEF TypeInv, WhereInv, Taken, Carrying, Restoring, Command
<1>11. QED
  BY <1>5, <1>8, <1>9, <1>10 DEF TypeInv

\* Closing the incidents of a server and going on to its deletion changes no type.
LEMMA CloseServerIncidentsType ==
  ASSUME TypeInv, CloseServerIncidents
  PROVE  TypeInv'
<1>1. /\ run \in Command /\ run.pc = "close" /\ run' = [run EXCEPT !.pc = "delete"]
      /\ hot' \subseteq hot
      /\ UNCHANGED <<rows, samples, servers, nextServer, token, attached, legacy, journal>>
      /\ UNCHANGED <<source, push, mishaps, left>>
  BY DEF CloseServerIncidents, Keep, world, Goto, TypeInv
<1>2. run' \in Command
  BY <1>1 DEF Command, Steps, Restoring
<1>3. TypeOK'
  BY <1>1, <1>2 DEF TypeInv, TypeOK, Command
<1>4. WhereInv'
  BY <1>1 DEF TypeInv, WhereInv, Taken, Carrying, Restoring, Command
<1>5. QED
  BY <1>1, <1>2, <1>3, <1>4 DEF TypeInv

\* The deletion leaves servers, attachments and the entry what they were, less
\* one.
LEMMA DeleteServerType ==
  ASSUME TypeInv, DeleteServer
  PROVE  TypeInv'
<1>1. run \in Command /\ run.pc = "delete" /\ run.entry.created # {}
  BY DEF DeleteServer, TypeInv, WhereInv
<1>2. Created \in run.entry.created /\ Created.id \in Nat
  BY <1>1, CreatedIs
<1>3. /\ attached' = [m \in Monitors |-> IF attached[m] = Created.id THEN 0 ELSE attached[m]]
      /\ servers' \subseteq servers
      /\ mishaps' = mishaps \/ mishaps' = mishaps \cup {"late"}
      /\ run' = [run EXCEPT !.pc = "rest", !.entry.created = @ \ {Created}]
      /\ UNCHANGED <<rows, samples, nextServer, token, legacy, hot, source, push, journal, left>>
  BY DEF DeleteServer, world
<1>4. [run.entry EXCEPT !.created = @ \ {Created}] \in Entry
  BY <1>1 DEF Command, Entry
<1>5. run' \in Command
  BY <1>1, <1>3, <1>4 DEF Command, Steps, Restoring
<1>6. TypeOK'
  <2>1. attached' \in [Monitors -> Nat]
    BY <1>3 DEF TypeInv, TypeOK
  <2>2. QED
    BY <1>3, <1>5, <2>1 DEF TypeInv, TypeOK, Command
<1>7. Held(run'.entry)
  BY <1>1, <1>3 DEF Held, TypeInv, WhereInv, Command, Entry
<1>8. WhereInv'
  BY <1>1, <1>3, <1>7 DEF TypeInv, WhereInv, Taken, Carrying, Restoring, Command
<1>9. QED
  BY <1>3, <1>5, <1>6, <1>8 DEF TypeInv

\* The token given back is one the entry dropped.
LEMMA DroppedIs ==
  ASSUME TypeInv, RestoreToken
  PROVE  \E d \in run.entry.dropped :
           /\ token' = [token EXCEPT ![d.monitor] = d.token]
           /\ run' = [run EXCEPT !.entry.dropped = @ \ {d}]
<1> DEFINE S == run.entry.dropped
           ids == {d.monitor : d \in S}
           chosen == CHOOSE d \in S : \A e \in S : d.monitor <= e.monitor
<1>1. S \in SUBSET [monitor: Monitors, token: Tokens] /\ S # {}
  BY DEF RestoreToken, TypeInv, Command, Entry
<1>2. ids \in SUBSET Nat /\ ids # {}
  <2>1. \A d \in S : d.monitor \in Nat
    BY <1>1, BackfillAssumption
  <2>2. QED
    BY <1>1, <2>1
<1>3. Min(ids) \in ids /\ \A y \in ids : Min(ids) <= y
  BY <1>2, LeastExists
<1>4. \E d \in S : \A e \in S : d.monitor <= e.monitor
  BY <1>3
<1>5. chosen \in S
  BY <1>4
<1>6. /\ token' = [token EXCEPT ![chosen.monitor] = chosen.token]
      /\ run' = [run EXCEPT !.entry.dropped = @ \ {chosen}]
  BY DEF RestoreToken
<1>7. QED
  BY <1>5, <1>6

\* A token that was dropped goes back to the monitor the journal names.
LEMMA RestoreTokenType ==
  ASSUME TypeInv, RestoreToken
  PROVE  TypeInv'
<1>1. PICK d \in run.entry.dropped :
        /\ token' = [token EXCEPT ![d.monitor] = d.token]
        /\ run' = [run EXCEPT !.entry.dropped = @ \ {d}]
  BY DroppedIs
<1>2. /\ run \in Command /\ run.pc = "rest"
      /\ d \in [monitor: Monitors, token: Tokens]
      /\ UNCHANGED <<rows, samples, servers, nextServer, attached, legacy, hot, journal>>
      /\ UNCHANGED <<source, push, mishaps, left>>
  BY DEF RestoreToken, Keep, world, TypeInv, Command, Entry
<1>3. [run.entry EXCEPT !.dropped = @ \ {d}] \in Entry
  BY <1>2 DEF Command, Entry
<1>4. run' \in Command
  BY <1>1, <1>2, <1>3 DEF Command
<1>5. TypeOK'
  BY <1>1, <1>2, <1>4 DEF TypeInv, TypeOK, Command
<1>6. Held(run'.entry)
  BY <1>1, <1>2 DEF Held, TypeInv, WhereInv, Command, Entry
<1>7. WhereInv'
  BY <1>1, <1>2, <1>6 DEF TypeInv, WhereInv, Taken, Carrying, Restoring, Command
<1>8. QED
  BY <1>2, <1>4, <1>5, <1>7 DEF TypeInv

\* An incident is opened again on a monitor.
LEMMA ReopenIncidentType ==
  ASSUME TypeInv, ReopenIncident
  PROVE  TypeInv'
<1> DEFINE m == Min(run.entry.resolved)
<1>1. /\ run \in Command /\ run.pc = "reopen" /\ run.entry.resolved # {}
      /\ legacy' = legacy \cup {m}
      /\ run' = [run EXCEPT !.entry.resolved = @ \ {m}]
      /\ UNCHANGED <<rows, samples, servers, nextServer, token, attached, hot, journal>>
      /\ UNCHANGED <<source, push, mishaps, left>>
  BY DEF ReopenIncident, Keep, world, TypeInv
<1>2. m \in Monitors
  BY <1>1, LeastExists, BackfillAssumption DEF Command, Entry
<1> HIDE DEF m
<1>3. [run.entry EXCEPT !.resolved = @ \ {m}] \in Entry
  BY <1>1 DEF Command, Entry
<1>4. run' \in Command
  BY <1>1, <1>3 DEF Command
<1>5. TypeOK'
  BY <1>1, <1>2, <1>4 DEF TypeInv, TypeOK, Command
<1>6. Held(run'.entry)
  BY <1>1 DEF Held, TypeInv, WhereInv, Command, Entry
<1>7. WhereInv'
  BY <1>1, <1>6 DEF TypeInv, WhereInv, Taken, Carrying, Restoring, Command
<1>8. QED
  BY <1>1, <1>4, <1>5, <1>7 DEF TypeInv

\* The end of a rollback marks the entry it has taken, which the journal has.
LEMMA RollbackPhaseType ==
  ASSUME TypeInv, NextRollbackPhase \/ MarkRolledBack
  PROVE  TypeInv'
<1>1. /\ run \in Command
      /\ UNCHANGED <<rows, samples, servers, nextServer, token, attached, legacy, hot>>
      /\ UNCHANGED <<source, push, mishaps, left>>
  BY DEF NextRollbackPhase, MarkRolledBack, db, Keep, world, TypeInv
<1>2. CASE NextRollbackPhase
  <2>1. /\ UNCHANGED journal
        /\ \/ run.pc = "restore" /\ run' = [run EXCEPT !.pc = "rest"]
           \/ run.pc = "rest" /\ run' = [run EXCEPT !.pc = "reopen"]
    BY <1>2 DEF NextRollbackPhase, Goto
  <2>2. run' \in Command
    BY <1>1, <2>1 DEF Command, Steps, Restoring
  <2>3. TypeOK'
    BY <1>1, <2>1, <2>2 DEF TypeInv, TypeOK, Command
  <2>4. WhereInv'
    BY <1>1, <2>1 DEF TypeInv, WhereInv, Taken, Carrying, Restoring, Command
  <2>5. QED
    BY <1>1, <2>2, <2>3, <2>4 DEF TypeInv
<1>3. CASE MarkRolledBack
  <2>1. /\ run.pc = "reopen" /\ run' = Idle
        /\ journal' = [journal EXCEPT ![run.index].rolledBack = TRUE]
    BY <1>3 DEF MarkRolledBack
  <2>2. run.index \in DOMAIN journal /\ journal \in Seq(Entry)
    BY <2>1 DEF TypeInv, TypeOK, WhereInv, Restoring
  <2>3. [journal[run.index] EXCEPT !.rolledBack = TRUE] \in Entry
    <3>1. journal[run.index] \in Entry
      BY <2>2
    <3>2. QED
      BY <3>1 DEF Entry
  <2>4. journal' \in Seq(Entry) /\ DOMAIN journal' = DOMAIN journal
    BY <2>1, <2>2, <2>3
  <2>5. \A i \in DOMAIN journal : journal'[i].created = journal[i].created
    BY <2>1, <2>2 DEF Entry
  <2>6. \A i \in DOMAIN journal' : Held(journal'[i])
    BY <2>4, <2>5 DEF Held, TypeInv, WhereInv
  <2>7. run' \in Command
    BY <2>1, IdleType
  <2>8. TypeOK'
    BY <1>1, <2>4, <2>7 DEF TypeInv, TypeOK, Command
  <2>9. WhereInv'
    BY <1>1, <2>1, <2>6 DEF TypeInv, WhereInv, Taken, Carrying, Restoring, Idle, NewEntry, Held
  <2>10. QED
    BY <1>1, <2>7, <2>8, <2>9 DEF TypeInv
<1>4. QED
  BY <1>2, <1>3

\* A killed process leaves no command; the tables and the journal stay.
LEMMA DieType ==
  ASSUME TypeInv, Die
  PROVE  TypeInv'
<1>1. /\ run' = Idle /\ Spend("die")
      /\ mishaps' = mishaps \/ mishaps' = mishaps \cup {"unrecorded"}
      /\ UNCHANGED <<rows, samples, servers, nextServer, token, attached, legacy, hot>>
      /\ UNCHANGED <<source, push, journal>>
  BY DEF Die, db, world
<1>2. left' \in [Events -> Nat]
  BY <1>1, SpendType DEF TypeInv, TypeOK, Events
<1>3. run' \in Command
  BY <1>1, IdleType
<1>4. TypeOK'
  BY <1>1, <1>2, <1>3 DEF TypeInv, TypeOK, Command
<1>5. WhereInv'
  BY <1>1 DEF TypeInv, WhereInv, Taken, Carrying, Restoring, Idle, NewEntry, Held
<1>6. QED
  BY <1>1, <1>3, <1>4, <1>5 DEF TypeInv

\* Where a push lands is decided when its token is looked up.
LEMMA StartPushIs ==
  ASSUME TypeInv, NEW t \in Tokens, StartPush(t)
  PROVE  /\ push.pc = "idle" /\ source' = Append(source, t) /\ Spend("push")
         /\ UNCHANGED <<db, journal, run, mishaps>>
         /\ \/ \E s \in servers :
                 s.token = t /\ push' = [pc |-> "server", reading |-> Len(source) + 1,
                                         server |-> s.id, monitor |-> 0]
            \/ \E m \in Monitors :
                 token[m] = t /\ push' = [pc |-> "legacy", reading |-> Len(source) + 1,
                                          server |-> 0, monitor |-> m]
<1> DEFINE holders == {m \in Monitors : token[m] = t}
<1>1. ServersWith(t) \in SUBSET Nat /\ holders \in SUBSET Nat
  BY ZenonT(30), BackfillAssumption DEF ServersWith, TypeInv, TypeOK
<1>2. ServersWith(t) # {} => Min(ServersWith(t)) \in ServersWith(t)
  BY <1>1, LeastExists
<1>3. holders # {} => Lowest(holders) \in holders
  BY <1>1, LeastExists DEF Lowest
<1>4. QED
  BY <1>2, <1>3 DEF StartPush, ServersWith

\* A push takes the next reading, and goes to a server or to a monitor.
LEMMA StartPushType ==
  ASSUME TypeInv, NEW t \in Tokens, StartPush(t)
  PROVE  TypeInv'
<1>1. /\ source' = Append(source, t) /\ Spend("push")
      /\ UNCHANGED <<db, journal, run, mishaps>>
  BY StartPushIs
<1>2. /\ push' \in Request /\ push'.reading = Len(source) + 1
      /\ push'.pc \in {"server", "legacy"}
      /\ push'.pc = "legacy" => push'.monitor \in Monitors
  BY SMTT(30), StartPushIs DEF TypeInv, TypeOK, Request
<1>3. /\ source' \in Seq(Tokens) /\ DOMAIN source \subseteq DOMAIN source'
      /\ Len(source) + 1 \in DOMAIN source'
  BY <1>1 DEF TypeInv, TypeOK
<1>4. left' \in [Events -> Nat]
  BY <1>1, SpendType DEF TypeInv, TypeOK, Events
<1>5. TypeOK'
  BY <1>1, <1>3, <1>4 DEF TypeInv, TypeOK, db
<1>6. WhereInv'
  BY <1>1, <1>2, <1>3 DEF TypeInv, WhereInv, Taken, Carrying, Restoring, db
<1>7. QED
  BY <1>1, <1>2, <1>5, <1>6 DEF TypeInv

\* A push lands as a row or a sample, and its incidents follow.
Lands == LandOnServer \/ LandOnMonitor
Reconciles == \E open \in BOOLEAN : ReconcileServer(open) \/ ReconcileMonitor(open)

\* A push that lands leaves a row or a sample of a reading that was taken.
LEMMA LandType ==
  ASSUME TypeInv, Lands
  PROVE  TypeInv'
<1>1. /\ UNCHANGED <<servers, nextServer, token, attached, legacy, hot>>
      /\ UNCHANGED <<source, journal, run, left>>
      /\ push \in Request /\ Carrying /\ push.reading \in DOMAIN source
  BY DEF Lands, LandOnMonitor, LandOnServer, TypeInv, WhereInv, Taken, Carrying
<1>2. /\ push' \in Request /\ push'.pc \in {"incident", "edge"}
      /\ push'.pc = "edge" => push'.monitor \in Monitors
      /\ mishaps' \subseteq {"unrecorded", "late", "pushed", "detached"}
      /\ rows' \in SUBSET Row /\ samples' \in SUBSET Sample
      /\ \A x \in rows' : x.reading \in DOMAIN source
      /\ \A x \in samples' : x.reading \in DOMAIN source
  <2>1. CASE LandOnMonitor
    <3>1. /\ rows' = rows \cup {[reading |-> push.reading, monitor |-> push.monitor]}
          /\ push' = [pc |-> "edge", reading |-> 0, server |-> 0, monitor |-> push.monitor]
          /\ UNCHANGED <<samples, mishaps>> /\ push.monitor \in Monitors
      BY <2>1 DEF LandOnMonitor, NoPush, TypeInv, WhereInv
    <3>2. [reading |-> push.reading, monitor |-> push.monitor] \in Row
      BY <1>1, <3>1 DEF Row, Request
    <3>3. push' \in Request
      BY <3>1 DEF Request
    <3>4. QED
      BY <1>1, <3>1, <3>2, <3>3 DEF TypeInv, TypeOK, WhereInv, Taken
  <2>2. CASE LandOnServer
    <3>1. /\ samples' = samples \cup {[reading |-> push.reading, server |-> push.server]}
          /\ push' = [pc |-> "incident", reading |-> 0, server |-> push.server, monitor |-> 0]
          /\ mishaps' \subseteq mishaps \cup {"late"} /\ UNCHANGED rows
      BY <2>2 DEF LandOnServer, NoPush
    <3>2. [reading |-> push.reading, server |-> push.server] \in Sample /\ push.server \in Nat
      BY <1>1 DEF Sample, Request
    <3>3. push' \in Request
      BY <3>1, <3>2 DEF Request
    <3>4. QED
      BY <1>1, <3>1, <3>2, <3>3 DEF TypeInv, TypeOK, WhereInv, Taken
  <2>3. QED
    BY <2>1, <2>2 DEF Lands
<1>3. TypeOK'
  BY <1>1, <1>2 DEF TypeInv, TypeOK
<1>4. WhereInv'
  BY <1>1, <1>2 DEF TypeInv, WhereInv, Taken, Carrying, Restoring
<1>5. QED
  BY <1>1, <1>2, <1>3, <1>4 DEF TypeInv

\* The incidents of a push are of a server or a monitor; on a server that is gone
\* one that opens is late, and a monitor's incident that moves was pushed.
LEMMA ReconcileIs ==
  ASSUME TypeInv, Reconciles
  PROVE  /\ UNCHANGED <<rows, samples, servers, nextServer, token, attached>>
         /\ UNCHANGED <<source, journal, run, left>>
         /\ push' = NoPush /\ push.pc \in {"incident", "edge"} /\ mishaps \subseteq mishaps'
         /\ mishaps' \subseteq mishaps \cup {"late", "pushed"}
         /\ hot' \subseteq Nat /\ legacy' \subseteq Monitors
         /\ legacy' # legacy => "pushed" \in mishaps'
         /\ "late" \notin mishaps' =>
              \A id \in hot' : id \in hot \/ \E s \in servers : s.id = id
<1>1. PICK open \in BOOLEAN : ReconcileServer(open) \/ ReconcileMonitor(open)
  BY DEF Reconciles
<1>2. push \in Request /\ (push.pc = "edge" => push.monitor \in Monitors)
  BY DEF TypeInv, WhereInv
<1>3. CASE ReconcileServer(open)
  <2>1. /\ hot' = IF open THEN hot \cup {push.server} ELSE hot \ {push.server}
        /\ mishaps' = IF ~open \/ \E s \in servers : s.id = push.server THEN mishaps
                      ELSE mishaps \cup {"late"}
        /\ push.server \in Nat /\ UNCHANGED legacy
    BY <1>2, <1>3 DEF ReconcileServer, Request
  <2>2. QED
    BY <1>3, <2>1 DEF ReconcileServer, TypeInv, TypeOK
<1>4. CASE ReconcileMonitor(open)
  BY <1>2, <1>4 DEF ReconcileMonitor, TypeInv, TypeOK
<1>5. QED
  BY <1>1, <1>3, <1>4

\* They leave every table but those of the incidents.
LEMMA ReconcileType ==
  ASSUME TypeInv, Reconciles
  PROVE  TypeInv'
<1>1. /\ UNCHANGED <<rows, samples, servers, nextServer, token, attached>>
      /\ UNCHANGED <<source, journal, run, left>> /\ push' = NoPush
      /\ mishaps' \subseteq mishaps \cup {"late", "pushed"}
      /\ hot' \subseteq Nat /\ legacy' \subseteq Monitors
  BY ReconcileIs
<1>2. NoPush \in Request
  BY DEF NoPush, Request
<1>3. TypeOK'
  BY <1>1 DEF TypeInv, TypeOK
<1>4. WhereInv'
  BY <1>1 DEF TypeInv, WhereInv, Taken, Carrying, Restoring, NoPush
<1>5. QED
  BY <1>1, <1>2, <1>3, <1>4 DEF TypeInv

\* A monitor that is detached has no server.
LEMMA DetachType ==
  ASSUME TypeInv, NEW m \in Monitors, Detach(m)
  PROVE  TypeInv'
<1>1. /\ attached' = [attached EXCEPT ![m] = 0] /\ Spend("detach")
      /\ mishaps' \subseteq mishaps \cup {"detached"}
      /\ UNCHANGED <<rows, samples, servers, nextServer, token, legacy, hot>>
      /\ UNCHANGED <<source, push, journal, run>>
  BY DEF Detach, world
<1>2. left' \in [Events -> Nat]
  BY <1>1, SpendType DEF TypeInv, TypeOK, Events
<1>3. TypeOK'
  BY <1>1, <1>2 DEF TypeInv, TypeOK
<1>4. WhereInv'
  BY <1>1 DEF TypeInv, WhereInv, Taken, Carrying
<1>5. QED
  BY <1>1, <1>3, <1>4 DEF TypeInv

\* A step that changes nothing keeps the types.
LEMMA StutterType ==
  ASSUME TypeInv, UNCHANGED vars
  PROVE  TypeInv'
BY DEF vars, db, world, TypeInv, TypeOK, WhereInv, Taken, Carrying

\* The tables before the first run have their types.
LEMMA InitType == Init => TypeInv
<1> SUFFICES ASSUME Init PROVE TypeInv
  OBVIOUS
<1>1. OwnerOf \in Seq(Monitors) /\ Monitors \subseteq Nat /\ TokenOf \in [Monitors -> Tokens]
  BY BackfillAssumption
<1>2. DOMAIN OwnerOf \subseteq Nat /\ \A r \in DOMAIN OwnerOf : OwnerOf[r] \in Monitors
  BY <1>1
<1>3. rows \in SUBSET Row
  BY <1>2 DEF Init, Row
<1>4. source \in Seq(Tokens) /\ DOMAIN source = DOMAIN OwnerOf
  <2>1. DOMAIN OwnerOf = 1 .. Len(OwnerOf) /\ Len(OwnerOf) \in Nat
    BY <1>1
  <2>2. \A r \in DOMAIN OwnerOf : TokenOf[OwnerOf[r]] \in Tokens
    BY <1>1, <1>2
  <2>3. source \in [1 .. Len(OwnerOf) -> Tokens]
    BY <2>1, <2>2 DEF Init
  <2>4. QED
    BY <2>1, <2>3
<1>5. run \in Command /\ push \in Request
  BY IdleType DEF Init, NoPush, Request
<1>6. token \in [Monitors -> Tokens \cup {NoToken}]
  BY <1>1 DEF Init
<1>7. TypeOK
  BY <1>3, <1>4, <1>5, <1>6, BackfillAssumption DEF Init, TypeOK, Command
<1>8. WhereInv
  BY <1>4 DEF Init, WhereInv, Taken, Carrying, Restoring, Idle, NewEntry, NoPush, Held
<1>9. QED
  BY <1>5, <1>7, <1>8 DEF TypeInv

(***************************************************************************)
(* Boxes never mix.  A token is a box, and ids are never given twice, so   *)
(* there is one map from the ids of servers, deleted ones included, to     *)
(* tokens on which everything agrees that names a server: the table, the   *)
(* journal, the command in memory, the push in flight and every sample.    *)
(* Likewise all that names a monitor names one of the reading's token.     *)
(***************************************************************************)
\* A row, wherever it is kept, is on a monitor of the token it came with.
InPlace(x, said) == x.reading \in DOMAIN said /\ TokenOf[x.monitor] = said[x.reading]

\* The server id has this token.
Serves(id, t, box) == id \in DOMAIN box /\ box[id] = t

Known(s, box) ==
  Serves(s.id, s.token, box) /\ \A m \in s.monitors : TokenOf[m] = s.token

GroupOK(g, box) ==
  /\ \A m \in g.monitors : TokenOf[m] = g.token
  /\ g.existing # 0 => Serves(g.existing, g.token, box)

SweepOK(sw, box, said) ==
  /\ \A m \in sw.monitors : Serves(sw.server, TokenOf[m], box)
  /\ \A x \in sw.moved \cup sw.bare : InPlace(x, said)
  /\ \A x \in sw.bare : x.reading \in Bare

EntryOK(e, box, said) ==
  /\ \A c \in e.created : Known(c, box)
  /\ \A i \in DOMAIN e.sweeps : SweepOK(e.sweeps[i], box, said)
  /\ \A d \in e.dropped : TokenOf[d.monitor] = d.token

CommandOK(st, box, said) ==
  /\ EntryOK(st.entry, box, said) /\ SweepOK(st.sweep, box, said)
  /\ \A g \in st.live \cup st.orphans : GroupOK(g, box)
  /\ \A i \in DOMAIN st.made : Known(st.made[i], box)
  /\ \A i \in DOMAIN st.kept : Known(st.kept[i], box)

RequestOK(p, box, said) ==
  /\ p.pc = "server" => Serves(p.server, said[p.reading], box)
  /\ p.pc = "legacy" => InPlace(p, said)

TablesOK(box, said) ==
  /\ \A x \in rows : InPlace(x, said)
  /\ \A x \in samples : x.reading \in DOMAIN said /\ Serves(x.server, said[x.reading], box)
  /\ \A s \in servers : Serves(s.id, s.token, box)
  /\ \A m \in Monitors : token[m] \in {TokenOf[m], NoToken}

Agree(box) ==
  /\ TablesOK(box, source)
  /\ \A i \in DOMAIN journal : EntryOK(journal[i], box, source)
  /\ CommandOK(run, box, source)
  /\ RequestOK(push, box, source)

BoxInv == \E box \in [1 .. nextServer - 1 -> Tokens] : Agree(box)

\* What agrees goes on agreeing when a reading is taken or a server created.
LEMMA Carries ==
  ASSUME NEW said, NEW said2, NEW box, NEW box2,
         DOMAIN said \subseteq DOMAIN said2, \A r \in DOMAIN said : said2[r] = said[r],
         DOMAIN box \subseteq DOMAIN box2, \A i \in DOMAIN box : box2[i] = box[i]
  PROVE  /\ \A x : InPlace(x, said) => InPlace(x, said2)
         /\ \A id, t : Serves(id, t, box) => Serves(id, t, box2)
         /\ \A e : EntryOK(e, box, said) => EntryOK(e, box2, said2)
         /\ \A st : CommandOK(st, box, said) => CommandOK(st, box2, said2)
<1>1. \A x : InPlace(x, said) => InPlace(x, said2)
  BY DEF InPlace
<1>2. \A id, t : Serves(id, t, box) => Serves(id, t, box2)
  BY DEF Serves
<1>3. \A sw : SweepOK(sw, box, said) => SweepOK(sw, box2, said2)
  BY <1>1, <1>2 DEF SweepOK
<1>4. \A s : Known(s, box) => Known(s, box2)
  BY <1>2 DEF Known
<1>5. \A e : EntryOK(e, box, said) => EntryOK(e, box2, said2)
  BY <1>3, <1>4 DEF EntryOK
<1>6. \A g : GroupOK(g, box) => GroupOK(g, box2)
  BY <1>2 DEF GroupOK
<1>7. \A st : CommandOK(st, box, said) => CommandOK(st, box2, said2)
  BY <1>3, <1>4, <1>5, <1>6 DEF CommandOK
<1>8. QED
  BY <1>1, <1>2, <1>5, <1>7

\* A command that rests agrees with everything.
LEMMA IdleAgrees == \A box, said : CommandOK(Idle, box, said)
<1> SUFFICES ASSUME NEW box, NEW said PROVE CommandOK(Idle, box, said)
  OBVIOUS
<1>1. SweepOK(NewSweep(0, {}), box, said)
  BY DEF SweepOK, NewSweep
<1>2. EntryOK(NewEntry, box, said)
  BY DEF EntryOK, NewEntry
<1>3. QED
  BY <1>1, <1>2 DEF CommandOK, Idle

\* What is flushed agrees when the command does.
LEMMA EntryNowAgrees ==
  ASSUME NEW st \in Command, NEW box, NEW said, CommandOK(st, box, said)
  PROVE  EntryOK(EntryNow(st), box, said)
<1> DEFINE longer == Append(st.entry.sweeps, st.sweep)
<1>1. /\ st.entry \in Entry /\ st.entry.sweeps \in Seq(Sweep) /\ st.sweep \in Sweep
      /\ EntryOK(st.entry, box, said) /\ SweepOK(st.sweep, box, said)
  BY DEF Command, Entry, CommandOK
<1>2. CASE EntryNow(st) = st.entry
  BY <1>1, <1>2
<1>3. CASE EntryNow(st) = [st.entry EXCEPT !.sweeps = longer]
  <2>1. /\ EntryNow(st).created = st.entry.created
        /\ EntryNow(st).dropped = st.entry.dropped
        /\ EntryNow(st).sweeps = longer
    BY <1>1, <1>3 DEF Entry
  <2>2. \A i \in DOMAIN longer : longer[i] = st.sweep \/ (i \in DOMAIN st.entry.sweeps
                                                         /\ longer[i] = st.entry.sweeps[i])
    BY <1>1
  <2>3. \A i \in DOMAIN longer : SweepOK(longer[i], box, said)
    BY <1>1, <2>2 DEF EntryOK
  <2> HIDE DEF longer
  <2>4. QED
    BY <1>1, <2>1, <2>3 DEF EntryOK
<1>4. QED
  BY <1>2, <1>3 DEF EntryNow

\* And so does the file it is flushed to.
LEMMA WriteEntryAgrees ==
  ASSUME TypeInv, run.pc # "idle", NEW box, Agree(box),
         NEW outcome \in {"running", "complete", "aborted"}, WriteEntry(run, outcome)
  PROVE  \A i \in DOMAIN journal' : EntryOK(journal'[i], box, source)
<1>1. /\ journal' \in Seq(Entry) /\ Len(journal') = run.index
      /\ \A i \in 1 .. run.index - 1 : journal'[i] = journal[i]
      /\ journal'[run.index] = [EntryNow(run) EXCEPT !.outcome = outcome,
                                                     !.finished = Len(source)]
  BY WriteEntryType
<1>2. run \in Command /\ EntryNow(run) \in Entry /\ EntryOK(EntryNow(run), box, source)
  BY EntryNowType, EntryNowAgrees DEF TypeInv, Agree
<1>3. /\ journal'[run.index].created = EntryNow(run).created
      /\ journal'[run.index].sweeps = EntryNow(run).sweeps
      /\ journal'[run.index].dropped = EntryNow(run).dropped
  BY <1>1, <1>2 DEF Entry
<1>4. EntryOK(journal'[run.index], box, source)
  BY <1>2, <1>3 DEF EntryOK
<1>5. journal \in Seq(Entry) /\ run.index \in 1 .. Len(journal) + 1
  BY DEF TypeInv, TypeOK, WhereInv
<1>6. ASSUME NEW i \in 1 .. run.index - 1 PROVE EntryOK(journal'[i], box, source)
  BY <1>1, <1>5, <1>6 DEF Agree
<1>7. \A i \in DOMAIN journal' : i = run.index \/ i \in 1 .. run.index - 1
  BY <1>1, <1>5
<1>8. QED
  BY <1>4, <1>6, <1>7

\* A step that moves only the command has only the command to answer for.
LEMMA CommandMoves ==
  ASSUME NEW box, Agree(box), CommandOK(run', box, source),
         UNCHANGED <<rows, samples, servers, token, source, journal, push>>
  PROVE  Agree(box)'
BY DEF Agree, TablesOK

\* The file is written; the rows, the samples and the servers are as they were.
LEMMA FlushAgrees ==
  ASSUME TypeInv, NEW box, Agree(box), Flush \/ Abort
  PROVE  Agree(box)'
<1>1. /\ UNCHANGED <<rows, samples, servers, token, source, push>>
      /\ run.pc # "idle" /\ run \in Command
      /\ \E outcome \in {"running", "complete", "aborted"} : WriteEntry(run, outcome)
      /\ run' = Idle \/ run' = [run EXCEPT !.pc = run.then]
  BY DEF Flush, Abort, db, world, Keep, TypeInv, Command, Entry
<1>2. \A i \in DOMAIN journal' : EntryOK(journal'[i], box, source)
  BY <1>1, WriteEntryAgrees
<1>3. CommandOK(run', box, source)
  <2>1. CASE run' = Idle
    BY <2>1, IdleAgrees
  <2>2. CASE run' = [run EXCEPT !.pc = run.then]
    BY <1>1, <2>2 DEF Agree, CommandOK, Command
  <2>3. QED
    BY <1>1, <2>1, <2>2
<1>4. QED
  BY <1>1, <1>2, <1>3 DEF Agree, TablesOK

\* The groups read at the start hold one token each, and the server found is
\* the one of that token.
LEMMA StartBackfillAgrees ==
  ASSUME TypeInv, NEW box, Agree(box), StartBackfill
  PROVE  Agree(box)'
<1> DEFINE held == {token[m] : m \in Monitors} \ {NoToken}
           groups == {Group(t) : t \in held}
           live == {g \in groups : IsLive(g)}
<1>1. held \subseteq Tokens
  BY DEF TypeInv, TypeOK
<1>2. \A g \in groups : GroupOK(g, box)
  <2> SUFFICES ASSUME NEW t \in held PROVE GroupOK(Group(t), box)
    OBVIOUS
  <2>1. /\ Group(t).token = t /\ Group(t).monitors = {m \in Monitors : token[m] = t}
        /\ Group(t).existing # 0 =>
             \E s \in servers : s.id = Group(t).existing /\ s.token = t
    BY <1>1, GroupType
  <2>2. \A m \in Group(t).monitors : TokenOf[m] = t
    BY <2>1 DEF Agree, TablesOK
  <2>3. Group(t).existing # 0 => Serves(Group(t).existing, t, box)
    BY <2>1 DEF Agree, TablesOK
  <2>4. QED
    BY <2>1, <2>2, <2>3 DEF GroupOK
<1>3. /\ run' = [Idle EXCEPT !.index = Len(journal) + 1, !.live = live,
                             !.orphans = groups \ live,
                             !.pc = "flush", !.then = "servers"]
      /\ UNCHANGED <<rows, samples, servers, token, source, journal, push>>
  BY DEF StartBackfill, Recorded, Idle, db, world
<1>4. live \cup (groups \ live) \subseteq groups
  OBVIOUS
<1> HIDE DEF groups, live
<1>5. CommandOK(run', box, source)
  <2>1. /\ run'.entry = Idle.entry /\ run'.sweep = Idle.sweep /\ run'.made = Idle.made
        /\ run'.kept = Idle.kept /\ run'.live = live /\ run'.orphans = groups \ live
    BY <1>3 DEF Idle
  <2>2. CommandOK(Idle, box, source)
    BY IdleAgrees
  <2>3. QED
    BY <1>2, <1>4, <2>1, <2>2 DEF CommandOK
<1>6. QED
  BY <1>3, <1>5, CommandMoves

\* A new server takes an id that nothing has named yet, with the token of its
\* group.
LEMMA CreateServerAgrees ==
  ASSUME TypeInv, BoxInv, CreateServer
  PROVE  BoxInv'
<1> DEFINE g == First(run.live)
           s == [id |-> nextServer, token |-> g.token, monitors |-> g.monitors]
<1>1. PICK box \in [1 .. nextServer - 1 -> Tokens] : Agree(box)
  BY DEF BoxInv
<1> DEFINE grown == [id \in 1 .. nextServer |-> IF id = nextServer THEN g.token ELSE box[id]]
<1>2. run \in Command /\ run.pc = "servers" /\ g \in run.live
  BY FirstExists DEF CreateServer, TypeInv, WhereInv, Command
<1>3. g \in TokenGroup /\ GroupOK(g, box) /\ nextServer \in Nat /\ nextServer # 0
  BY <1>1, <1>2 DEF Command, Agree, CommandOK, TypeInv, TypeOK, WhereInv
<1>4. /\ run' = [run EXCEPT !.entry.created = @ \cup {s}, !.live = @ \ {g},
                            !.made = Append(@, s), !.pc = "flush", !.then = "servers"]
      /\ servers' = servers \cup {[id |-> nextServer, token |-> g.token]}
      /\ nextServer' = nextServer + 1
      /\ UNCHANGED <<rows, samples, token, journal, source, push>>
  BY <1>2 DEF CreateServer, Recorded, Keep, world, Command
<1>5. PICK wider : wider = grown
  OBVIOUS
<1>6. /\ wider \in [1 .. nextServer' - 1 -> Tokens]
      /\ DOMAIN box \subseteq DOMAIN wider /\ \A i \in DOMAIN box : wider[i] = box[i]
  BY <1>3, <1>4, <1>5 DEF TokenGroup
<1>7. Serves(nextServer, g.token, wider)
  BY <1>3, <1>5 DEF Serves
<1> HIDE DEF grown
<1>8. /\ \A x : InPlace(x, source) => InPlace(x, source)
      /\ \A id, t : Serves(id, t, box) => Serves(id, t, wider)
      /\ \A e : EntryOK(e, box, source) => EntryOK(e, wider, source)
      /\ \A st : CommandOK(st, box, source) => CommandOK(st, wider, source)
  BY <1>6, Carries
<1>9. Known(s, wider)
  BY <1>3, <1>7 DEF Known, GroupOK
<1>10. CommandOK(run, wider, source)
  BY <1>1, <1>8 DEF Agree
<1> HIDE DEF g
<1>11. CommandOK(run', wider, source)
  <2>1. /\ run'.entry = [run.entry EXCEPT !.created = @ \cup {s}]
        /\ run'.live \subseteq run.live /\ run'.orphans = run.orphans
        /\ run'.made = Append(run.made, s) /\ run'.kept = run.kept /\ run'.sweep = run.sweep
    BY <1>2, <1>4 DEF Command
  <2>2. /\ run'.entry.created = run.entry.created \cup {s}
        /\ run'.entry.sweeps = run.entry.sweeps /\ run'.entry.dropped = run.entry.dropped
    BY <1>2, <2>1 DEF Command, Entry
  <2> HIDE DEF s
  <2>3. run.made \in Seq(Server)
    BY <1>2 DEF Command
  <2>4. \A i \in DOMAIN run'.made :
          run'.made[i] = s \/ (i \in DOMAIN run.made /\ run'.made[i] = run.made[i])
    BY <2>1, <2>3
  <2>5. \A i \in DOMAIN run'.made : Known(run'.made[i], wider)
    BY <1>9, <1>10, <2>4 DEF CommandOK
  <2>6. EntryOK(run'.entry, wider, source)
    BY <1>9, <1>10, <2>2 DEF CommandOK, EntryOK
  <2>7. QED
    BY <1>10, <2>1, <2>5, <2>6 DEF CommandOK
<1>12. TablesOK(wider, source)'
  BY <1>1, <1>4, <1>7, <1>8 DEF Agree, TablesOK
<1>13. RequestOK(push, wider, source)
  BY <1>1, <1>8 DEF Agree, RequestOK
<1>14. \A i \in DOMAIN journal : EntryOK(journal[i], wider, source)
  BY <1>1, <1>8 DEF Agree
<1>15. Agree(wider)'
  BY <1>4, <1>11, <1>12, <1>13, <1>14 DEF Agree
<1>16. QED
  BY <1>6, <1>15 DEF BoxInv

\* Sweeps of a server that exists, the drop of an orphan's token and the end of
\* a legacy incident name what the groups named.
LEMMA UseServerAgrees ==
  ASSUME TypeInv, NEW box, Agree(box), UseServer
  PROVE  Agree(box)'
<1> DEFINE g == First(run.live)
           s == [id |-> g.existing, token |-> g.token, monitors |-> g.monitors]
<1>1. run \in Command /\ g \in run.live /\ g.existing # 0
  BY FirstExists DEF UseServer, TypeInv, WhereInv, Command
<1>2. Known(s, box)
  BY <1>1 DEF Known, Agree, CommandOK, GroupOK
<1>3. /\ run' = [run EXCEPT !.live = @ \ {g}, !.kept = Append(@, s)]
      /\ UNCHANGED <<rows, samples, servers, token, source, journal, push>>
  BY DEF UseServer, Keep, world
<1> HIDE DEF g, s
<1>4. /\ run'.entry = run.entry /\ run'.sweep = run.sweep /\ run'.made = run.made
      /\ run'.live \subseteq run.live /\ run'.orphans = run.orphans
      /\ run'.kept = Append(run.kept, s) /\ run.kept \in Seq(Server)
  BY <1>1, <1>3 DEF Command
<1>5. \A i \in DOMAIN run'.kept :
        run'.kept[i] = s \/ (i \in DOMAIN run.kept /\ run'.kept[i] = run.kept[i])
  BY <1>4
<1>6. CommandOK(run', box, source)
  BY <1>2, <1>4, <1>5 DEF Agree, CommandOK
<1>7. QED
  BY <1>3, <1>6, CommandMoves

\* What Phase B notes of a monitor is the token the monitor had.
LEMMA DropOrphanAgrees ==
  ASSUME TypeInv, NEW box, Agree(box), DropOrphan
  PROVE  Agree(box)'
<1> DEFINE g == First(run.orphans)
           gone == {[monitor |-> m, token |-> g.token] : m \in g.monitors}
<1>1. run \in Command /\ g \in run.orphans
  BY FirstExists DEF DropOrphan, TypeInv, WhereInv, Command
<1>2. \A d \in gone : TokenOf[d.monitor] = d.token
  BY <1>1 DEF Agree, CommandOK, GroupOK
<1>3. /\ run' = [run EXCEPT !.entry.dropped = @ \cup gone, !.orphans = @ \ {g},
                            !.pc = "flush", !.then = "orphans"]
      /\ token' = [m \in Monitors |-> IF m \in g.monitors THEN NoToken ELSE token[m]]
      /\ UNCHANGED <<rows, samples, servers, source, journal, push>>
  BY <1>1 DEF DropOrphan, Recorded, Keep, world, Command
<1> HIDE DEF g, gone
<1>4. /\ run'.entry = [run.entry EXCEPT !.dropped = @ \cup gone]
      /\ run'.sweep = run.sweep /\ run'.made = run.made /\ run'.kept = run.kept
      /\ run'.live = run.live /\ run'.orphans \subseteq run.orphans
  BY <1>1, <1>3 DEF Command
<1>5. /\ run'.entry.created = run.entry.created /\ run'.entry.sweeps = run.entry.sweeps
      /\ run'.entry.dropped = run.entry.dropped \cup gone
  BY <1>1, <1>4 DEF Command, Entry
<1>6. EntryOK(run'.entry, box, source)
  BY <1>2, <1>5 DEF Agree, CommandOK, EntryOK
<1>7. CommandOK(run', box, source)
  BY <1>4, <1>6 DEF Agree, CommandOK
<1>8. \A m \in Monitors : token'[m] \in {TokenOf[m], NoToken}
  BY <1>3 DEF Agree, TablesOK
<1>9. QED
  BY <1>3, <1>7, <1>8 DEF Agree, TablesOK

\* Phase C names no server and no token.
LEMMA ResolveIncidentAgrees ==
  ASSUME TypeInv, NEW box, Agree(box), ResolveIncident \/ NoteIncident \/ ReopenIncident
  PROVE  Agree(box)'
<1>1. /\ run \in Command
      /\ UNCHANGED <<rows, samples, servers, token, source, journal, push>>
  BY DEF ResolveIncident, NoteIncident, ReopenIncident, Keep, world, db, TypeInv
<1>2. /\ \E S : run'.entry = [run.entry EXCEPT !.resolved = S]
      /\ run'.sweep = run.sweep /\ run'.made = run.made /\ run'.kept = run.kept
      /\ run'.live = run.live /\ run'.orphans = run.orphans
  <2>1. CASE NoteIncident
    <3>1. run' = [run EXCEPT !.entry.resolved = @ \cup {Min(run.todo)},
                             !.todo = @ \ {Min(run.todo)},
                             !.pc = "flush", !.then = "incidents"]
      BY <1>1, <2>1 DEF NoteIncident, Recorded, Command
    <3>2. QED
      BY <1>1, <3>1 DEF Command
  <2>2. CASE ReopenIncident
    BY <1>1, <2>2 DEF ReopenIncident, Command
  <2>3. CASE ResolveIncident
    <3>1. run' = [run EXCEPT !.pc = "note"]
      BY <2>3 DEF ResolveIncident, Goto
    <3>2. run.entry = [run.entry EXCEPT !.resolved = run.entry.resolved]
      BY <1>1 DEF Command, Entry
    <3>3. QED
      BY <1>1, <3>1, <3>2 DEF Command
  <2>4. QED
    BY <2>1, <2>2, <2>3
<1>3. /\ run'.entry.created = run.entry.created /\ run'.entry.sweeps = run.entry.sweeps
      /\ run'.entry.dropped = run.entry.dropped
  BY <1>1, <1>2 DEF Command, Entry
<1>4. CommandOK(run', box, source)
  BY <1>2, <1>3 DEF Agree, CommandOK, EntryOK
<1>5. QED
  BY <1>1, <1>4, CommandMoves

\* A sweep is of the monitors of its server, and a row that moves is on one of
\* them: its sample is on the server of the token it came with.
LEMMA StartSweepAgrees ==
  ASSUME TypeInv, NEW box, Agree(box), StartSweep
  PROVE  Agree(box)'
<1> DEFINE s == Head(run.made)
<1>1. /\ run \in Command /\ run.made # <<>> /\ run.made \in Seq(Server)
      /\ UNCHANGED <<rows, samples, servers, token, source, journal, push>>
      /\ run'.made = Tail(run.made) /\ run'.sweep = NewSweep(s.id, s.monitors)
      /\ run'.entry = run.entry /\ run'.kept = run.kept
      /\ run'.live = run.live /\ run'.orphans = run.orphans
  BY DEF StartSweep, Keep, world, db, TypeInv, Command
<1>2. Known(s, box)
  BY <1>1 DEF Agree, CommandOK
<1>3. SweepOK(run'.sweep, box, source)
  <2>1. /\ run'.sweep.monitors = s.monitors /\ run'.sweep.server = s.id
        /\ run'.sweep.moved = {} /\ run'.sweep.bare = {}
    BY <1>1 DEF NewSweep
  <2>2. QED
    BY <1>2, <2>1 DEF SweepOK, Known
<1>4. \A i \in DOMAIN run'.made : i + 1 \in DOMAIN run.made /\ run'.made[i] = run.made[i + 1]
  BY <1>1
<1>5. CommandOK(run', box, source)
  BY <1>1, <1>3, <1>4 DEF Agree, CommandOK
<1>6. QED
  BY <1>1, <1>5, CommandMoves

\* The rows of a batch are on the monitors of the sweep, whose token is the
\* server's: the samples they become are on a server of the token they came with.
LEMMA SweepBatchAgrees ==
  ASSUME TypeInv, NEW box, Agree(box), SweepBatch
  PROVE  Agree(box)'
<1> DEFINE batch == BatchRows(run.sweep, run.from)
           moved == {x \in batch : Convertible(x)}
<1>1. run \in Command /\ SweepOK(run.sweep, box, source)
  BY DEF TypeInv, Agree, CommandOK
<1>2. /\ moved \subseteq batch
      /\ \A x \in batch : x \in rows /\ InPlace(x, source) /\ x.monitor \in run.sweep.monitors
  BY DEF BatchRows, Agree, TablesOK
<1>3. \A x \in batch : /\ x.reading \in DOMAIN source
                       /\ Serves(run.sweep.server, source[x.reading], box)
  BY <1>1, <1>2 DEF SweepOK, InPlace
<1>4. /\ rows' = rows \ batch
      /\ samples' = samples \cup {AsSample(x, run.sweep.server) : x \in moved}
      /\ run' = [run EXCEPT !.sweep.moved = @ \cup moved,
                            !.sweep.bare = @ \cup (batch \ moved),
                            !.from = @ + Batch, !.pc = "flush", !.then = "batch"]
      /\ UNCHANGED <<servers, token, journal, source, push>>
  BY <1>1 DEF SweepBatch, Recorded, Keep, world, Command
<1> HIDE DEF batch, moved
<1>5. /\ run'.entry = run.entry /\ run'.made = run.made /\ run'.kept = run.kept
      /\ run'.live = run.live /\ run'.orphans = run.orphans
      /\ run'.sweep = [run.sweep EXCEPT !.moved = @ \cup moved, !.bare = @ \cup (batch \ moved)]
  BY <1>1, <1>4 DEF Command
<1>6. /\ run'.sweep.server = run.sweep.server /\ run'.sweep.monitors = run.sweep.monitors
      /\ run'.sweep.moved = run.sweep.moved \cup moved
      /\ run'.sweep.bare = run.sweep.bare \cup (batch \ moved)
  BY <1>1, <1>5 DEF Command, Sweep
<1>7. SweepOK(run'.sweep, box, source)
  <2>1. \A x \in batch \ moved : x.reading \in Bare
    BY DEF moved, Convertible
  <2>2. QED
    BY <1>1, <1>2, <1>6, <2>1 DEF SweepOK
<1>8. CommandOK(run', box, source)
  BY <1>5, <1>7 DEF Agree, CommandOK
<1>9. \A x \in moved : LET y == AsSample(x, run.sweep.server)
                       IN  y.reading \in DOMAIN source /\ Serves(y.server, source[y.reading], box)
  BY <1>2, <1>3 DEF AsSample
<1>10. TablesOK(box, source)'
  <2>1. \A x \in rows' : InPlace(x, source)
    BY <1>4 DEF Agree, TablesOK
  <2>2. \A x \in samples' : x.reading \in DOMAIN source /\ Serves(x.server, source[x.reading], box)
    BY <1>4, <1>9 DEF Agree, TablesOK
  <2>3. QED
    BY <1>4, <2>1, <2>2 DEF Agree, TablesOK
<1>11. QED
  BY <1>4, <1>8, <1>10 DEF Agree

\* The entry agrees when the sweep does that joins it.
LEMMA EndSweepAgrees ==
  ASSUME TypeInv, NEW box, Agree(box), EndSweep
  PROVE  Agree(box)'
<1>1. /\ run \in Command
      /\ UNCHANGED <<rows, samples, servers, token, source, journal, push>>
      /\ run'.entry = EntryNow(run) /\ run'.sweep = NewSweep(0, {})
      /\ run'.made = run.made /\ run'.kept = run.kept
      /\ run'.live = run.live /\ run'.orphans = run.orphans
  BY DEF EndSweep, Keep, world, db, TypeInv, Command
<1>2. EntryOK(run'.entry, box, source)
  BY <1>1, EntryNowAgrees DEF Agree
<1>3. SweepOK(run'.sweep, box, source)
  BY <1>1 DEF SweepOK, NewSweep
<1>4. CommandOK(run', box, source)
  BY <1>1, <1>2, <1>3 DEF Agree, CommandOK
<1>5. QED
  BY <1>1, <1>4, CommandMoves

\* The servers to sweep into are those made and those kept, and both agree.
LEMMA NextPhaseAgrees ==
  ASSUME TypeInv, NEW box, Agree(box), NextPhase
  PROVE  Agree(box)'
<1>1. /\ run \in Command
      /\ UNCHANGED <<rows, samples, servers, token, source, journal, push>>
  BY DEF NextPhase, Keep, world, db, TypeInv
<1>2. /\ run'.entry = run.entry \/ run'.entry = [run.entry EXCEPT !.outcome = "complete"]
      /\ run'.made = run.made \/ run'.made = run.made \o run.kept
      /\ run'.sweep = run.sweep /\ run'.kept = run.kept
      /\ run'.live = run.live /\ run'.orphans = run.orphans
  BY ZenonT(30), <1>1 DEF NextPhase, Goto, Recorded, Command
<1>3. /\ run'.entry.created = run.entry.created /\ run'.entry.sweeps = run.entry.sweeps
      /\ run'.entry.dropped = run.entry.dropped
  BY <1>1, <1>2 DEF Command, Entry
<1>4. \A i \in DOMAIN (run.made \o run.kept) :
        \/ i \in DOMAIN run.made /\ (run.made \o run.kept)[i] = run.made[i]
        \/ i - Len(run.made) \in DOMAIN run.kept
           /\ (run.made \o run.kept)[i] = run.kept[i - Len(run.made)]
  BY <1>1 DEF Command
<1>5. \A i \in DOMAIN run'.made : Known(run'.made[i], box)
  BY <1>2, <1>4 DEF Agree, CommandOK
<1>6. CommandOK(run', box, source)
  BY <1>2, <1>3, <1>5 DEF Agree, CommandOK, EntryOK
<1>7. QED
  BY <1>1, <1>6, CommandMoves

\* A rollback starts from an entry of the file.
LEMMA StartRollbackAgrees ==
  ASSUME TypeInv, NEW box, Agree(box), StartRollback
  PROVE  Agree(box)'
<1> DEFINE e == journal[Max(Applied)]
<1>1. EntryOK(e, box, source)
  BY NewestApplied DEF StartRollback, Agree
<1>2. /\ run' = [Idle EXCEPT !.pc = "restore", !.entry = e, !.index = Max(Applied),
                             !.todo = LastMoved(e.sweeps)]
      /\ UNCHANGED <<rows, samples, servers, token, source, journal, push>>
  BY DEF StartRollback, world, db
<1> HIDE DEF e
<1>3. /\ run'.entry = e /\ run'.sweep = Idle.sweep /\ run'.made = Idle.made
      /\ run'.kept = Idle.kept /\ run'.live = Idle.live /\ run'.orphans = Idle.orphans
  BY <1>2 DEF Idle
<1>4. CommandOK(run', box, source)
  <2>1. CommandOK(Idle, box, source)
    BY IdleAgrees
  <2>2. QED
    BY <1>1, <1>3, <2>1 DEF CommandOK
<1>5. QED
  BY <1>2, <1>4, CommandMoves

\* Samples go back in place when their owner is a monitor of their token.
LEMMA RestoreSamplesAgrees ==
  ASSUME TypeInv, NEW box, Agree(box), NEW owner, NEW server,
         RestoreSamples(owner, server),
         \A x \in samples : x.server = server /\ x.reading \in DOMAIN owner =>
            TokenOf[owner[x.reading]] = source[x.reading],
         UNCHANGED <<servers, token, source>>
  PROVE  TablesOK(box, source)'
<1> DEFINE back == {x \in samples : x.server = server /\ x.reading \in DOMAIN owner}
<1>1. /\ rows' = rows \cup {AsRow(x, owner[x.reading]) : x \in back}
      /\ samples' = samples \ back
  BY DEF RestoreSamples, SamplesWithout
<1>2. \A x \in back : InPlace(AsRow(x, owner[x.reading]), source)
  BY DEF AsRow, InPlace, Agree, TablesOK
<1> HIDE DEF back
<1>3. QED
  BY <1>1, <1>2 DEF Agree, TablesOK

\* A reading of a sweep goes back to the monitor it was moved from, or to one of
\* the same token.
LEMMA RestoreBatchAgrees ==
  ASSUME TypeInv, NEW box, Agree(box), RestoreBatch
  PROVE  Agree(box)'
<1> DEFINE sw == Last(run.entry.sweeps)
           first == FirstBatch(run.todo)
           owner == [r \in {x.reading : x \in first} |-> MonitorFor(sw, r)]
<1>1. run \in Command /\ run.pc = "restore" /\ run.entry.sweeps # <<>>
  BY DEF RestoreBatch, TypeInv
<1>2. /\ sw \in Sweep /\ run.todo \subseteq sw.moved /\ first \subseteq run.todo
      /\ sw = run.entry.sweeps[Len(run.entry.sweeps)]
      /\ Len(run.entry.sweeps) \in DOMAIN run.entry.sweeps
  BY SMTT(30), <1>1, LastMovedType DEF TypeInv, WhereInv, Command, Entry, FirstBatch
<1>3. \A x \in sw.moved : InPlace(x, source)
  BY <1>2 DEF Agree, CommandOK, EntryOK, SweepOK
<1>4. ASSUME NEW x \in first PROVE TokenOf[MonitorFor(sw, x.reading)] = source[x.reading]
  BY <1>2, <1>3, MonitorForMoved DEF InPlace
<1>5. \A r \in DOMAIN owner : TokenOf[owner[r]] = source[r]
  BY <1>4
<1>6. /\ RestoreSamples(owner, sw.server) /\ run' = [run EXCEPT !.todo = @ \ first]
      /\ UNCHANGED <<servers, token, source, journal, push>>
  BY DEF RestoreBatch, Keep, world
<1> HIDE DEF owner, sw, first
<1>7. TablesOK(box, source)'
  BY <1>5, <1>6, RestoreSamplesAgrees
<1>8. CommandOK(run', box, source)
  BY <1>1, <1>6 DEF Agree, CommandOK, Command
<1>9. QED
  BY <1>6, <1>7, <1>8 DEF Agree

\* The rows without metrics come back where they were.
LEMMA RestoreBareAgrees ==
  ASSUME TypeInv, NEW box, Agree(box), RestoreBare
  PROVE  Agree(box)' /\ \A x \in Last(run.entry.sweeps).bare : Taken(x)
<1> DEFINE bare == Last(run.entry.sweeps).bare
           rest == Front(run.entry.sweeps)
<1>1. /\ run \in Command /\ run.pc = "restore" /\ run.entry.sweeps # <<>>
      /\ run.entry.sweeps \in Seq(Sweep)
  BY DEF RestoreBare, TypeInv, Command, Entry
<1>2. /\ Last(run.entry.sweeps) = run.entry.sweeps[Len(run.entry.sweeps)]
      /\ Len(run.entry.sweeps) \in DOMAIN run.entry.sweeps
      /\ DOMAIN rest = 1 .. Len(run.entry.sweeps) - 1
      /\ \A i \in DOMAIN rest : rest[i] = run.entry.sweeps[i]
  BY <1>1, LastMovedType
<1>3. \A x \in bare : InPlace(x, source)
  BY <1>2 DEF Agree, CommandOK, EntryOK, SweepOK
<1>4. \A i \in DOMAIN rest : i \in DOMAIN run.entry.sweeps
  BY <1>1, <1>2
<1>5. /\ \/ run' = Idle /\ UNCHANGED rows
         \/ /\ rows' = rows \cup bare
            /\ run' = [run EXCEPT !.entry.sweeps = rest, !.todo = LastMoved(rest)]
      /\ UNCHANGED <<samples, servers, token, source, journal, push>>
  BY DEF RestoreBare, Keep, world
<1>6. \A x \in bare : Taken(x)
  BY <1>3 DEF InPlace, Taken
<1>7. CommandOK(run', box, source)
  <2>1. CASE run' = Idle
    BY <2>1, IdleAgrees
  <2>2. CASE run' = [run EXCEPT !.entry.sweeps = rest, !.todo = LastMoved(rest)]
    <3> HIDE DEF rest
    <3>1. /\ run'.entry = [run.entry EXCEPT !.sweeps = rest]
          /\ run'.sweep = run.sweep /\ run'.made = run.made /\ run'.kept = run.kept
          /\ run'.live = run.live /\ run'.orphans = run.orphans
      BY <1>1, <2>2 DEF Command
    <3>2. /\ run'.entry.created = run.entry.created /\ run'.entry.sweeps = rest
          /\ run'.entry.dropped = run.entry.dropped
      BY <1>1, <3>1 DEF Command, Entry
    <3>3. QED
      BY <1>2, <1>4, <3>1, <3>2 DEF Agree, CommandOK, EntryOK
  <2>3. QED
    BY <1>5, <2>1, <2>2
<1> HIDE DEF bare
<1>8. TablesOK(box, source)'
  BY <1>3, <1>5 DEF Agree, TablesOK
<1>9. Agree(box)'
  BY <1>5, <1>7, <1>8 DEF Agree
<1>10. QED
  BY <1>6, <1>9 DEF bare

\* What agents pushed meanwhile is on the server under its token, and so are the
\* monitors the entry names for it.
LEMMA RestoreRestAgrees ==
  ASSUME TypeInv, NEW box, Agree(box), RestoreRest
  PROVE  Agree(box)'
<1> DEFINE first == FirstBatch(OnServer(Created.id))
           owner == [r \in {x.reading : x \in first} |-> Lowest(Created.monitors)]
<1>1. run \in Command /\ run.pc = "rest" /\ run.entry.created # {}
  BY DEF RestoreRest, TypeInv
<1>2. Created \in run.entry.created /\ Known(Created, box)
  BY <1>1, CreatedIs DEF Agree, CommandOK, EntryOK
<1>3. Created.monitors \in SUBSET Monitors /\ Created.monitors # {}
  BY <1>1, <1>2 DEF Command, Entry, TypeInv, WhereInv, Held
<1>4. Lowest(Created.monitors) \in Created.monitors
  BY <1>3, LeastExists, BackfillAssumption DEF Lowest
<1>5. TokenOf[Lowest(Created.monitors)] = Created.token
  BY <1>2, <1>4 DEF Known
<1>6. \A x \in samples : x.server = Created.id => source[x.reading] = Created.token
  BY <1>2 DEF Known, Serves, Agree, TablesOK
<1>7. /\ \/ RestoreSamples(owner, Created.id) /\ UNCHANGED run
         \/ run' = [run EXCEPT !.pc = "close"] /\ UNCHANGED <<rows, samples>>
      /\ UNCHANGED <<servers, token, source, journal, push>>
  BY DEF RestoreRest, Keep, world, Goto
<1>8. \A r \in DOMAIN owner : owner[r] = Lowest(Created.monitors)
  OBVIOUS
<1> HIDE DEF owner
<1>9. TablesOK(box, source)'
  <2>1. CASE RestoreSamples(owner, Created.id)
    <3>1. \A x \in samples : x.server = Created.id /\ x.reading \in DOMAIN owner =>
            TokenOf[owner[x.reading]] = source[x.reading]
      BY <1>5, <1>6, <1>8
    <3>2. QED
      BY <1>7, <2>1, <3>1, RestoreSamplesAgrees
  <2>2. CASE UNCHANGED <<rows, samples>>
    BY <1>7, <2>2 DEF Agree, TablesOK
  <2>3. QED
    BY <1>7, <2>1, <2>2
<1>10. CommandOK(run', box, source)
  BY <1>1, <1>7 DEF Agree, CommandOK, Command
<1>11. QED
  BY <1>7, <1>9, <1>10 DEF Agree

\* The map keeps the id of the deleted server, which samples left behind and a
\* push in flight still name.
LEMMA DeleteServerAgrees ==
  ASSUME TypeInv, NEW box, Agree(box), CloseServerIncidents \/ DeleteServer
  PROVE  Agree(box)'
<1>1. /\ run \in Command /\ servers' \subseteq servers
      /\ UNCHANGED <<rows, samples, token, source, journal, push>>
  BY DEF CloseServerIncidents, DeleteServer, Keep, world, TypeInv
<1>2. /\ \E S \in SUBSET run.entry.created : run'.entry = [run.entry EXCEPT !.created = S]
      /\ run'.sweep = run.sweep /\ run'.made = run.made /\ run'.kept = run.kept
      /\ run'.live = run.live /\ run'.orphans = run.orphans
  <2>1. CASE CloseServerIncidents
    <3>1. run'.entry = run.entry
      BY <1>1, <2>1 DEF CloseServerIncidents, Goto, Command
    <3>2. run'.entry = [run.entry EXCEPT !.created = run.entry.created]
      BY <1>1, <3>1 DEF Command, Entry
    <3>3. QED
      BY <1>1, <2>1, <3>2 DEF CloseServerIncidents, Goto, Command
  <2>2. CASE DeleteServer
    BY <1>1, <2>2 DEF DeleteServer, Command
  <2>3. QED
    BY <2>1, <2>2
<1>3. /\ run'.entry.created \subseteq run.entry.created
      /\ run'.entry.sweeps = run.entry.sweeps /\ run'.entry.dropped = run.entry.dropped
  BY <1>1, <1>2 DEF Command, Entry
<1>4. CommandOK(run', box, source)
  BY <1>2, <1>3 DEF Agree, CommandOK, EntryOK
<1>5. QED
  BY <1>1, <1>4 DEF Agree, TablesOK

\* A monitor gets back the token it had.
LEMMA RestoreTokenAgrees ==
  ASSUME TypeInv, NEW box, Agree(box), RestoreToken
  PROVE  Agree(box)'
<1>1. PICK d \in run.entry.dropped :
        /\ token' = [token EXCEPT ![d.monitor] = d.token]
        /\ run' = [run EXCEPT !.entry.dropped = @ \ {d}]
  BY DroppedIs
<1>2. /\ run \in Command /\ token \in [Monitors -> Tokens \cup {NoToken}]
      /\ UNCHANGED <<rows, samples, servers, source, journal, push>>
  BY DEF RestoreToken, Keep, world, TypeInv, TypeOK
<1>3. TokenOf[d.monitor] = d.token
  BY DEF Agree, CommandOK, EntryOK
<1>4. \A m \in Monitors : token'[m] \in {TokenOf[m], NoToken}
  BY <1>1, <1>2, <1>3 DEF Agree, TablesOK
<1>5. /\ run'.entry = [run.entry EXCEPT !.dropped = @ \ {d}]
      /\ run'.sweep = run.sweep /\ run'.made = run.made /\ run'.kept = run.kept
      /\ run'.live = run.live /\ run'.orphans = run.orphans
  BY <1>1, <1>2 DEF Command
<1>6. /\ run'.entry.created = run.entry.created /\ run'.entry.sweeps = run.entry.sweeps
      /\ run'.entry.dropped \subseteq run.entry.dropped
  BY <1>2, <1>5 DEF Command, Entry
<1>7. CommandOK(run', box, source)
  BY <1>5, <1>6 DEF Agree, CommandOK, EntryOK
<1>8. QED
  BY <1>2, <1>4, <1>7 DEF Agree, TablesOK

\* The end of a rollback, or of its process, names no server and no token.
LEMMA RollbackPhaseAgrees ==
  ASSUME TypeInv, NEW box, Agree(box), NextRollbackPhase \/ MarkRolledBack \/ Die
  PROVE  Agree(box)'
<1>1. /\ run \in Command
      /\ UNCHANGED <<rows, samples, servers, token, source, push>>
  BY DEF NextRollbackPhase, MarkRolledBack, Die, db, Keep, world, TypeInv
<1>2. run' = Idle \/ run' = [run EXCEPT !.pc = "rest"] \/ run' = [run EXCEPT !.pc = "reopen"]
  BY DEF NextRollbackPhase, MarkRolledBack, Die, Goto
<1>3. CommandOK(run', box, source)
  <2>1. CASE run' = Idle
    BY <2>1, IdleAgrees
  <2>2. CASE run' = [run EXCEPT !.pc = "rest"] \/ run' = [run EXCEPT !.pc = "reopen"]
    BY <1>1, <2>2 DEF Agree, CommandOK, Command
  <2>3. QED
    BY <1>2, <2>1, <2>2
<1>4. \A i \in DOMAIN journal' : EntryOK(journal'[i], box, source)
  <2>1. CASE UNCHANGED journal
    BY <2>1 DEF Agree
  <2>2. CASE MarkRolledBack
    <3>1. /\ journal' = [journal EXCEPT ![run.index].rolledBack = TRUE]
          /\ journal \in Seq(Entry)
      BY <2>2 DEF MarkRolledBack, TypeInv, TypeOK
    <3>2. DOMAIN journal' = DOMAIN journal
      BY <3>1
    <3>3. ASSUME NEW i \in DOMAIN journal
          PROVE  /\ journal'[i].created = journal[i].created
                 /\ journal'[i].sweeps = journal[i].sweeps
                 /\ journal'[i].dropped = journal[i].dropped
      <4>1. journal[i] \in Entry
        BY <3>1
      <4>2. journal'[i] = journal[i] \/ journal'[i] = [journal[i] EXCEPT !.rolledBack = TRUE]
        BY <3>1
      <4>3. QED
        BY <4>1, <4>2 DEF Entry
    <3>4. QED
      BY <3>2, <3>3 DEF Agree, EntryOK
  <2>3. QED
    BY <2>1, <2>2 DEF NextRollbackPhase, Die
<1>5. QED
  BY <1>1, <1>3, <1>4 DEF Agree, TablesOK

\* A push goes where its token is: to the server that has it, or to a monitor
\* that has it.
LEMMA StartPushAgrees ==
  ASSUME TypeInv, NEW box, Agree(box), NEW t \in Tokens, StartPush(t)
  PROVE  Agree(box)'
<1>1. /\ source' = Append(source, t) /\ source \in Seq(Tokens)
      /\ UNCHANGED <<rows, samples, servers, token, journal, run>>
  BY StartPushIs DEF db, TypeInv, TypeOK
<1> DEFINE r == Len(source) + 1
<1>2. /\ DOMAIN source \subseteq DOMAIN source' /\ \A i \in DOMAIN source : source'[i] = source[i]
      /\ r \in DOMAIN source' /\ source'[r] = t
  BY <1>1
<1>3. /\ \A x : InPlace(x, source) => InPlace(x, source')
      /\ \A e : EntryOK(e, box, source) => EntryOK(e, box, source')
      /\ \A st : CommandOK(st, box, source) => CommandOK(st, box, source')
  BY <1>2, Carries
<1>4. RequestOK(push', box, source')
  <2>1. CASE \E s \in servers : s.token = t /\ push' = [pc |-> "server", reading |-> r,
                                                       server |-> s.id, monitor |-> 0]
    <3>1. PICK s \in servers : s.token = t /\ push' = [pc |-> "server", reading |-> r,
                                                       server |-> s.id, monitor |-> 0]
      BY <2>1
    <3>2. Serves(s.id, t, box)
      BY <3>1 DEF Agree, TablesOK
    <3> HIDE DEF r
    <3>3. QED
      BY <1>2, <3>1, <3>2 DEF RequestOK
  <2>2. CASE \E m \in Monitors : token[m] = t /\ push' = [pc |-> "legacy", reading |-> r,
                                                         server |-> 0, monitor |-> m]
    <3>1. PICK m \in Monitors : token[m] = t /\ push' = [pc |-> "legacy", reading |-> r,
                                                         server |-> 0, monitor |-> m]
      BY <2>2
    <3>2. TokenOf[m] = t
      BY <3>1, BackfillAssumption DEF Agree, TablesOK
    <3> HIDE DEF r
    <3>3. QED
      BY <1>2, <3>1, <3>2 DEF RequestOK, InPlace
  <2>3. QED
    BY <2>1, <2>2, StartPushIs
<1>5. TablesOK(box, source)'
  <2>1. \A x \in samples : x.reading \in DOMAIN source' /\ Serves(x.server, source'[x.reading], box)
    BY <1>2 DEF Agree, TablesOK
  <2>2. QED
    BY <1>1, <1>3, <2>1 DEF Agree, TablesOK
<1>6. QED
  BY <1>1, <1>3, <1>4, <1>5 DEF Agree

\* It lands there under its own token.
LEMMA LandAgrees ==
  ASSUME TypeInv, NEW box, Agree(box), Lands
  PROVE  Agree(box)'
<1>1. /\ UNCHANGED <<servers, token, source, journal, run>>
      /\ push'.pc \in {"incident", "edge"}
  BY DEF Lands, LandOnMonitor, LandOnServer, NoPush
<1>2. RequestOK(push', box, source)
  BY <1>1 DEF RequestOK
<1>3. TablesOK(box, source)'
  <2>1. CASE LandOnMonitor
    <3> DEFINE x == [reading |-> push.reading, monitor |-> push.monitor]
    <3>1. rows' = rows \cup {x} /\ UNCHANGED samples /\ InPlace(push, source)
      BY <2>1 DEF LandOnMonitor, Agree, RequestOK
    <3>2. InPlace(x, source)
      BY <3>1 DEF InPlace
    <3> HIDE DEF x
    <3>3. QED
      BY <1>1, <3>1, <3>2 DEF Agree, TablesOK
  <2>2. CASE LandOnServer
    <3> DEFINE x == [reading |-> push.reading, server |-> push.server]
    <3>1. /\ samples' = samples \cup {x} /\ UNCHANGED rows
          /\ push.reading \in DOMAIN source /\ push.pc = "server"
          /\ Serves(push.server, source[push.reading], box)
      BY <2>2 DEF LandOnServer, Agree, RequestOK, TypeInv, WhereInv, Taken, Carrying
    <3>2. x.reading \in DOMAIN source /\ Serves(x.server, source[x.reading], box)
      BY <3>1
    <3> HIDE DEF x
    <3>3. QED
      BY <1>1, <3>1, <3>2 DEF Agree, TablesOK
  <2>3. QED
    BY <2>1, <2>2 DEF Lands
<1>4. QED
  BY <1>1, <1>2, <1>3 DEF Agree

\* The incidents of a push name no box.
LEMMA ReconcileAgrees ==
  ASSUME TypeInv, NEW box, Agree(box), Reconciles
  PROVE  Agree(box)'
<1>1. /\ UNCHANGED <<rows, samples, servers, token, source, journal, run>>
      /\ push' = NoPush
  BY ReconcileIs
<1>2. RequestOK(push', box, source)
  BY <1>1 DEF RequestOK, NoPush
<1>3. QED
  BY <1>1, <1>2 DEF Agree, TablesOK

\* Detaching a monitor, and a step that changes nothing, touch no name.
LEMMA OthersAgree ==
  ASSUME NEW box, Agree(box), UNCHANGED vars \/ \E m \in Monitors : Detach(m)
  PROVE  Agree(box)'
<1>1. UNCHANGED <<rows, samples, servers, token, source, journal, run, push>>
  BY DEF vars, db, world, Detach
<1>2. QED
  BY <1>1 DEF Agree, TablesOK

\* At first there are the rows the monitors had, and no server.
LEMMA InitAgrees == Init => BoxInv
<1> SUFFICES ASSUME Init PROVE BoxInv
  OBVIOUS
<1> DEFINE box == [id \in 1 .. nextServer - 1 |-> NoToken]
<1>1. nextServer - 1 = 0
  BY DEF Init
<1>2. box \in [1 .. nextServer - 1 -> Tokens]
  BY <1>1
<1>3. \A x \in rows : InPlace(x, source)
  BY DEF Init, InPlace
<1>4. TablesOK(box, source)
  BY <1>3, BackfillAssumption DEF Init, TablesOK
<1>5. CommandOK(run, box, source)
  BY IdleAgrees DEF Init
<1>6. RequestOK(push, box, source) /\ DOMAIN journal = {}
  BY DEF Init, RequestOK, NoPush
<1>7. Agree(box)
  BY <1>4, <1>5, <1>6 DEF Agree
<1>8. QED
  BY <1>2, <1>7 DEF BoxInv

\* The invariant: types, and one box to a server for ever.
BackInv == TypeInv /\ BoxInv

\* Every step of either command, of an agent and of an operator keeps types and
\* names.
LEMMA BackStep == BackInv /\ [Next]_vars => BackInv'
<1> SUFFICES ASSUME TypeInv, BoxInv, [Next]_vars
             PROVE  TypeInv' /\ BoxInv'
  BY DEF BackInv
<1>1. PICK box \in [1 .. nextServer - 1 -> Tokens] : Agree(box)
  BY DEF BoxInv
<1>2. CASE CreateServer
  BY <1>2, CreateServerType, CreateServerAgrees
<1>3. CASE ~CreateServer
  <2>1. nextServer' = nextServer
    BY <1>3 DEF Next, Backfilling, RollingBack, Flush, StartBackfill, UseServer,
                DropOrphan, ResolveIncident, NoteIncident, StartSweep, SweepBatch,
                EndSweep, NextPhase, Abort, StartRollback, RestoreBatch, RestoreBare,
                RestoreRest, CloseServerIncidents, DeleteServer, RestoreToken,
                ReopenIncident, NextRollbackPhase, MarkRolledBack, Die, StartPush,
                LandOnServer, ReconcileServer, LandOnMonitor, ReconcileMonitor,
                Detach, vars, db
  <2>2. TypeInv' /\ Agree(box)'
    <3>1. CASE Flush
      BY <1>1, <3>1, FlushType, FlushAgrees
    <3>2. CASE StartBackfill
      BY <1>1, <3>2, StartBackfillType, StartBackfillAgrees
    <3>3. CASE UseServer
      BY <1>1, <3>3, UseServerType, UseServerAgrees
    <3>4. CASE DropOrphan
      BY <1>1, <3>4, DropOrphanType, DropOrphanAgrees
    <3>5. CASE ResolveIncident \/ NoteIncident
      BY <1>1, <3>5, ResolveIncidentType, NoteIncidentType, ResolveIncidentAgrees
    <3>6. CASE StartSweep
      BY <1>1, <3>6, StartSweepType, StartSweepAgrees
    <3>7. CASE SweepBatch
      BY <1>1, <3>7, SweepBatchType, SweepBatchAgrees
    <3>8. CASE EndSweep
      BY <1>1, <3>8, EndSweepType, EndSweepAgrees
    <3>9. CASE NextPhase
      BY <1>1, <3>9, NextPhaseType, NextPhaseAgrees
    <3>10. CASE Abort
      BY <1>1, <3>10, AbortType, FlushAgrees
    <3>11. CASE StartRollback
      BY <1>1, <3>11, StartRollbackType, StartRollbackAgrees
    <3>12. CASE RestoreBatch
      BY <1>1, <3>12, RestoreBatchType, RestoreBatchAgrees
    <3>13. CASE RestoreBare
      BY <1>1, <3>13, RestoreBareType, RestoreBareAgrees
    <3>14. CASE RestoreRest
      BY <1>1, <3>14, RestoreRestType, RestoreRestAgrees
    <3>15. CASE CloseServerIncidents
      BY <1>1, <3>15, CloseServerIncidentsType, DeleteServerAgrees
    <3>16. CASE DeleteServer
      BY <1>1, <3>16, DeleteServerType, DeleteServerAgrees
    <3>17. CASE RestoreToken
      BY <1>1, <3>17, RestoreTokenType, RestoreTokenAgrees
    <3>18. CASE ReopenIncident
      BY <1>1, <3>18, ReopenIncidentType, ResolveIncidentAgrees
    <3>19. CASE NextRollbackPhase \/ MarkRolledBack
      BY <1>1, <3>19, RollbackPhaseType, RollbackPhaseAgrees
    <3>20. CASE Die
      BY <1>1, <3>20, DieType, RollbackPhaseAgrees
    <3>21. CASE \E t \in Tokens : StartPush(t)
      BY <1>1, <3>21, StartPushType, StartPushAgrees
    <3>22. CASE Lands \/ Reconciles
      BY <1>1, <3>22, LandType, LandAgrees, ReconcileType, ReconcileAgrees
    <3>23. CASE \E m \in Monitors : Detach(m)
      BY <1>1, <3>23, DetachType, OthersAgree
    <3>24. CASE UNCHANGED vars
      BY <1>1, <3>24, StutterType, OthersAgree
    <3>25. QED
      BY <1>3, <3>1, <3>2, <3>3, <3>4, <3>5, <3>6, <3>7, <3>8, <3>9, <3>10, <3>11,
         <3>12, <3>13, <3>14, <3>15, <3>16, <3>17, <3>18, <3>19, <3>20, <3>21,
         <3>22, <3>23, <3>24 DEF Next, Backfilling, RollingBack, Lands, Reconciles
  <2>3. QED
    BY <1>1, <2>1, <2>2 DEF BoxInv
<1>4. QED
  BY <1>2, <1>3

\* Types hold and names agree throughout.
LEMMA BackAlways == Spec => []BackInv
<1>1. Init => BackInv
  BY InitType, InitAgrees DEF BackInv
<1>2. QED
  BY <1>1, BackStep, PTL DEF Spec

\* The variables keep their types, whatever runs twice, aborts or dies.
THEOREM TypeCorrect == Spec => []TypeOK
<1>1. BackInv => TypeOK
  BY DEF BackInv, TypeInv
<1>2. QED
  BY <1>1, BackAlways, PTL

\* A reading stays with the monitors and servers of the token it came with
\* (sweepSamples and restoreSamplesBatch, src/app/Commands/BackfillServers.ts),
\* through any number of runs, rollbacks, deaths and pushes in between.
THEOREM BoxesStayApart == Spec => []BoxesNeverMix
<1>1. BackInv => BoxesNeverMix
  BY DEF BackInv, BoxInv, Agree, TablesOK, InPlace, Serves, BoxesNeverMix
<1>2. QED
  BY <1>1, BackAlways, PTL

(***************************************************************************)
(* A reading is kept once.  The samples of a batch go in with the rows that *)
(* go out, and a sample goes out with the row that comes back; so what has  *)
(* to be known is that two rows, two samples, or a row and a sample never   *)
(* hold the same reading, and that one does as soon as the push has landed. *)
(***************************************************************************)
OnceInv ==
  /\ Len(OwnerOf) <= Len(source)
  /\ IF Carrying THEN push.reading > Len(OwnerOf) ELSE push.reading = 0
  /\ \A x \in rows : x.reading # push.reading
  /\ \A x \in samples : x.reading # push.reading
  /\ \A x, y \in rows : x.reading = y.reading /\ x.reading \notin Bare => x = y
  /\ \A x, y \in samples : x.reading = y.reading /\ x.reading \notin Bare => x = y
  /\ \A x \in rows, y \in samples : x.reading = y.reading => x.reading \in Bare
  /\ \A r \in DOMAIN source \ Bare :
       r # push.reading => (\E x \in rows : x.reading = r) \/ (\E x \in samples : x.reading = r)

\* Nothing moves where rows, samples and pushes stay.
LEMMA OnceStays ==
  ASSUME OnceInv, UNCHANGED <<rows, samples, source, push>>
  PROVE  OnceInv'
BY DEF OnceInv, Carrying

\* The rows of a batch become its samples, the bare ones excepted.
LEMMA SweepBatchOnce ==
  ASSUME TypeInv, OnceInv, SweepBatch
  PROVE  OnceInv'
<1> DEFINE batch == BatchRows(run.sweep, run.from)
           moved == {x \in batch : Convertible(x)}
           new == {AsSample(x, run.sweep.server) : x \in moved}
<1>1. /\ batch \subseteq rows /\ moved \subseteq batch
      /\ \A x \in batch : x \in moved <=> x.reading \notin Bare
  BY DEF BatchRows, Convertible
<1>2. /\ rows' = rows \ batch /\ samples' = samples \cup new
      /\ UNCHANGED <<source, push>>
  BY DEF SweepBatch, Keep, world
<1> HIDE DEF batch, moved
<1>3. /\ \A x \in moved : \E y \in new : y.reading = x.reading
      /\ \A y \in new : \E x \in moved : y = AsSample(x, run.sweep.server) /\ y.reading = x.reading
  <2>1. \A x \in moved : AsSample(x, run.sweep.server) \in new
    OBVIOUS
  <2>2. \A x \in moved : AsSample(x, run.sweep.server).reading = x.reading
    BY DEF AsSample
  <2>3. \A y \in new : \E x \in moved : y = AsSample(x, run.sweep.server)
    OBVIOUS
  <2> HIDE DEF new
  <2>4. QED
    BY <2>1, <2>2, <2>3
<1> HIDE DEF new
<1>4. \A x, y \in new : x.reading = y.reading => x = y
  BY <1>1, <1>3 DEF OnceInv
<1>5. \A x \in new, y \in samples : x.reading # y.reading
  BY <1>1, <1>3 DEF OnceInv
<1>6. \A x \in new, y \in rows' : x.reading # y.reading
  <2> SUFFICES ASSUME NEW x \in new, NEW y \in rows \ batch, x.reading = y.reading PROVE FALSE
    BY <1>2
  <2>1. PICK z \in moved : x.reading = z.reading
    BY <1>3
  <2>2. z \in rows /\ z \in batch /\ z.reading \notin Bare
    BY <1>1
  <2>3. z = y
    BY <2>1, <2>2 DEF OnceInv
  <2>4. QED
    BY <2>2, <2>3
<1>7. \A x \in new : x.reading # push.reading
  BY <1>1, <1>3 DEF OnceInv
<1>8. ASSUME NEW r \in DOMAIN source \ Bare, r # push.reading
      PROVE  (\E x \in rows' : x.reading = r) \/ (\E x \in samples' : x.reading = r)
  <2>1. CASE \E x \in samples : x.reading = r
    BY <1>2, <2>1
  <2>2. CASE \E x \in rows : x.reading = r
    <3>1. PICK x \in rows : x.reading = r
      BY <2>2
    <3>2. CASE x \in batch
      BY <1>1, <1>2, <1>3, <3>1, <3>2
    <3>3. CASE x \notin batch
      BY <1>2, <3>1, <3>3
    <3>4. QED
      BY <3>2, <3>3
  <2>3. QED
    BY <1>8, <2>1, <2>2 DEF OnceInv
<1>9. \A x, y \in samples' : x.reading = y.reading /\ x.reading \notin Bare => x = y
  BY <1>2, <1>4, <1>5 DEF OnceInv
<1>10. \A x \in rows', y \in samples' : x.reading = y.reading => x.reading \in Bare
  BY <1>2, <1>6 DEF OnceInv
<1>11. QED
  BY <1>2, <1>7, <1>8, <1>9, <1>10 DEF OnceInv, Carrying

\* The samples that go back become rows, one each.
LEMMA RestoreSamplesOnce ==
  ASSUME TypeInv, OnceInv, NEW owner, NEW server,
         RestoreSamples(owner, server), UNCHANGED <<source, push>>
  PROVE  OnceInv'
<1> DEFINE back == {x \in samples : x.server = server /\ x.reading \in DOMAIN owner}
           new == {AsRow(x, owner[x.reading]) : x \in back}
<1>1. rows' = rows \cup new /\ samples' = samples \ back
  BY DEF RestoreSamples, SamplesWithout
<1>2. back \subseteq samples
  OBVIOUS
<1> HIDE DEF back
<1>3. /\ \A x \in back : \E y \in new : y.reading = x.reading
      /\ \A y \in new : \E x \in back : y = AsRow(x, owner[x.reading]) /\ y.reading = x.reading
  <2>1. \A x \in back : AsRow(x, owner[x.reading]) \in new
    OBVIOUS
  <2>2. \A x \in back : AsRow(x, owner[x.reading]).reading = x.reading
    BY DEF AsRow
  <2>3. \A y \in new : \E x \in back : y = AsRow(x, owner[x.reading])
    OBVIOUS
  <2> HIDE DEF new
  <2>4. QED
    BY <2>1, <2>2, <2>3
<1> HIDE DEF new
<1>4. \A x, y \in new : x.reading = y.reading /\ x.reading \notin Bare => x = y
  <2> SUFFICES ASSUME NEW x \in new, NEW y \in new, x.reading = y.reading,
                      x.reading \notin Bare
               PROVE  x = y
    OBVIOUS
  <2>1. PICK v \in back : x = AsRow(v, owner[v.reading]) /\ x.reading = v.reading
    BY <1>2, <1>3
  <2>2. PICK w \in back : y = AsRow(w, owner[w.reading]) /\ y.reading = w.reading
    BY <1>2, <1>3
  <2>3. v = w
    BY <1>2, <1>3, <2>1, <2>2 DEF OnceInv
  <2>4. QED
    BY <2>1, <2>2, <2>3
<1>5. \A x \in new, y \in rows : x.reading = y.reading => x.reading \in Bare
  BY <1>2, <1>3 DEF OnceInv
<1>6. \A x \in new, y \in samples' : x.reading = y.reading => x.reading \in Bare
  <2> SUFFICES ASSUME NEW x \in new, NEW y \in samples \ back, x.reading = y.reading,
                      x.reading \notin Bare
               PROVE  FALSE
    BY <1>1
  <2>1. PICK z \in back : x.reading = z.reading
    BY <1>2, <1>3
  <2>2. z \in samples /\ y \in samples /\ z.reading = y.reading /\ z.reading \notin Bare
    BY <1>2, <2>1
  <2>3. z = y
    BY <2>2 DEF OnceInv
  <2>4. QED
    BY <2>3
<1>7. \A x \in new : x.reading # push.reading
  BY <1>2, <1>3 DEF OnceInv
<1>8. ASSUME NEW r \in DOMAIN source \ Bare, r # push.reading
      PROVE  (\E x \in rows' : x.reading = r) \/ (\E x \in samples' : x.reading = r)
  <2>1. CASE \E x \in rows : x.reading = r
    BY <1>1, <2>1
  <2>2. CASE \E x \in samples : x.reading = r
    BY <1>1, <1>2, <1>3, <2>2
  <2>3. QED
    BY <1>8, <2>1, <2>2 DEF OnceInv
<1>9. \A x, y \in rows' : x.reading = y.reading /\ x.reading \notin Bare => x = y
  BY <1>1, <1>4, <1>5 DEF OnceInv
<1>10. \A x \in rows', y \in samples' : x.reading = y.reading => x.reading \in Bare
  BY <1>1, <1>6 DEF OnceInv
<1>11. QED
  BY <1>1, <1>7, <1>8, <1>9, <1>10 DEF OnceInv, Carrying

\* The rows without metrics that come back hold readings of before the first
\* run, none of which is in flight.
LEMMA RestoreBareOnce ==
  ASSUME TypeInv, OnceInv, RestoreBare,
         \A x \in Last(run.entry.sweeps).bare : x.reading \in Bare
  PROVE  OnceInv'
<1> DEFINE bare == Last(run.entry.sweeps).bare
<1>1. /\ rows' = rows \/ rows' = rows \cup bare
      /\ UNCHANGED <<samples, source, push>>
  BY DEF RestoreBare, Keep, world
<1>2. OwnerOf \in Seq(Monitors) /\ Bare \subseteq DOMAIN OwnerOf
  BY BackfillAssumption
<1>3. \A r \in Bare : r \in 1 .. Len(OwnerOf)
  BY <1>2
<1>4. \A r \in Bare : r # push.reading
  BY <1>2, <1>3 DEF OnceInv, TypeInv, Request
<1> HIDE DEF bare
<1>5. \A x \in bare : x.reading \in Bare
  BY DEF bare
<1>6. QED
  BY <1>1, <1>4, <1>5 DEF OnceInv, Carrying

\* A push takes a number no reading has had, and keeps it until it lands.
LEMMA StartPushOnce ==
  ASSUME TypeInv, OnceInv, NEW t \in Tokens, StartPush(t)
  PROVE  OnceInv'
<1>1. /\ source' = Append(source, t) /\ source \in Seq(Tokens)
      /\ UNCHANGED <<rows, samples>> /\ push.pc = "idle"
      /\ push'.reading = Len(source) + 1 /\ Carrying' /\ ~Carrying
  BY StartPushIs DEF db, TypeInv, TypeOK, Carrying
<1>2. OwnerOf \in Seq(Monitors)
  BY BackfillAssumption
<1>3. /\ Len(OwnerOf) <= Len(source') /\ push'.reading > Len(OwnerOf)
      /\ DOMAIN source' = DOMAIN source \cup {push'.reading}
      /\ push'.reading \notin DOMAIN source
      /\ 0 \notin DOMAIN source
  BY <1>1, <1>2 DEF OnceInv
<1>4. /\ \A x \in rows : x.reading # push'.reading
      /\ \A x \in samples : x.reading # push'.reading
  BY <1>3 DEF TypeInv, WhereInv, Taken, Carrying
<1>5. \A r \in DOMAIN source' \ Bare :
        r # push'.reading => (\E x \in rows : x.reading = r) \/ (\E x \in samples : x.reading = r)
  BY <1>1, <1>3 DEF OnceInv, TypeInv, TypeOK
<1>6. QED
  BY <1>1, <1>3, <1>4, <1>5 DEF OnceInv

\* A reading that lands is one that was nowhere yet, the one in flight.
LEMMA LandOnce ==
  ASSUME TypeInv, OnceInv, Lands
  PROVE  OnceInv'
<1>1. /\ UNCHANGED source /\ push'.pc \in {"incident", "edge"} /\ push'.reading = 0
      /\ Carrying /\ push.reading \in DOMAIN source /\ push.reading > Len(OwnerOf)
  BY DEF Lands, LandOnMonitor, LandOnServer, NoPush, OnceInv, TypeInv, WhereInv, Taken, Carrying
<1>2. \/ \E x : x.reading = push.reading /\ rows' = rows \cup {x} /\ samples' = samples
      \/ \E x : x.reading = push.reading /\ samples' = samples \cup {x} /\ rows' = rows
  <2>1. CASE LandOnMonitor
    <3> DEFINE x == [reading |-> push.reading, monitor |-> push.monitor]
    <3>1. x.reading = push.reading /\ rows' = rows \cup {x} /\ samples' = samples
      BY <2>1 DEF LandOnMonitor
    <3>2. QED
      BY <3>1
  <2>2. CASE LandOnServer
    <3> DEFINE x == [reading |-> push.reading, server |-> push.server]
    <3>1. x.reading = push.reading /\ samples' = samples \cup {x} /\ rows' = rows
      BY <2>2 DEF LandOnServer
    <3>2. QED
      BY <3>1
  <2>3. QED
    BY <2>1, <2>2 DEF Lands
<1>3. 0 \notin DOMAIN source
  BY DEF TypeInv, TypeOK
<1>4. /\ \A x \in rows' : x.reading # 0
      /\ \A x \in samples' : x.reading # 0
  BY <1>1, <1>2, <1>3 DEF TypeInv, WhereInv, Taken, Carrying
<1>5. QED
  BY <1>1, <1>2, <1>4 DEF OnceInv, Carrying

\* The incidents of a push have no reading left to place.
LEMMA ReconcileOnce ==
  ASSUME TypeInv, OnceInv, Reconciles
  PROVE  OnceInv'
<1>1. /\ UNCHANGED <<rows, samples, source>> /\ push' = NoPush /\ ~Carrying
  BY ReconcileIs DEF Carrying
<1>2. push'.reading = push.reading /\ ~Carrying'
  BY <1>1 DEF OnceInv, NoPush, Carrying
<1>3. QED
  BY <1>1, <1>2 DEF OnceInv

\* Before the first run there are rows only, one per reading.
LEMMA InitOnce == Init => OnceInv
<1> SUFFICES ASSUME Init PROVE OnceInv
  OBVIOUS
<1>1. OwnerOf \in Seq(Monitors)
  BY BackfillAssumption
<1>2. source \in Seq(Tokens) /\ DOMAIN source = 1 .. Len(OwnerOf)
  BY <1>1, InitType DEF TypeInv, TypeOK, Init
<1>3. Len(source) = Len(OwnerOf) /\ 0 \notin DOMAIN source
  BY <1>1, <1>2
<1>4. /\ rows = {[reading |-> r, monitor |-> OwnerOf[r]] : r \in 1 .. Len(OwnerOf)}
      /\ samples = {} /\ ~Carrying /\ push.reading = 0
  BY <1>1 DEF Init, NoPush, Carrying
<1>5. /\ \A x \in rows : x.reading # 0
      /\ \A x, y \in rows : x.reading = y.reading => x = y
      /\ \A r \in 1 .. Len(OwnerOf) : \E x \in rows : x.reading = r
  <2>1. \A x \in rows : x.reading \in 1 .. Len(OwnerOf)
                        /\ x = [reading |-> x.reading, monitor |-> OwnerOf[x.reading]]
    BY <1>4
  <2>2. \A r \in 1 .. Len(OwnerOf) : [reading |-> r, monitor |-> OwnerOf[r]] \in rows
    BY <1>4
  <2>3. \A x, y \in rows : x.reading = y.reading => x = y
    BY <2>1
  <2>4. \A x \in rows : x.reading # 0
    BY <2>1
  <2>5. \A r \in 1 .. Len(OwnerOf) : \E x \in rows : x.reading = r
    BY <2>2
  <2>6. QED
    BY <2>3, <2>4, <2>5
<1>6. QED
  BY <1>1, <1>2, <1>3, <1>4, <1>5 DEF OnceInv

\* Readings move in three steps only, a batch, a restore and a landing.
LEMMA OnceStep == BackInv /\ OnceInv /\ [Next]_vars => OnceInv'
<1> SUFFICES ASSUME TypeInv, BoxInv, OnceInv, [Next]_vars
             PROVE  OnceInv'
  BY DEF BackInv
<1>1. CASE SweepBatch
  BY <1>1, SweepBatchOnce
<1>2. CASE RestoreBatch
  BY <1>2, RestoreSamplesOnce DEF RestoreBatch, Keep, world
<1>3. CASE RestoreBare
  <2>1. PICK box : Agree(box)
    BY DEF BoxInv
  <2>2. run.entry.sweeps \in Seq(Sweep) /\ run.entry.sweeps # <<>>
    BY <1>3 DEF RestoreBare, TypeInv, Command, Entry
  <2>3. SweepOK(Last(run.entry.sweeps), box, source)
    BY <2>1, <2>2, LastMovedType DEF Agree, CommandOK, EntryOK
  <2>4. QED
    BY <1>3, <2>3, RestoreBareOnce DEF SweepOK
<1>4. CASE RestoreRest
  BY <1>4, RestoreSamplesOnce, OnceStays DEF RestoreRest, Keep, world
<1>5. CASE \E t \in Tokens : StartPush(t)
  BY <1>5, StartPushOnce
<1>6. CASE Lands \/ Reconciles
  BY <1>6, LandOnce, ReconcileOnce
<1>7. CASE UNCHANGED <<rows, samples, source, push>>
  BY <1>7, OnceStays
<1>8. QED
  BY <1>1, <1>2, <1>3, <1>4, <1>5, <1>6, <1>7
     DEF Next, Backfilling, RollingBack, Lands, Reconciles, Flush, StartBackfill,
         CreateServer, UseServer, DropOrphan, ResolveIncident, NoteIncident, StartSweep,
         EndSweep, NextPhase, Abort,
         StartRollback, CloseServerIncidents, DeleteServer, RestoreToken,
         ReopenIncident, NextRollbackPhase, MarkRolledBack, Die, Detach, vars, db,
         world, Keep

\* A reading that has metrics and that its agent was told is recorded is in one
\* of the two tables, once (sweepSamples and restoreSamplesBatch,
\* src/app/Commands/BackfillServers.ts).
THEOREM KeptOnce == Spec => []ReadingsKeptOnce
<1>1. BackInv /\ OnceInv => ReadingsKeptOnce
  <2> SUFFICES ASSUME OnceInv, NEW r \in Landed \ Bare
               PROVE  Cardinality(RowsOf(r)) + Cardinality(SamplesOf(r)) = 1
    BY DEF ReadingsKeptOnce
  <2>1. r \in DOMAIN source \ Bare /\ r # push.reading
    BY DEF Landed
  <2>2. Cardinality({}) = 0 /\ \A x : Cardinality({x}) = 1
    BY FS_EmptySet, FS_Singleton
  <2>3. CASE \E x \in rows : x.reading = r
    <3>1. PICK x \in rows : x.reading = r
      BY <2>3
    <3>2. RowsOf(r) = {x} /\ SamplesOf(r) = {}
      BY <2>1, <3>1 DEF RowsOf, SamplesOf, OnceInv
    <3>3. Cardinality(RowsOf(r)) = 1 /\ Cardinality(SamplesOf(r)) = 0
      BY <2>2, <3>2
    <3>4. QED
      BY <3>3
  <2>4. CASE \E x \in samples : x.reading = r
    <3>1. PICK x \in samples : x.reading = r
      BY <2>4
    <3>2. SamplesOf(r) = {x} /\ RowsOf(r) = {}
      BY <2>1, <3>1 DEF RowsOf, SamplesOf, OnceInv
    <3>3. Cardinality(RowsOf(r)) = 0 /\ Cardinality(SamplesOf(r)) = 1
      BY <2>2, <3>2
    <3>4. QED
      BY <3>3
  <2>5. QED
    BY <2>1, <2>3, <2>4 DEF OnceInv
<1>2. Spec => []OnceInv
  BY InitOnce, OnceStep, BackAlways, PTL DEF Spec
<1>3. QED
  BY <1>1, <1>2, BackAlways, PTL

(***************************************************************************)
(* Who is served.  While a backfill runs every monitor with a token either  *)
(* has a server or is in a group still to do; a monitor with a server has   *)
(* the one of its token, because what deletes a server detaches it first.   *)
(***************************************************************************)
Backfills == {"servers", "orphans", "incidents", "note", "sweeps", "batch", "flush"}

\* The phase a command is in, or goes on with after its flush.
Phase(st) == IF st.pc = "flush" THEN st.then ELSE st.pc

Serving(S, id, t) == \E s \in S : s.id = id /\ s.token = t

ToDo(m) == \E g \in run.live \cup run.orphans : m \in g.monitors /\ g.token = token[m]

GroupsInv ==
  /\ \A g \in run.live : g.existing # 0 => Serving(servers, g.existing, g.token)
  /\ Phase(run) # "servers" => run.live = {}
  /\ Phase(run) \notin {"servers", "orphans"} => run.orphans = {}
  /\ "detached" \notin mishaps =>
       /\ \A g \in run.live : g.existing # 0 /\ ~g.attach =>
            \A m \in g.monitors : attached[m] # 0
       /\ \A m \in Monitors : token[m] # NoToken => attached[m] # 0 \/ ToDo(m)

ServedInv ==
  /\ \A m \in Monitors : attached[m] # 0 => Serving(servers, attached[m], TokenOf[m])
  /\ run.pc \in Backfills => GroupsInv

\* The groups read at the start hold every monitor that has a token.
LEMMA StartBackfillServes ==
  ASSUME TypeInv, ServedInv, StartBackfill
  PROVE  ServedInv'
<1> DEFINE held == {token[m] : m \in Monitors} \ {NoToken}
           groups == {Group(t) : t \in held}
           live == {g \in groups : IsLive(g)}
<1>1. held \subseteq Tokens
  BY DEF TypeInv, TypeOK
<1>2. /\ run' = [Idle EXCEPT !.index = Len(journal) + 1, !.live = live,
                             !.orphans = groups \ live,
                             !.pc = "flush", !.then = "servers"]
      /\ UNCHANGED <<servers, token, attached, mishaps>>
  BY DEF StartBackfill, Recorded, Idle, db, world
<1>3. ASSUME NEW g \in groups
      PROVE  /\ g.existing # 0 => Serving(servers, g.existing, g.token)
             /\ ~g.attach => \A m \in g.monitors : attached[m] # 0
  <2>1. PICK t \in held : g = Group(t)
    OBVIOUS
  <2>2. /\ g.token = t /\ g.monitors = {m \in Monitors : token[m] = t}
        /\ g.existing # 0 => \E s \in servers : s.id = g.existing /\ s.token = t
    BY <1>1, <2>1, GroupType
  <2>3. g.attach = (\E m \in g.monitors : attached[m] = 0)
    BY <2>1 DEF Group
  <2>4. QED
    BY <2>2, <2>3 DEF Serving
<1>4. ASSUME NEW m \in Monitors, token[m] # NoToken
      PROVE  \E g \in groups : m \in g.monitors /\ g.token = token[m]
  <2>1. token[m] \in held
    BY <1>4
  <2>2. Group(token[m]).token = token[m] /\ m \in Group(token[m]).monitors
    BY <1>1, <2>1, GroupType
  <2>3. QED
    BY <2>1, <2>2
<1>5. live \subseteq groups /\ groups \subseteq live \cup (groups \ live)
  OBVIOUS
<1> HIDE DEF held, groups, live
<1>6. /\ run'.pc = "flush" /\ run'.then = "servers"
      /\ run'.live = live /\ run'.orphans = groups \ live
  BY <1>2 DEF Idle
<1>7. \A m \in Monitors : token'[m] # NoToken => ToDo(m)'
  BY <1>2, <1>4, <1>5, <1>6 DEF ToDo
<1>8. \A g \in live : g.existing # 0 => Serving(servers', g.existing, g.token)
  BY <1>2, <1>3, <1>5 DEF Serving
<1>9. GroupsInv'
  BY <1>2, <1>3, <1>5, <1>6, <1>7, <1>8 DEF GroupsInv, Phase
<1>10. QED
  BY <1>2, <1>9 DEF ServedInv, Serving

\* Creating a server and using one serve the group they are for.
LEMMA AttachServes ==
  ASSUME TypeInv, BoxInv, ServedInv, run.pc = "servers",
         NEW g \in run.live, NEW id \in Nat, id # 0,
         servers \subseteq servers', Serving(servers', id, g.token),
         attached' = AttachAll(g.token, id)
           \/ (attached' = attached /\ g.existing # 0 /\ ~g.attach),
         run'.live = run.live \ {g}, run'.orphans = run.orphans,
         Phase(run') = "servers", UNCHANGED <<token, mishaps>>
  PROVE  ServedInv'
<1>1. /\ GroupsInv /\ attached \in [Monitors -> Nat] /\ Phase(run) = "servers"
      /\ run \in Command
  BY DEF ServedInv, Backfills, TypeInv, TypeOK, Phase
<1>2. PICK box : Agree(box)
  BY DEF BoxInv
<1>3. \A m \in Monitors : token[m] = g.token => TokenOf[m] = g.token
  <2>1. g.token # NoToken
    BY <1>1, BackfillAssumption DEF Command, TokenGroup
  <2>2. QED
    BY <1>2, <2>1 DEF Agree, TablesOK
<1>4. \A i, t : Serving(servers, i, t) => Serving(servers', i, t)
  BY DEF Serving
<1>5. \A m \in Monitors : \/ attached'[m] = attached[m]
                          \/ attached'[m] = id /\ token[m] = g.token
  BY <1>1 DEF AttachAll
<1>6. \A m \in Monitors : attached[m] # 0 => attached'[m] # 0
  BY <1>5
<1>7. \A m \in Monitors : attached'[m] # 0 => Serving(servers', attached'[m], TokenOf[m])
  <2> SUFFICES ASSUME NEW m \in Monitors, attached'[m] # 0
               PROVE  Serving(servers', attached'[m], TokenOf[m])
    OBVIOUS
  <2>1. CASE attached'[m] = attached[m]
    BY <1>4, <2>1 DEF ServedInv
  <2>2. CASE attached'[m] = id /\ token[m] = g.token
    BY <1>3, <2>2
  <2>3. QED
    BY <1>5, <2>1, <2>2
<1>8. ASSUME "detached" \notin mishaps, NEW m \in g.monitors, m \in Monitors,
             token[m] = g.token
      PROVE  attached'[m] # 0
  BY <1>1, <1>8 DEF AttachAll, GroupsInv
<1>9. ASSUME "detached" \notin mishaps, NEW m \in Monitors, token[m] # NoToken
      PROVE  attached'[m] # 0 \/ ToDo(m)'
  <2>1. CASE attached[m] # 0
    BY <1>6, <2>1
  <2>2. CASE ToDo(m)
    <3>1. PICK h \in run.live \cup run.orphans : m \in h.monitors /\ h.token = token[m]
      BY <2>2 DEF ToDo
    <3>2. CASE h = g
      BY <1>8, <1>9, <3>1, <3>2
    <3>3. CASE h # g
      BY <3>1, <3>3 DEF ToDo
    <3>4. QED
      BY <3>2, <3>3
  <2>3. QED
    BY <1>1, <1>9, <2>1, <2>2 DEF GroupsInv
<1>10. \A h \in run'.live : h.existing # 0 => Serving(servers', h.existing, h.token)
  BY <1>1, <1>4 DEF GroupsInv
<1>11. "detached" \notin mishaps =>
         \A h \in run'.live : h.existing # 0 /\ ~h.attach =>
           \A m \in h.monitors : attached'[m] # 0
  <2>1. \A h \in run.live : h.monitors \subseteq Monitors
    BY <1>1 DEF Command, TokenGroup
  <2>2. QED
    BY <1>1, <1>6, <2>1 DEF GroupsInv
<1>12. GroupsInv'
  BY <1>1, <1>9, <1>10, <1>11 DEF GroupsInv
<1>13. QED
  BY <1>7, <1>12 DEF ServedInv

\* Phase A attaches every monitor of a group, to the new server or to the one the
\* token has.
LEMMA ServersServe ==
  ASSUME TypeInv, BoxInv, ServedInv, CreateServer \/ UseServer
  PROVE  ServedInv'
<1> DEFINE g == First(run.live)
<1>1. run \in Command /\ run.pc = "servers" /\ g \in run.live
  BY FirstExists DEF CreateServer, UseServer, TypeInv, WhereInv, Command
<1>2. CASE CreateServer
  <2> DEFINE s == [id |-> nextServer, token |-> g.token, monitors |-> g.monitors]
  <2>1. /\ run' = [run EXCEPT !.entry.created = @ \cup {s}, !.live = @ \ {g},
                              !.made = Append(@, s), !.pc = "flush", !.then = "servers"]
        /\ servers' = servers \cup {[id |-> nextServer, token |-> g.token]}
        /\ attached' = AttachAll(g.token, nextServer)
        /\ UNCHANGED <<token, mishaps>>
    BY <1>1, <1>2 DEF CreateServer, Recorded, Keep, world, Command
  <2>2. nextServer \in Nat /\ nextServer # 0
    BY DEF TypeInv, TypeOK, WhereInv
  <2> HIDE DEF s
  <2>3. /\ run'.live = run.live \ {g} /\ run'.orphans = run.orphans
        /\ Phase(run') = "servers"
    BY <1>1, <2>1 DEF Command, Phase
  <2> HIDE DEF g
  <2>4. Serving(servers', nextServer, g.token)
    <3>1. [id |-> nextServer, token |-> g.token] \in servers'
      BY <2>1
    <3>2. \E s2 \in servers' : s2.id = nextServer /\ s2.token = g.token
      BY <3>1
    <3>3. QED
      BY <3>2 DEF Serving
  <2>5. QED
    BY <1>1, <2>1, <2>2, <2>3, <2>4, AttachServes
<1>3. CASE UseServer
  <2> DEFINE s == [id |-> g.existing, token |-> g.token, monitors |-> g.monitors]
  <2>1. /\ g.existing # 0
        /\ run' = [run EXCEPT !.live = @ \ {g}, !.kept = Append(@, s)]
        /\ attached' = Attachment(g)
        /\ UNCHANGED <<servers, token, mishaps>>
    BY <1>3 DEF UseServer, Keep, world
  <2> HIDE DEF s
  <2>2. /\ run'.live = run.live \ {g} /\ run'.orphans = run.orphans
        /\ Phase(run') = "servers"
    BY <1>1, <2>1 DEF Command, Phase
  <2> HIDE DEF g
  <2>3. g.existing \in Nat /\ Serving(servers, g.existing, g.token)
    BY <1>1, <2>1 DEF Command, TokenGroup, ServedInv, GroupsInv, Backfills
  <2>4. QED
    BY <1>1, <2>1, <2>2, <2>3, AttachServes DEF Attachment, Serving
<1>4. QED
  BY <1>2, <1>3

\* A dropped token needs no server.
LEMMA DropOrphanServes ==
  ASSUME TypeInv, ServedInv, DropOrphan
  PROVE  ServedInv'
<1> DEFINE g == First(run.orphans)
           gone == {[monitor |-> m, token |-> g.token] : m \in g.monitors}
<1>1. run \in Command /\ run.pc = "orphans" /\ g \in run.orphans /\ GroupsInv
  BY FirstExists DEF DropOrphan, TypeInv, WhereInv, Command, ServedInv, Backfills
<1>2. /\ run' = [run EXCEPT !.entry.dropped = @ \cup gone, !.orphans = @ \ {g},
                            !.pc = "flush", !.then = "orphans"]
      /\ token' = [m \in Monitors |-> IF m \in g.monitors THEN NoToken ELSE token[m]]
      /\ UNCHANGED <<servers, attached, mishaps>>
  BY <1>1 DEF DropOrphan, Recorded, Keep, world, Command
<1> HIDE DEF gone
<1>3. /\ run'.live = run.live /\ run'.orphans = run.orphans \ {g}
      /\ Phase(run') = "orphans" /\ Phase(run) = "orphans"
  BY <1>1, <1>2 DEF Command, Phase
<1> HIDE DEF g
<1>4. ASSUME NEW m \in Monitors, ToDo(m), token'[m] # NoToken PROVE ToDo(m)'
  <2>1. PICK h \in run.live \cup run.orphans : m \in h.monitors /\ h.token = token[m]
    BY <1>4 DEF ToDo
  <2>2. m \notin g.monitors /\ token'[m] = token[m]
    BY <1>2, <1>4
  <2>3. QED
    BY <1>3, <2>1, <2>2 DEF ToDo
<1>5. \A m \in Monitors : token'[m] # NoToken => token[m] # NoToken
  BY <1>2
<1>6. GroupsInv'
  BY <1>1, <1>2, <1>3, <1>4, <1>5 DEF GroupsInv
<1>7. QED
  BY <1>2, <1>6 DEF ServedInv

\* A step of the backfill that leaves servers, tokens and groups alone goes on
\* with the phase it was in, or with the next one when no group is left for it.
LEMMA PhaseServes ==
  ASSUME ServedInv, run.pc \in Backfills,
         UNCHANGED <<servers, token, attached, mishaps>>,
         run'.live = run.live, run'.orphans = run.orphans,
         \/ Phase(run') = Phase(run)
         \/ run.live = {} /\ Phase(run') = "orphans"
         \/ run.live = {} /\ run.orphans = {}
  PROVE  ServedInv'
<1>1. GroupsInv
  BY DEF ServedInv
<1>2. \A m : ToDo(m) => ToDo(m)'
  BY DEF ToDo
<1>3. GroupsInv'
  BY <1>1, <1>2 DEF GroupsInv
<1>4. QED
  BY <1>3 DEF ServedInv

\* The other steps of a backfill attach nobody and leave the groups as they are,
\* and a phase gives way only when its groups are done.
LEMMA BackfillServes ==
  ASSUME TypeInv, ServedInv,
         \/ Flush \/ ResolveIncident \/ NoteIncident
         \/ StartSweep \/ SweepBatch \/ EndSweep \/ NextPhase
  PROVE  ServedInv'
<1>1. /\ UNCHANGED <<servers, token, attached, mishaps>>
      /\ run.pc \in Backfills /\ run \in Command /\ GroupsInv
  BY DEF Flush, ResolveIncident, NoteIncident, StartSweep, SweepBatch, EndSweep,
         NextPhase, Keep, db, Backfills, TypeInv, ServedInv
<1>2. CASE run' = Idle
  BY <1>1, <1>2 DEF ServedInv, Idle, Backfills
<1>3. CASE run' # Idle
  <2>1. run'.live = run.live /\ run'.orphans = run.orphans
    BY ZenonT(30), <1>1, <1>3 DEF Flush, ResolveIncident, NoteIncident, StartSweep, SweepBatch,
                      EndSweep, NextPhase, Goto, Recorded, Command
  <2>2. \/ Phase(run') = Phase(run)
        \/ run.live = {} /\ Phase(run') = "orphans"
        \/ run.live = {} /\ run.orphans = {}
    <3>1. CASE Flush
      BY <1>1, <1>3, <3>1 DEF Flush, Phase, Command, Counters
    <3>2. CASE ResolveIncident \/ NoteIncident
      BY <1>1, <3>2 DEF ResolveIncident, NoteIncident, GroupsInv, Phase
    <3>3. CASE StartSweep \/ SweepBatch \/ EndSweep
      BY <1>1, <3>3 DEF StartSweep, SweepBatch, EndSweep, GroupsInv, Phase
    <3>4. CASE NextPhase
      BY <1>1, <3>4 DEF NextPhase, Goto, GroupsInv, Phase, Command
    <3>5. QED
      BY <3>1, <3>2, <3>3, <3>4
  <2>3. QED
    BY <1>1, <2>1, <2>2, PhaseServes
<1>4. QED
  BY <1>2, <1>3

\* A rollback moves no monitor to another server; what it deletes is detached.
LEMMA RollbackServes ==
  ASSUME TypeInv, ServedInv, UNCHANGED <<servers, attached>>, run'.pc \notin Backfills
  PROVE  ServedInv'
BY DEF ServedInv

\* A monitor keeps the server it has unless that one is deleted, and then it has
\* none.
LEMMA DeleteServes ==
  ASSUME TypeInv, ServedInv, DeleteServer
  PROVE  ServedInv'
<1> DEFINE id == Created.id
<1>1. /\ attached' = [m \in Monitors |-> IF attached[m] = id THEN 0 ELSE attached[m]]
      /\ servers' = {s \in servers : s.id # id}
      /\ run'.pc = "rest"
  BY DEF DeleteServer, TypeInv, Command
<1> HIDE DEF id
<1>2. ASSUME NEW m \in Monitors, attached'[m] # 0
      PROVE  Serving(servers', attached'[m], TokenOf[m])
  <2>1. attached'[m] = attached[m] /\ attached[m] # id
    BY <1>1, <1>2
  <2>2. PICK s \in servers : s.id = attached[m] /\ s.token = TokenOf[m]
    BY <1>2, <2>1 DEF ServedInv, Serving
  <2>3. QED
    BY <1>1, <2>1, <2>2 DEF Serving
<1>3. QED
  BY <1>1, <1>2 DEF ServedInv, Backfills

\* Detaching takes a server away; from a backfill under way it is a mishap.
LEMMA DetachServes ==
  ASSUME TypeInv, ServedInv, NEW n \in Monitors, Detach(n)
  PROVE  ServedInv'
<1>1. /\ attached' = [attached EXCEPT ![n] = 0] /\ attached \in [Monitors -> Nat]
      /\ run.pc # "idle" => "detached" \in mishaps'
      /\ UNCHANGED <<servers, token, run>>
  BY DEF Detach, TypeInv, TypeOK
<1>2. \A m \in Monitors : attached'[m] = attached[m] \/ attached'[m] = 0
  BY <1>1
<1>3. run.pc \in Backfills => GroupsInv'
  BY <1>1 DEF ServedInv, GroupsInv, Backfills
<1>4. QED
  BY <1>1, <1>2, <1>3 DEF ServedInv

\* Nothing else touches what a backfill goes by.
LEMMA OthersServe ==
  ASSUME ServedInv, UNCHANGED <<servers, token, attached, run>>,
         "detached" \in mishaps => "detached" \in mishaps'
  PROVE  ServedInv'
<1>1. \A m : ToDo(m) => ToDo(m)'
  BY DEF ToDo
<1>2. GroupsInv => GroupsInv'
  BY <1>1 DEF GroupsInv
<1>3. QED
  BY <1>2 DEF ServedInv

\* Every step keeps the promise to the monitors with a token.
LEMMA ServedStep == BackInv /\ ServedInv /\ [Next]_vars => ServedInv'
<1> SUFFICES ASSUME TypeInv, BoxInv, ServedInv, [Next]_vars
             PROVE  ServedInv'
  BY DEF BackInv
<1>1. CASE StartBackfill
  BY <1>1, StartBackfillServes
<1>2. CASE CreateServer \/ UseServer
  BY <1>2, ServersServe
<1>3. CASE DropOrphan
  BY <1>3, DropOrphanServes
<1>4. CASE \/ Flush \/ ResolveIncident \/ NoteIncident
           \/ StartSweep \/ SweepBatch \/ EndSweep \/ NextPhase
  BY <1>4, BackfillServes
<1>5. CASE DeleteServer
  BY <1>5, DeleteServes
<1>6. CASE \E m \in Monitors : Detach(m)
  BY <1>6, DetachServes
<1>7. CASE \/ (\E t \in Tokens : StartPush(t)) \/ Lands \/ Reconciles \/ UNCHANGED vars
  BY <1>7, OthersServe, ReconcileIs DEF StartPush, Lands, LandOnMonitor, LandOnServer,
                                        vars, db
<1>8. CASE Abort \/ Die \/ StartRollback
  <2>1. UNCHANGED <<servers, attached>>
    BY <1>8 DEF Abort, Die, StartRollback, db
  <2>2. run'.pc = "idle" \/ run'.pc = "restore"
    <3>1. CASE Abort \/ Die
      BY <3>1, IdleType DEF Abort, Die, Idle
    <3>2. CASE StartRollback
      <4>1. run' = [Idle EXCEPT !.pc = "restore", !.entry = journal[Max(Applied)],
                                !.index = Max(Applied),
                                !.todo = LastMoved(journal[Max(Applied)].sweeps)]
        BY <3>2 DEF StartRollback
      <4>2. QED
        BY <4>1 DEF Idle
    <3>3. QED
      BY <1>8, <3>1, <3>2
  <2>3. QED
    BY <2>1, <2>2, RollbackServes DEF Backfills
<1>9. CASE \/ RestoreBatch \/ RestoreBare \/ RestoreRest \/ CloseServerIncidents
           \/ RestoreToken \/ ReopenIncident \/ NextRollbackPhase \/ MarkRolledBack
  <2>1. UNCHANGED <<servers, attached>>
    BY <1>9 DEF RestoreBatch, RestoreBare, RestoreRest, CloseServerIncidents,
                RestoreToken, ReopenIncident, NextRollbackPhase, MarkRolledBack, db
  <2>2. run \in Command
    BY DEF TypeInv
  <2>3. run'.pc \in {"idle", "restore", "rest", "close", "delete", "reopen"}
    <3>1. CASE RestoreBatch
      BY <2>2, <3>1 DEF RestoreBatch, Command
    <3>2. CASE RestoreBare
      <4> DEFINE rest == Front(run.entry.sweeps)
                 todo == LastMoved(rest)
      <4>1. \/ run' = Idle
            \/ run.pc = "restore" /\ run' = [run EXCEPT !.entry.sweeps = rest, !.todo = todo]
        BY <3>2 DEF RestoreBare
      <4> HIDE DEF rest, todo
      <4>2. CASE run' = Idle
        BY <4>2 DEF Idle
      <4>3. CASE run.pc = "restore" /\ run' = [run EXCEPT !.entry.sweeps = rest, !.todo = todo]
        BY <2>2, <4>3 DEF Command
      <4>4. QED
        BY <4>1, <4>2, <4>3
    <3>3. CASE RestoreRest
      BY <2>2, <3>3 DEF RestoreRest, Goto, Command
    <3>4. CASE CloseServerIncidents
      BY <2>2, <3>4 DEF CloseServerIncidents, Goto, Command
    <3>5. CASE RestoreToken
      BY <2>2, <3>5 DEF RestoreToken, Command
    <3>6. CASE ReopenIncident
      BY <2>2, <3>6 DEF ReopenIncident, Command
    <3>7. CASE NextRollbackPhase
      BY <2>2, <3>7 DEF NextRollbackPhase, Goto, Command
    <3>8. CASE MarkRolledBack
      BY <3>8 DEF MarkRolledBack, Idle
    <3>9. QED
      BY <1>9, <3>1, <3>2, <3>3, <3>4, <3>5, <3>6, <3>7, <3>8
  <2>4. QED
    BY <2>1, <2>3, RollbackServes DEF Backfills
<1>10. QED
  BY <1>1, <1>2, <1>3, <1>4, <1>5, <1>6, <1>7, <1>8, <1>9
     DEF Next, Backfilling, RollingBack, Lands, Reconciles

\* A run that is recorded complete leaves no monitor with a token and without
\* the server of that token (phases A and B of runServersBackfill,
\* src/app/Commands/BackfillServers.ts), unless an operator detached one
\* meanwhile.
THEOREM CompleteServesAll == Spec => []CompleteMeansServed
<1>1. BackInv /\ ServedInv => CompleteMeansServed
  <2> SUFFICES ASSUME BackInv, ServedInv, run.pc = "flush", run.then = "idle",
                      "detached" \notin mishaps, NEW m \in Monitors, token[m] # NoToken
               PROVE  \E s \in servers : s.id = attached[m] /\ s.token = token[m]
    BY DEF CompleteMeansServed
  <2>1. GroupsInv /\ Phase(run) = "idle"
    BY DEF ServedInv, Backfills, Phase
  <2>2. run.live = {} /\ run.orphans = {}
    BY <2>1 DEF GroupsInv
  <2>3. attached[m] # 0
    BY <2>1, <2>2 DEF GroupsInv, ToDo
  <2>4. token[m] = TokenOf[m]
    BY DEF BackInv, BoxInv, Agree, TablesOK
  <2>5. QED
    BY <2>3, <2>4 DEF ServedInv, Serving
<1>2. Init => ServedInv
  BY DEF Init, ServedInv, Idle, Backfills
<1>3. Spec => []ServedInv
  BY <1>2, ServedStep, BackAlways, PTL DEF Spec
<1>4. QED
  BY <1>1, <1>3, BackAlways, PTL

(***************************************************************************)
(* There and back.  Whatever the tables differ from what the first run     *)
(* found, an entry that is still applied, or the command in memory, says   *)
(* how to undo it: the journal is the whole story.  A rollback tells its   *)
(* own entry's part of it from memory, where it gets shorter as it goes.   *)
(***************************************************************************)
\* A reading that was there at first is on the monitor it was on, unless what
\* moved it was never told.
Home(x) == x.reading \in DOMAIN OwnerOf => x.monitor = OwnerOf[x.reading]
HomeAll(sweeps) ==
  \A k \in DOMAIN sweeps : \A x \in sweeps[k].moved \cup sweeps[k].bare : Home(x)

HomeInv ==
  "unrecorded" \notin mishaps =>
    /\ \A x \in rows : Home(x)
    /\ \A i \in DOMAIN journal : HomeAll(journal[i].sweeps)
    /\ HomeAll(run.entry.sweeps)
    /\ \A x \in run.sweep.moved \cup run.sweep.bare : Home(x)

\* An entry is another one, of which a part was undone, the last sweep first.
Part(e, f) ==
  /\ e.created \subseteq f.created /\ e.dropped \subseteq f.dropped
  /\ e.resolved \subseteq f.resolved
  /\ Len(e.sweeps) <= Len(f.sweeps)
  /\ \A k \in DOMAIN e.sweeps : e.sweeps[k] = f.sweeps[k]

\* The command and its entry: a backfill that is not about to flush has told the
\* file everything; a rollback undoes the newest entry that is still applied.
RecordInv ==
  /\ run.pc = "idle" => run = Idle
  /\ run.pc \in Backfills =>
       /\ run.index >= Len(journal) /\ ~run.entry.rolledBack
       /\ run.index \in DOMAIN journal => ~journal[run.index].rolledBack
  /\ run.pc \in Backfills \ {"flush"} =>
       run.index \in DOMAIN journal /\ Facts(EntryNow(run)) = Facts(journal[run.index])
  /\ run.pc \in Restoring =>
       /\ run.index \in Applied /\ \A i \in Applied : i <= run.index
       /\ Part(run.entry, journal[run.index])
  /\ run.pc \in Restoring \ {"restore"} => run.entry.sweeps = <<>>
  /\ run.pc = "reopen" => run.entry.created = {} /\ run.entry.dropped = {}
  /\ Phase(run) # "batch" => run.sweep.moved = {} /\ run.sweep.bare = {}

\* The sweeps made this sample, set this row aside.
Makes(sweeps, y) ==
  \E k \in DOMAIN sweeps : /\ y.server = sweeps[k].server
                           /\ \E x \in sweeps[k].moved : x.reading = y.reading
SetsAside(sweeps, x) == \E k \in DOMAIN sweeps : x \in sweeps[k].bare
Names(e, id) == \E c \in e.created : c.id = id

\* What a rollback still has to take back of its entry's samples.
Owes(y) ==
  LET sweeps == run.entry.sweeps
  IN  \E k \in DOMAIN sweeps :
        /\ y.server = sweeps[k].server
        /\ \E x \in IF k = Len(sweeps) THEN run.todo ELSE sweeps[k].moved :
             x.reading = y.reading

\* What the entries still applied and the command tell.
Others == Applied \ {run.index}
DropOf(m) == [monitor |-> m, token |-> TokenOf[m]]
ToldServer(id) == (\E i \in Others : Names(journal[i], id)) \/ Names(run.entry, id)
ToldDrop(m) ==
  (\E i \in Others : DropOf(m) \in journal[i].dropped) \/ DropOf(m) \in run.entry.dropped
Unnoted(m) == run.pc = "note" /\ m = Min(run.todo)
ToldIncident(m) ==
  (\E i \in Others : m \in journal[i].resolved) \/ m \in run.entry.resolved \/ Unnoted(m)
ToldBare(x) ==
  (\E i \in Others : SetsAside(journal[i].sweeps, x)) \/ SetsAside(EntryNow(run).sweeps, x)
Remembers(y) ==
  IF run.pc = "restore" THEN Owes(y) ELSE Makes(EntryNow(run).sweeps, y)
ToldSample(y) == (\E i \in Others : Makes(journal[i].sweeps, y)) \/ Remembers(y)

AsFound(r) == [reading |-> r, monitor |-> OwnerOf[r]]

\* Each table: what it has or lacks that the first run did not find is told.
ServersStory == \A s \in servers : ToldServer(s.id)
TokensStory == \A m \in Monitors : token[m] # TokenOf[m] => ToldDrop(m)
IncidentsStory ==
  "pushed" \notin mishaps => \A m \in LegacyOpen : m \notin legacy => ToldIncident(m)
BareStory == \A r \in Bare : AsFound(r) \notin rows => ToldBare(AsFound(r))
SamplesStory == \A y \in samples : y.reading \in DOMAIN OwnerOf => ToldSample(y)

StoryInv ==
  "unrecorded" \notin mishaps =>
    ServersStory /\ TokensStory /\ IncidentsStory /\ BareStory /\ SamplesStory

\* Incidents: only those found open are resolved and reopened, as long as no agent
\* moves one.
AsOpened ==
  /\ legacy \subseteq LegacyOpen
  /\ \A i \in DOMAIN journal : journal[i].resolved \subseteq LegacyOpen
  /\ run.entry.resolved \subseteq LegacyOpen
  /\ Phase(run) \in {"incidents", "note"} => run.todo \subseteq LegacyOpen

LegacyInv == "pushed" \notin mishaps => AsOpened

\* No sweep is into a server that was created after it.
Before(sweeps, id) == \A k \in DOMAIN sweeps : sweeps[k].server < id

IdsInv ==
  /\ run.sweep.server < nextServer
  /\ Before(run.entry.sweeps, nextServer)
  /\ \A i \in DOMAIN journal : Before(journal[i].sweeps, nextServer)
  /\ \A i, j \in DOMAIN journal :
       i < j => \A c \in journal[j].created : Before(journal[i].sweeps, c.id)
  /\ \A i \in DOMAIN journal :
       i < run.index => \A c \in run.entry.created : Before(journal[i].sweeps, c.id)

\* The servers a backfill will still sweep into.
ServerIds(seq) == {seq[k].id : k \in DOMAIN seq}
Ahead(st) == ServerIds(st.made) \cup ServerIds(st.kept)

\* Samples and incidents are those of servers, unless a push came late.
Exists(id) == \E s \in servers : s.id = id

LateInv ==
  /\ "late" \notin mishaps =>
       (\A id \in hot : Exists(id)) /\ \A y \in samples : Exists(y.server)
  /\ run.pc \in Backfills =>
       /\ \A id \in Ahead(run) : Exists(id)
       /\ Phase(run) = "batch" => Exists(run.sweep.server)

ReturnInv == HomeInv /\ RecordInv /\ StoryInv /\ LegacyInv /\ IdsInv /\ LateInv

\* The entry of a command, with the sweep under way.
LEMMA EntryNowIs ==
  ASSUME NEW st \in Command
  PROVE  /\ EntryNow(st).created = st.entry.created
         /\ EntryNow(st).dropped = st.entry.dropped
         /\ EntryNow(st).resolved = st.entry.resolved
         /\ EntryNow(st).rolledBack = st.entry.rolledBack
         /\ EntryNow(st) \in Entry /\ EntryNow(st).sweeps \in Seq(Sweep)
         /\ \/ EntryNow(st) = st.entry /\ st.sweep.moved = {} /\ st.sweep.bare = {}
            \/ /\ Len(EntryNow(st).sweeps) = Len(st.entry.sweeps) + 1
               /\ \A k \in DOMAIN st.entry.sweeps : EntryNow(st).sweeps[k] = st.entry.sweeps[k]
               /\ EntryNow(st).sweeps[Len(st.entry.sweeps) + 1] = st.sweep
<1> DEFINE longer == Append(st.entry.sweeps, st.sweep)
<1>1. /\ st.entry \in Entry /\ st.entry.sweeps \in Seq(Sweep) /\ st.sweep \in Sweep
      /\ EntryNow(st) \in Entry /\ EntryNow(st).sweeps \in Seq(Sweep)
  BY EntryNowType DEF Command, Entry
<1>2. CASE st.sweep.moved = {} /\ st.sweep.bare = {}
  BY <1>1, <1>2 DEF EntryNow
<1>3. CASE ~(st.sweep.moved = {} /\ st.sweep.bare = {})
  <2>1. EntryNow(st) = [st.entry EXCEPT !.sweeps = longer]
    BY <1>3 DEF EntryNow
  <2>2. /\ EntryNow(st).created = st.entry.created
        /\ EntryNow(st).dropped = st.entry.dropped
        /\ EntryNow(st).resolved = st.entry.resolved
        /\ EntryNow(st).rolledBack = st.entry.rolledBack
        /\ EntryNow(st).sweeps = longer
    BY <1>1, <2>1 DEF Entry
  <2>3. /\ Len(longer) = Len(st.entry.sweeps) + 1
        /\ \A k \in DOMAIN st.entry.sweeps : longer[k] = st.entry.sweeps[k]
        /\ longer[Len(st.entry.sweeps) + 1] = st.sweep
    BY <1>1
  <2> HIDE DEF longer
  <2>4. QED
    BY <1>1, <2>2, <2>3
<1>4. QED
  BY <1>2, <1>3

\* ... so it tells what the entry tells, and of that sweep.
LEMMA EntryNowTells ==
  ASSUME NEW st \in Command
  PROVE  /\ \A y : Makes(EntryNow(st).sweeps, y) <=>
                   \/ Makes(st.entry.sweeps, y)
                   \/ y.server = st.sweep.server /\ \E x \in st.sweep.moved : x.reading = y.reading
         /\ \A x : SetsAside(EntryNow(st).sweeps, x) <=>
                   SetsAside(st.entry.sweeps, x) \/ x \in st.sweep.bare
         /\ HomeAll(st.entry.sweeps) /\ (\A x \in st.sweep.moved \cup st.sweep.bare : Home(x))
              => HomeAll(EntryNow(st).sweeps)
         /\ \A id : Before(st.entry.sweeps, id) /\ st.sweep.server < id
                      => Before(EntryNow(st).sweeps, id)
<1> DEFINE now == EntryNow(st).sweeps
           n == Len(st.entry.sweeps)
<1>1. /\ st.entry.sweeps \in Seq(Sweep) /\ now \in Seq(Sweep) /\ n \in Nat
      /\ DOMAIN st.entry.sweeps = 1 .. n
  BY EntryNowIs DEF Command, Entry
<1>2. CASE EntryNow(st) = st.entry /\ st.sweep.moved = {} /\ st.sweep.bare = {}
  BY <1>2
<1>3. CASE /\ Len(now) = n + 1
           /\ \A k \in DOMAIN st.entry.sweeps : now[k] = st.entry.sweeps[k]
           /\ now[n + 1] = st.sweep
  <2>1. DOMAIN now = 1 .. n + 1
    BY <1>1, <1>3
  <2>2. \A k \in DOMAIN now : k \in DOMAIN st.entry.sweeps \/ k = n + 1
    BY <1>1, <2>1
  <2>3. n + 1 \in DOMAIN now /\ \A k \in DOMAIN st.entry.sweeps : k \in DOMAIN now
    BY <1>1, <2>1
  <2> HIDE DEF now, n
  <2>4. \A y : Makes(now, y) <=>
                   \/ Makes(st.entry.sweeps, y)
                   \/ y.server = st.sweep.server /\ \E x \in st.sweep.moved : x.reading = y.reading
    BY <1>3, <2>2, <2>3 DEF Makes
  <2>5. \A x : SetsAside(now, x) <=> SetsAside(st.entry.sweeps, x) \/ x \in st.sweep.bare
    BY <1>3, <2>2, <2>3 DEF SetsAside
  <2>6. HomeAll(st.entry.sweeps) /\ (\A x \in st.sweep.moved \cup st.sweep.bare : Home(x))
          => HomeAll(now)
    BY <1>3, <2>2 DEF HomeAll
  <2>7. \A id : Before(st.entry.sweeps, id) /\ st.sweep.server < id => Before(now, id)
    BY <1>3, <2>2 DEF Before
  <2>8. QED
    BY <2>4, <2>5, <2>6, <2>7 DEF now
<1>4. QED
  BY <1>2, <1>3, EntryNowIs DEF now, n

\* What it tells of sweeps depends on the sweeps alone.
LEMMA EntryNowSame ==
  ASSUME NEW st \in Command, NEW st2 \in Command,
         st2.entry.sweeps = st.entry.sweeps,
         \/ st2.sweep = st.sweep
         \/ /\ st.sweep.moved = {} /\ st.sweep.bare = {}
            /\ st2.sweep.moved = {} /\ st2.sweep.bare = {}
  PROVE  EntryNow(st2).sweeps = EntryNow(st).sweeps
BY DEF EntryNow, Command, Entry

\* A step of a backfill that is no flush, start or abort.
Working ==
  \/ CreateServer \/ UseServer \/ DropOrphan \/ ResolveIncident \/ NoteIncident
  \/ StartSweep \/ SweepBatch \/ EndSweep \/ NextPhase

\* Such a step leaves the file as it is; the entry tells what it told, and more
\* only when a flush is next.
LEMMA WorkingIs ==
  ASSUME TypeInv, TypeInv', RecordInv, Working
  PROVE  /\ run.pc \in Backfills \ {"flush"} /\ run'.pc \in Backfills
         /\ run'.index = run.index
         /\ UNCHANGED <<journal, mishaps, source, push, hot>>
         /\ run'.entry.rolledBack = run.entry.rolledBack
         /\ run.entry.created \subseteq run'.entry.created
         /\ run.entry.dropped \subseteq run'.entry.dropped
         /\ run.entry.resolved \subseteq run'.entry.resolved
         /\ ~SweepBatch => EntryNow(run').sweeps = EntryNow(run).sweeps
         /\ run'.pc # "flush" => Facts(EntryNow(run')) = Facts(EntryNow(run))
         /\ Phase(run') # "batch" => run'.sweep.moved = {} /\ run'.sweep.bare = {}
<1>1. /\ run \in Command /\ run' \in Command
      /\ run.entry \in Entry /\ run.entry.sweeps \in Seq(Sweep) /\ run.sweep \in Sweep
      /\ Phase(run) # "batch" => run.sweep.moved = {} /\ run.sweep.bare = {}
  BY DEF TypeInv, RecordInv, Command, Entry
<1>2. UNCHANGED <<journal, mishaps, source, push, hot>>
  BY DEF Working, CreateServer, UseServer, DropOrphan, ResolveIncident, NoteIncident,
         StartSweep, SweepBatch, EndSweep, NextPhase, Keep, world, db
<1>3. CASE CreateServer
  <2> DEFINE g == First(run.live)
             s == [id |-> nextServer, token |-> g.token, monitors |-> g.monitors]
  <2>1. /\ run.pc = "servers"
        /\ run' = [run EXCEPT !.entry.created = @ \cup {s}, !.live = @ \ {g},
                              !.made = Append(@, s), !.pc = "flush", !.then = "servers"]
    BY <1>1, <1>3 DEF CreateServer, Recorded, Command
  <2> HIDE DEF s, g
  <2>2. /\ run'.pc = "flush" /\ run'.then = "servers" /\ run'.index = run.index
        /\ run'.sweep = run.sweep
        /\ run'.entry = [run.entry EXCEPT !.created = @ \cup {s}]
    BY <1>1, <2>1 DEF Command
  <2>3. /\ run.entry.created \subseteq run'.entry.created
        /\ run'.entry.dropped = run.entry.dropped
        /\ run'.entry.resolved = run.entry.resolved
        /\ run'.entry.rolledBack = run.entry.rolledBack
        /\ run'.entry.sweeps = run.entry.sweeps
    BY <1>1, <2>2 DEF Entry
  <2>4. EntryNow(run').sweeps = EntryNow(run).sweeps
    BY <1>1, <2>2, <2>3, EntryNowSame
  <2>5. QED
    BY <1>1, <1>2, <2>1, <2>2, <2>3, <2>4 DEF Backfills, Phase
<1>4. CASE UseServer
  <2>1. /\ run.pc = "servers" /\ run'.pc = "servers" /\ run'.index = run.index
        /\ run'.entry = run.entry /\ run'.sweep = run.sweep
    BY <1>1, <1>4 DEF UseServer, Command
  <2>2. EntryNow(run') = EntryNow(run)
    BY <2>1 DEF EntryNow
  <2>3. QED
    BY <1>1, <1>2, <2>1, <2>2 DEF Backfills, Phase
<1>5. CASE DropOrphan
  <2> DEFINE g == First(run.orphans)
             gone == {[monitor |-> m, token |-> g.token] : m \in g.monitors}
  <2>1. /\ run.pc = "orphans"
        /\ run' = [run EXCEPT !.entry.dropped = @ \cup gone, !.orphans = @ \ {g},
                              !.pc = "flush", !.then = "orphans"]
    BY <1>1, <1>5 DEF DropOrphan, Recorded, Command
  <2> HIDE DEF gone, g
  <2>2. /\ run'.pc = "flush" /\ run'.then = "orphans" /\ run'.index = run.index
        /\ run'.sweep = run.sweep
        /\ run'.entry = [run.entry EXCEPT !.dropped = @ \cup gone]
    BY <1>1, <2>1 DEF Command
  <2>3. /\ run.entry.dropped \subseteq run'.entry.dropped
        /\ run'.entry.created = run.entry.created
        /\ run'.entry.resolved = run.entry.resolved
        /\ run'.entry.rolledBack = run.entry.rolledBack
        /\ run'.entry.sweeps = run.entry.sweeps
    BY <1>1, <2>2 DEF Entry
  <2>4. EntryNow(run').sweeps = EntryNow(run).sweeps
    BY <1>1, <2>2, <2>3, EntryNowSame
  <2>5. QED
    BY <1>1, <1>2, <2>1, <2>2, <2>3, <2>4 DEF Backfills, Phase
<1>6. CASE NoteIncident
  <2> DEFINE m == Min(run.todo)
  <2>1. /\ run.pc = "note"
        /\ run' = [run EXCEPT !.entry.resolved = @ \cup {m}, !.todo = @ \ {m},
                              !.pc = "flush", !.then = "incidents"]
    BY <1>1, <1>6 DEF NoteIncident, Recorded, Command
  <2> HIDE DEF m
  <2>2. /\ run'.pc = "flush" /\ run'.then = "incidents" /\ run'.index = run.index
        /\ run'.sweep = run.sweep
        /\ run'.entry = [run.entry EXCEPT !.resolved = @ \cup {m}]
    BY <1>1, <2>1 DEF Command
  <2>3. /\ run.entry.resolved \subseteq run'.entry.resolved
        /\ run'.entry.created = run.entry.created
        /\ run'.entry.dropped = run.entry.dropped
        /\ run'.entry.rolledBack = run.entry.rolledBack
        /\ run'.entry.sweeps = run.entry.sweeps
    BY <1>1, <2>2 DEF Entry
  <2>4. EntryNow(run').sweeps = EntryNow(run).sweeps
    BY <1>1, <2>2, <2>3, EntryNowSame
  <2>5. QED
    BY <1>1, <1>2, <2>1, <2>2, <2>3, <2>4 DEF Backfills, Phase
<1>7. CASE StartSweep
  <2>1. /\ run.pc = "sweeps" /\ run'.pc \in {"sweeps", "batch"} /\ run'.index = run.index
        /\ run'.entry = run.entry
        /\ run'.sweep.moved = {} /\ run'.sweep.bare = {}
    BY <1>1, <1>7 DEF StartSweep, Command, NewSweep
  <2>2. EntryNow(run') = EntryNow(run)
    BY <1>1, <2>1 DEF EntryNow, Phase
  <2>3. QED
    BY <1>1, <1>2, <2>1, <2>2 DEF Backfills
<1>8. CASE SweepBatch
  <2>1. /\ run.pc = "batch" /\ run'.pc = "flush" /\ run'.then = "batch"
        /\ run'.index = run.index /\ run'.entry = run.entry
    BY <1>1, <1>8 DEF SweepBatch, Recorded, Command
  <2>2. QED
    BY <1>1, <1>2, <1>8, <2>1 DEF Backfills, Phase
<1>9. CASE EndSweep
  <2>1. /\ run.pc = "batch" /\ run'.pc = "sweeps" /\ run'.index = run.index
        /\ run'.entry = EntryNow(run)
        /\ run'.sweep.moved = {} /\ run'.sweep.bare = {}
    BY <1>1, <1>9 DEF EndSweep, Command, NewSweep
  <2>2. EntryNow(run') = EntryNow(run)
    BY <2>1 DEF EntryNow
  <2>3. QED
    BY <1>1, <1>2, <2>1, <2>2, EntryNowIs DEF Backfills
<1>10. CASE NextPhase
  <2>1. \/ run.pc = "servers" /\ run' = [run EXCEPT !.pc = "orphans"]
        \/ run.pc = "orphans" /\ run' = [run EXCEPT !.pc = "incidents", !.todo = legacy]
        \/ run.pc = "incidents" /\ run' = [run EXCEPT !.pc = "sweeps", !.made = run.made \o run.kept]
        \/ run.pc = "sweeps" /\ run' = [run EXCEPT !.entry.outcome = "complete",
                                                   !.pc = "flush", !.then = "idle"]
    BY <1>1, <1>10 DEF NextPhase, Goto, Recorded, Command
  <2>2. /\ run.pc \in {"servers", "orphans", "incidents", "sweeps"}
        /\ run'.pc \in {"orphans", "incidents", "sweeps", "flush"}
        /\ run'.index = run.index /\ run'.sweep = run.sweep
        /\ run'.pc # "flush" => run'.entry = run.entry
        /\ run'.pc = "flush" => /\ run'.then = "idle"
                                /\ run'.entry = [run.entry EXCEPT !.outcome = "complete"]
    BY ZenonT(30), <1>1, <2>1 DEF Command
  <2>3. /\ run'.entry.created = run.entry.created /\ run'.entry.dropped = run.entry.dropped
        /\ run'.entry.resolved = run.entry.resolved
        /\ run'.entry.rolledBack = run.entry.rolledBack
        /\ run'.entry.sweeps = run.entry.sweeps
    BY <1>1, <2>2 DEF Entry
  <2>4. EntryNow(run').sweeps = EntryNow(run).sweeps
    BY <1>1, <2>2, <2>3, EntryNowSame
  <2>5. run'.pc # "flush" => EntryNow(run') = EntryNow(run)
    BY <2>2 DEF EntryNow
  <2>6. QED
    BY <1>1, <1>2, <2>2, <2>3, <2>4, <2>5 DEF Backfills, Phase
<1>11. CASE ResolveIncident
  <2>1. /\ run.pc = "incidents" /\ run'.pc = "note" /\ run'.index = run.index
        /\ run'.entry = run.entry /\ run'.sweep = run.sweep
    BY <1>1, <1>11 DEF ResolveIncident, Goto, Command
  <2>2. EntryNow(run') = EntryNow(run)
    BY <2>1 DEF EntryNow
  <2>3. QED
    BY <1>1, <1>2, <2>1, <2>2 DEF Backfills, Phase
<1>12. QED
  BY <1>3, <1>4, <1>5, <1>6, <1>7, <1>8, <1>9, <1>10, <1>11 DEF Working

\* A part of a part is a part.
LEMMA PartOfPart ==
  ASSUME NEW e \in Entry, NEW f \in Entry, NEW g \in Entry, Part(e, f), Part(f, g)
  PROVE  Part(e, g)
<1>1. /\ e.sweeps \in Seq(Sweep) /\ f.sweeps \in Seq(Sweep) /\ g.sweeps \in Seq(Sweep)
  BY DEF Entry
<1>2. Len(e.sweeps) \in Nat /\ Len(f.sweeps) \in Nat /\ Len(g.sweeps) \in Nat
  BY <1>1
<1>3. DOMAIN e.sweeps \subseteq DOMAIN f.sweeps
  BY <1>1, <1>2 DEF Part
<1>4. QED
  BY <1>2, <1>3 DEF Part

\* An entry is a part of itself.
LEMMA PartOfItself ==
  ASSUME NEW e \in Entry
  PROVE  Part(e, e)
<1>1. Len(e.sweeps) \in Nat
  BY DEF Entry
<1>2. QED
  BY <1>1 DEF Part

\* A flush, and an exception too, leaves the file with the entry in its place,
\* which tells what the command told; the command rests or goes on.
LEMMA WrittenIs ==
  ASSUME TypeInv, TypeInv', RecordInv, Flush \/ Abort
  PROVE  /\ run.pc \in Backfills /\ Phase(run) \notin Restoring
         /\ UNCHANGED <<db, source, push>>
         /\ mishaps' \in {mishaps, mishaps \cup {"unrecorded"}}
         /\ run.pc = "note" => "unrecorded" \in mishaps'
         /\ DOMAIN journal' = 1 .. run.index
         /\ \A i \in 1 .. run.index - 1 : i \in DOMAIN journal /\ journal'[i] = journal[i]
         /\ \A i \in DOMAIN journal : i \in 1 .. run.index
         /\ Facts(journal'[run.index]) = Facts(EntryNow(run))
         /\ run.index \in DOMAIN journal' /\ ~journal'[run.index].rolledBack
         /\ \/ run' = Idle
            \/ /\ run'.pc \in Backfills \ {"flush", "note"} /\ Phase(run') = Phase(run)
               /\ run'.index = run.index /\ run'.entry = run.entry
               /\ run'.sweep = run.sweep /\ run'.todo = run.todo
               /\ run'.made = run.made /\ run'.kept = run.kept
<1>1. /\ run \in Command /\ run' \in Command /\ journal \in Seq(Entry)
      /\ run.index \in 1 .. Len(journal) + 1
  <2>1. run.pc # "idle"
    BY DEF Flush, Abort
  <2>2. QED
    BY <2>1 DEF TypeInv, TypeOK, WhereInv
<1>2. run.pc \in Backfills /\ Phase(run) \notin Restoring
  BY <1>1 DEF Flush, Abort, Backfills, Phase, Restoring, Command, Counters
<1>3. /\ UNCHANGED <<db, source, push>>
      /\ mishaps' \in {mishaps, mishaps \cup {"unrecorded"}}
      /\ run.pc = "note" => "unrecorded" \in mishaps'
  BY DEF Flush, Abort, Keep, world
<1>4. run.index >= Len(journal) /\ ~run.entry.rolledBack
  BY <1>2 DEF RecordInv
<1>5. PICK outcome \in {"running", "complete", "aborted"} : WriteEntry(run, outcome)
  <2>1. run.entry.outcome \in {"running", "complete", "aborted"}
    BY <1>1 DEF Command, Entry
  <2>2. QED
    BY <2>1 DEF Flush, Abort
<1>6. run.pc # "idle"
  BY <1>2 DEF Backfills
<1>7. /\ journal' \in Seq(Entry) /\ Len(journal') = run.index
      /\ \A i \in 1 .. run.index - 1 : journal'[i] = journal[i]
      /\ journal'[run.index] = [EntryNow(run) EXCEPT !.outcome = outcome,
                                                     !.finished = Len(source)]
  BY <1>5, <1>6, WriteEntryType
<1>8. /\ DOMAIN journal' = 1 .. run.index /\ run.index \in DOMAIN journal'
      /\ \A i \in 1 .. run.index - 1 : i \in DOMAIN journal
      /\ \A i \in DOMAIN journal : i \in 1 .. run.index
  BY <1>1, <1>4, <1>7
<1>9. Facts(journal'[run.index]) = Facts(EntryNow(run)) /\ ~journal'[run.index].rolledBack
  <2>1. EntryNow(run) \in Entry /\ ~EntryNow(run).rolledBack
    BY <1>1, <1>4, EntryNowIs
  <2>2. QED
    BY <1>7, <2>1 DEF Facts, Entry
<1>10. \/ run' = Idle
       \/ /\ run'.pc \in Backfills \ {"flush", "note"} /\ Phase(run') = Phase(run)
          /\ run'.index = run.index /\ run'.entry = run.entry
          /\ run'.sweep = run.sweep /\ run'.todo = run.todo
          /\ run'.made = run.made /\ run'.kept = run.kept
  <2>1. CASE run' = Idle
    BY <2>1
  <2>2. CASE run' # Idle
    <3>1. run.pc = "flush" /\ run.then # "idle" /\ run' = [run EXCEPT !.pc = run.then]
      BY <2>2 DEF Flush, Abort
    <3>2. run'.pc = run.then /\ run.then \in {"servers", "orphans", "incidents", "batch"}
      BY <1>1, <3>1 DEF Command, Counters
    <3>3. QED
      BY <1>1, <3>1, <3>2 DEF Command, Backfills, Phase
  <2>3. QED
    BY <2>1, <2>2
<1>11. QED
  BY <1>2, <1>3, <1>7, <1>8, <1>9, <1>10

\* A step of a rollback that is no start and no end of it.
Unwinding ==
  \/ RestoreBatch \/ (RestoreBare /\ run' # Idle) \/ RestoreRest
  \/ CloseServerIncidents \/ DeleteServer \/ RestoreToken \/ ReopenIncident
  \/ NextRollbackPhase

\* Such a step leaves the file as it is, and a part of the entry to be undone.
LEMMA UnwindingIs ==
  ASSUME TypeInv, TypeInv', RecordInv, Unwinding
  PROVE  /\ run.pc \in Restoring /\ run'.pc \in Restoring
         /\ run'.index = run.index /\ run'.sweep = run.sweep
         /\ UNCHANGED <<journal, source, push, nextServer>>
         /\ mishaps' = mishaps \/ mishaps' = mishaps \cup {"late"}
         /\ Part(run'.entry, run.entry)
         /\ run'.pc # "restore" => run'.entry.sweeps = <<>>
         /\ run'.pc = "reopen" => run'.entry.created = {} /\ run'.entry.dropped = {}
<1>1. /\ run \in Command /\ run' \in Command /\ run.entry \in Entry /\ run'.entry \in Entry
      /\ run.entry.sweeps \in Seq(Sweep)
  BY DEF TypeInv, Command, Entry
<1>2. /\ UNCHANGED <<journal, source, push, nextServer>>
      /\ mishaps' = mishaps \/ mishaps' = mishaps \cup {"late"}
  BY DEF Unwinding, RestoreBatch, RestoreBare, RestoreRest, CloseServerIncidents,
         DeleteServer, RestoreToken, ReopenIncident, NextRollbackPhase, Keep, world, db
<1>3. CASE RestoreBatch
  <2>1. /\ run.pc = "restore" /\ run'.pc = "restore" /\ run'.index = run.index
        /\ run'.sweep = run.sweep /\ run'.entry = run.entry
    BY <1>1, <1>3 DEF RestoreBatch, Command
  <2>2. QED
    BY <1>1, <1>2, <2>1, PartOfItself DEF Restoring
<1>4. CASE RestoreBare /\ run' # Idle
  <2> DEFINE rest == Front(run.entry.sweeps)
             todo == LastMoved(rest)
  <2>1. /\ run.pc = "restore" /\ run.entry.sweeps # <<>>
        /\ run' = [run EXCEPT !.entry.sweeps = rest, !.todo = todo]
    BY <1>4 DEF RestoreBare
  <2> HIDE DEF todo
  <2>2. /\ rest \in Seq(Sweep) /\ Len(rest) <= Len(run.entry.sweeps)
        /\ \A k \in DOMAIN rest : rest[k] = run.entry.sweeps[k]
    <3>1. DOMAIN rest = 1 .. Len(run.entry.sweeps) - 1 /\ rest \in Seq(Sweep)
      BY <1>1, <2>1, LastMovedType
    <3>2. \A k \in DOMAIN rest : rest[k] = run.entry.sweeps[k]
      BY <1>1, <2>1, LastMovedType
    <3>3. Len(run.entry.sweeps) \in Nat /\ Len(run.entry.sweeps) # 0
      BY <1>1, <2>1
    <3> HIDE DEF rest
    <3>4. Len(rest) = Len(run.entry.sweeps) - 1
      BY <3>1, <3>3
    <3>5. QED
      BY <3>1, <3>2, <3>3, <3>4
  <2> HIDE DEF rest
  <2>3. /\ run'.pc = "restore" /\ run'.index = run.index /\ run'.sweep = run.sweep
        /\ run'.entry = [run.entry EXCEPT !.sweeps = rest]
    BY <1>1, <2>1 DEF Command
  <2>4. /\ run'.entry.created = run.entry.created /\ run'.entry.dropped = run.entry.dropped
        /\ run'.entry.resolved = run.entry.resolved /\ run'.entry.sweeps = rest
    BY <1>1, <2>3 DEF Entry
  <2>5. QED
    BY <1>2, <2>1, <2>2, <2>3, <2>4 DEF Part, Restoring
<1>5. CASE RestoreRest \/ CloseServerIncidents
  <2>1. /\ run.pc \in {"rest", "close"} /\ run'.pc \in {"rest", "close", "delete"}
        /\ run'.index = run.index /\ run'.sweep = run.sweep /\ run'.entry = run.entry
    BY <1>1, <1>5 DEF RestoreRest, CloseServerIncidents, Goto, Command
  <2>2. QED
    BY <1>1, <1>2, <2>1, PartOfItself DEF Restoring, RecordInv
<1>6. CASE DeleteServer
  <2>1. /\ run.pc = "delete"
        /\ run' = [run EXCEPT !.pc = "rest", !.entry.created = @ \ {Created}]
    BY <1>6 DEF DeleteServer
  <2>2. /\ run'.pc = "rest" /\ run'.index = run.index /\ run'.sweep = run.sweep
        /\ run'.entry = [run.entry EXCEPT !.created = @ \ {Created}]
    BY <1>1, <2>1 DEF Command
  <2>3. /\ run'.entry.created \subseteq run.entry.created
        /\ run'.entry.dropped = run.entry.dropped
        /\ run'.entry.resolved = run.entry.resolved
        /\ run'.entry.sweeps = run.entry.sweeps
    BY <1>1, <2>2 DEF Entry
  <2>4. QED
    BY <1>1, <1>2, <2>1, <2>2, <2>3, PartOfItself DEF Part, Restoring, RecordInv
<1>7. CASE RestoreToken
  <2>1. PICK d \in run.entry.dropped : run' = [run EXCEPT !.entry.dropped = @ \ {d}]
    BY <1>7, DroppedIs
  <2>2. /\ run.pc = "rest" /\ run'.pc = "rest" /\ run'.index = run.index
        /\ run'.sweep = run.sweep
        /\ run'.entry = [run.entry EXCEPT !.dropped = @ \ {d}]
    BY <1>1, <1>7, <2>1 DEF RestoreToken, Command
  <2>3. /\ run'.entry.dropped \subseteq run.entry.dropped
        /\ run'.entry.created = run.entry.created
        /\ run'.entry.resolved = run.entry.resolved
        /\ run'.entry.sweeps = run.entry.sweeps
    BY <1>1, <2>2 DEF Entry
  <2>4. QED
    BY <1>1, <1>2, <2>2, <2>3, PartOfItself DEF Part, Restoring, RecordInv
<1>8. CASE ReopenIncident
  <2>1. /\ run.pc = "reopen" /\ run'.pc = "reopen" /\ run'.index = run.index
        /\ run'.sweep = run.sweep
        /\ run'.entry = [run.entry EXCEPT !.resolved = @ \ {Min(@)}]
    BY <1>1, <1>8 DEF ReopenIncident, Command
  <2>2. /\ run'.entry.resolved \subseteq run.entry.resolved
        /\ run'.entry.created = run.entry.created
        /\ run'.entry.dropped = run.entry.dropped
        /\ run'.entry.sweeps = run.entry.sweeps
    BY <1>1, <2>1 DEF Entry
  <2>3. QED
    BY <1>1, <1>2, <2>1, <2>2, PartOfItself DEF Part, Restoring, RecordInv
<1>9. CASE NextRollbackPhase
  <2>1. /\ run'.index = run.index /\ run'.sweep = run.sweep /\ run'.entry = run.entry
        /\ \/ run.pc = "restore" /\ run.entry.sweeps = <<>> /\ run'.pc = "rest"
           \/ /\ run.pc = "rest" /\ run.entry.created = {} /\ run.entry.dropped = {}
              /\ run'.pc = "reopen"
    BY <1>1, <1>9 DEF NextRollbackPhase, Goto, Command
  <2>2. QED
    BY <1>1, <1>2, <2>1, PartOfItself DEF Restoring, RecordInv
<1>10. QED
  BY <1>3, <1>4, <1>5, <1>6, <1>7, <1>8, <1>9 DEF Unwinding

\* A command that ends without a word: a rollback that is done or that throws,
\* or a process that is killed.
Resting == Die \/ MarkRolledBack \/ (RestoreBare /\ run' = Idle)

\* The rollback takes the newest entry that is still applied.
LEMMA StartRollbackIs ==
  ASSUME TypeInv, StartRollback
  PROVE  /\ UNCHANGED <<db, source, push, journal, mishaps>>
         /\ run.pc = "idle" /\ run'.pc = "restore"
         /\ run'.index \in Applied /\ \A i \in Applied : i <= run'.index
         /\ run'.entry = journal[run'.index] /\ run'.todo = LastMoved(run'.entry.sweeps)
         /\ run'.sweep = NewSweep(0, {})
<1>1. /\ UNCHANGED <<db, source, push, journal, mishaps>>
      /\ run.pc = "idle" /\ Applied # {}
      /\ run' = [Idle EXCEPT !.pc = "restore", !.entry = journal[Max(Applied)],
                             !.index = Max(Applied),
                             !.todo = LastMoved(journal[Max(Applied)].sweeps)]
  BY DEF StartRollback, world
<1>2. Len(journal) \in Nat /\ Applied \in SUBSET (1 .. Len(journal))
  BY DEF TypeInv, TypeOK, Applied
<1>3. Max(Applied) \in Applied /\ \A i \in Applied : Max(Applied) >= i
  BY <1>1, <1>2, GreatestExists
<1>4. /\ run'.pc = "restore" /\ run'.index = Max(Applied)
      /\ run'.entry = journal[Max(Applied)]
      /\ run'.todo = LastMoved(journal[Max(Applied)].sweeps)
      /\ run'.sweep = NewSweep(0, {})
  BY <1>1 DEF Idle
<1>5. \A i \in Applied : i <= Max(Applied)
  BY <1>2, <1>3
<1>6. QED
  BY <1>1, <1>3, <1>4, <1>5

\* A backfill begins after the last entry, with nothing to tell.
LEMMA StartBackfillIs ==
  ASSUME TypeInv, StartBackfill
  PROVE  /\ UNCHANGED <<db, source, push, journal, mishaps>>
         /\ run.pc = "idle" /\ run'.pc = "flush" /\ run'.then = "servers"
         /\ run'.index = Len(journal) + 1 /\ run'.entry = NewEntry
         /\ run'.sweep = NewSweep(0, {}) /\ run'.made = <<>> /\ run'.kept = <<>>
BY DEF StartBackfill, world, Recorded, Idle

\* The command and its entry stay in step.
LEMMA RecordStep ==
  ASSUME TypeInv, TypeInv', RecordInv, [Next]_vars
  PROVE  RecordInv'
<1>1. /\ run \in Command /\ run' \in Command /\ journal \in Seq(Entry)
      /\ run.entry \in Entry /\ run'.entry \in Entry
  BY DEF TypeInv, TypeOK, Command
<1>2. /\ Backfills \cap Restoring = {} /\ "idle" \notin Backfills \cup Restoring
      /\ NewSweep(0, {}).moved = {} /\ NewSweep(0, {}).bare = {}
  BY DEF Backfills, Restoring, NewSweep
<1>3. CASE run' = Idle
  <2>1. /\ Idle.pc = "idle" /\ Phase(Idle) = "idle" /\ Idle.sweep = NewSweep(0, {})
    BY DEF Idle, Phase
  <2>2. QED
    BY <1>2, <1>3, <2>1 DEF RecordInv, Backfills, Restoring
<1>4. CASE Working
  <2>1. /\ run.pc \in Backfills \ {"flush"} /\ run'.pc \in Backfills
        /\ run'.index = run.index /\ UNCHANGED journal
        /\ run'.entry.rolledBack = run.entry.rolledBack
        /\ run'.pc # "flush" => Facts(EntryNow(run')) = Facts(EntryNow(run))
        /\ Phase(run') # "batch" => run'.sweep.moved = {} /\ run'.sweep.bare = {}
    BY <1>4, WorkingIs
  <2>2. /\ run'.index >= Len(journal') /\ ~run'.entry.rolledBack
        /\ run'.index \in DOMAIN journal' /\ ~journal'[run'.index].rolledBack
        /\ run'.pc # "flush" => Facts(EntryNow(run')) = Facts(journal'[run'.index])
    BY <2>1 DEF RecordInv
  <2>3. run'.pc \notin Restoring /\ run'.pc # "idle"
    BY <1>2, <2>1
  <2>4. run'.pc # "reopen"
    BY <2>3 DEF Restoring
  <2>5. QED
    BY <2>1, <2>2, <2>3, <2>4 DEF RecordInv
<1>5. CASE Flush /\ run' # Idle
  <2>1. /\ DOMAIN journal' = 1 .. run.index
        /\ Facts(journal'[run.index]) = Facts(EntryNow(run))
        /\ run.index \in DOMAIN journal' /\ ~journal'[run.index].rolledBack
        /\ run'.pc \in Backfills \ {"flush"} /\ Phase(run') = Phase(run)
        /\ run'.index = run.index /\ run'.entry = run.entry
        /\ run'.sweep = run.sweep /\ run.pc \in Backfills
    BY <1>5, WrittenIs
  <2>2. EntryNow(run') = EntryNow(run)
    BY <2>1 DEF EntryNow
  <2>3. Len(journal') <= run.index /\ journal' \in Seq(Entry)
    BY <1>1, <2>1 DEF TypeInv, TypeOK, Command
  <2>4. Len(journal') \in Nat /\ run.index \in Nat
    BY <1>1, <2>3 DEF Command
  <2>5. run'.index >= Len(journal') /\ ~run'.entry.rolledBack
    BY <2>1, <2>3, <2>4 DEF RecordInv
  <2>6. Facts(EntryNow(run')) = Facts(journal'[run'.index])
    BY <2>1, <2>2
  <2>7. run'.pc \notin Restoring /\ run'.pc # "idle"
    BY <1>2, <2>1
  <2>8. run'.pc # "reopen"
    BY <2>7 DEF Restoring
  <2>9. Phase(run') # "batch" => run'.sweep.moved = {} /\ run'.sweep.bare = {}
    BY <2>1 DEF RecordInv
  <2>10. QED
    BY <2>1, <2>5, <2>6, <2>7, <2>8, <2>9 DEF RecordInv
<1>6. CASE StartBackfill
  <2>1. /\ run'.pc = "flush" /\ run'.then = "servers" /\ UNCHANGED journal
        /\ run'.index = Len(journal) + 1 /\ run'.entry = NewEntry
        /\ run'.sweep = NewSweep(0, {})
    BY <1>6, StartBackfillIs
  <2>2. run'.index \notin DOMAIN journal /\ run'.index >= Len(journal)
    BY <1>1, <2>1
  <2>3. ~run'.entry.rolledBack /\ run'.sweep.moved = {} /\ run'.sweep.bare = {}
    BY <1>2, <2>1 DEF NewEntry
  <2>4. run'.index \notin DOMAIN journal' /\ run'.index >= Len(journal')
    BY <2>1, <2>2
  <2>5. run'.pc = "flush"
    BY <2>1
  <2>6. QED
    BY <2>3, <2>4, <2>5 DEF RecordInv, Backfills, Restoring
<1>7. CASE StartRollback
  <2>1. /\ run'.pc = "restore" /\ UNCHANGED journal /\ run'.sweep = NewSweep(0, {})
        /\ run'.index \in Applied /\ (\A i \in Applied : i <= run'.index)
        /\ run'.entry = journal[run'.index]
    BY <1>7, StartRollbackIs
  <2>2. Part(run'.entry, journal'[run'.index]) /\ Applied' = Applied
    BY <1>1, <2>1, PartOfItself DEF Applied
  <2>3. QED
    BY <1>2, <2>1, <2>2 DEF RecordInv, Backfills, Restoring
<1>8. CASE Unwinding
  <2>1. /\ run.pc \in Restoring /\ run'.pc \in Restoring
        /\ run'.index = run.index /\ run'.sweep = run.sweep /\ UNCHANGED journal
        /\ Part(run'.entry, run.entry)
        /\ run'.pc # "restore" => run'.entry.sweeps = <<>>
        /\ run'.pc = "reopen" => run'.entry.created = {} /\ run'.entry.dropped = {}
    BY <1>8, UnwindingIs
  <2>2. Applied' = Applied /\ run.index \in Applied
    BY <2>1 DEF Applied, RecordInv
  <2>3. journal[run.index] \in Entry
    BY <1>1, <2>2 DEF Applied
  <2>4. Part(run'.entry, journal[run.index])
    BY <1>1, <2>1, <2>3, PartOfPart DEF RecordInv
  <2>5. run'.sweep.moved = {} /\ run'.sweep.bare = {}
    BY <2>1 DEF RecordInv, Restoring, Phase
  <2>6. /\ run'.index \in Applied' /\ \A i \in Applied' : i <= run'.index
        /\ Part(run'.entry, journal'[run'.index])
    BY <2>1, <2>2, <2>4 DEF RecordInv
  <2>7. run'.pc \notin Backfills /\ run'.pc # "idle"
    BY <1>2, <2>1
  <2>8. QED
    BY <2>1, <2>5, <2>6, <2>7 DEF RecordInv
<1>9. CASE UNCHANGED <<run, journal>>
  <2>1. Applied' = Applied
    BY <1>9 DEF Applied
  <2>2. QED
    BY <1>9, <2>1 DEF RecordInv
<1>10. QED
  BY <1>3, <1>4, <1>5, <1>6, <1>7, <1>8, <1>9
     DEF Next, Backfilling, RollingBack, Working, Unwinding, Abort, Die, MarkRolledBack,
         StartPush, LandOnServer, ReconcileServer, LandOnMonitor, ReconcileMonitor,
         Detach, vars

\* What is told in a step goes on being told.
ServersTold == \A id : ToldServer(id) => ToldServer(id)'
DropsTold == \A m : ToldDrop(m) => ToldDrop(m)'
IncidentsTold == \A m : ToldIncident(m) => ToldIncident(m)'
BareTold == \A x : ToldBare(x) => ToldBare(x)'
SamplesTold == \A y : ToldSample(y) => ToldSample(y)'
StoryKept == ServersTold /\ DropsTold /\ IncidentsTold /\ BareTold /\ SamplesTold

\* A table that gets no further from what the first run found needs no more.
LEMMA StoryStays ==
  ASSUME mishaps \subseteq mishaps'
  PROVE
  /\ ServersStory /\ ServersTold /\ servers' \subseteq servers => ServersStory'
  /\ TokensStory /\ DropsTold /\ UNCHANGED token => TokensStory'
  /\ IncidentsStory /\ IncidentsTold /\ (legacy' = legacy \/ "pushed" \in mishaps')
       => IncidentsStory'
  /\ BareStory /\ BareTold /\ rows \subseteq rows' => BareStory'
  /\ SamplesStory /\ SamplesTold
       /\ (\A y \in samples' : y \in samples \/ y.reading \notin DOMAIN OwnerOf)
       => SamplesStory'
<1>1. ServersStory /\ ServersTold /\ servers' \subseteq servers => ServersStory'
  BY DEF ServersStory, ServersTold
<1>2. TokensStory /\ DropsTold /\ UNCHANGED token => TokensStory'
  BY DEF TokensStory, DropsTold
<1>3. IncidentsStory /\ IncidentsTold /\ (legacy' = legacy \/ "pushed" \in mishaps')
       => IncidentsStory'
  BY DEF IncidentsStory, IncidentsTold
<1>4. BareStory /\ BareTold /\ rows \subseteq rows' => BareStory'
  BY DEF BareStory, BareTold
<1>5. SamplesStory /\ SamplesTold
        /\ (\A y \in samples' : y \in samples \/ y.reading \notin DOMAIN OwnerOf)
        => SamplesStory'
  BY DEF SamplesStory, SamplesTold
<1>6. QED
  BY <1>1, <1>2, <1>3, <1>4, <1>5

\* A file that keeps its other entries keeps what they tell.
OthersKept == \A i \in Others : i \in Others' /\ Facts(journal'[i]) = Facts(journal[i])

\* The entry tells what the command told.
Covered(e) ==
  /\ run.pc # "note"
  /\ run.entry.created \subseteq e.created /\ run.entry.dropped \subseteq e.dropped
  /\ run.entry.resolved \subseteq e.resolved
  /\ \A x : SetsAside(EntryNow(run).sweeps, x) => SetsAside(e.sweeps, x)
  /\ \A y : Remembers(y) => Makes(e.sweeps, y)

\* Facts that are the same tell the same.
LEMMA SameFacts ==
  ASSUME NEW e, NEW f, Facts(e) = Facts(f)
  PROVE  /\ e.created = f.created /\ e.sweeps = f.sweeps
         /\ e.dropped = f.dropped /\ e.resolved = f.resolved
BY DEF Facts

\* What the other entries tell is told when they are kept.
LEMMA OthersTell ==
  ASSUME OthersKept
  PROVE  /\ \A id : (\E i \in Others : Names(journal[i], id)) => ToldServer(id)'
         /\ \A m : (\E i \in Others : DropOf(m) \in journal[i].dropped) => ToldDrop(m)'
         /\ \A m : (\E i \in Others : m \in journal[i].resolved) => ToldIncident(m)'
         /\ \A x : (\E i \in Others : SetsAside(journal[i].sweeps, x)) => ToldBare(x)'
         /\ \A y : (\E i \in Others : Makes(journal[i].sweeps, y)) => ToldSample(y)'
<1>1. \A i \in Others : /\ i \in Others'
                        /\ journal'[i].created = journal[i].created
                        /\ journal'[i].sweeps = journal[i].sweeps
                        /\ journal'[i].dropped = journal[i].dropped
                        /\ journal'[i].resolved = journal[i].resolved
  BY SameFacts DEF OthersKept
<1>2. \A id : (\E i \in Others : Names(journal[i], id)) => ToldServer(id)'
  BY <1>1 DEF ToldServer, Names
<1>3. \A m : (\E i \in Others : DropOf(m) \in journal[i].dropped) => ToldDrop(m)'
  BY <1>1 DEF ToldDrop, DropOf
<1>4. \A m : (\E i \in Others : m \in journal[i].resolved) => ToldIncident(m)'
  BY <1>1 DEF ToldIncident
<1>5. \A x : (\E i \in Others : SetsAside(journal[i].sweeps, x)) => ToldBare(x)'
  <2> SUFFICES ASSUME NEW x, NEW i \in Others, SetsAside(journal[i].sweeps, x)
               PROVE  \E j \in Others' : SetsAside(journal'[j].sweeps, x)
    BY DEF ToldBare
  <2>1. QED
    BY <1>1
<1>6. \A y : (\E i \in Others : Makes(journal[i].sweeps, y)) => ToldSample(y)'
  <2> SUFFICES ASSUME NEW y, NEW i \in Others, Makes(journal[i].sweeps, y)
               PROVE  \E j \in Others' : Makes(journal'[j].sweeps, y)
    BY DEF ToldSample
  <2>1. QED
    BY <1>1
<1>7. QED
  BY <1>2, <1>3, <1>4, <1>5, <1>6

\* A command that is written down may be forgotten.
LEMMA CoveredIsKept ==
  ASSUME OthersKept, NEW i \in Others', Covered(journal'[i])
  PROVE  StoryKept
<1> DEFINE e == journal'[i]
<1>1. ServersTold
  BY OthersTell DEF ServersTold, ToldServer, Names, Covered
<1>2. DropsTold
  BY OthersTell DEF DropsTold, ToldDrop, Covered
<1>3. IncidentsTold
  BY OthersTell DEF IncidentsTold, ToldIncident, Unnoted, Covered
<1>4. BareTold
  BY OthersTell DEF BareTold, ToldBare, Covered
<1>5. SamplesTold
  BY OthersTell DEF SamplesTold, ToldSample, Covered
<1>6. QED
  BY <1>1, <1>2, <1>3, <1>4, <1>5 DEF StoryKept

\* What the command tells is told when it goes on telling it.
LEMMA CommandTells ==
  ASSUME OthersKept
  PROVE  /\ run.entry.created \subseteq run'.entry.created => ServersTold
         /\ run.entry.dropped \subseteq run'.entry.dropped => DropsTold
         /\ /\ run.entry.resolved \subseteq run'.entry.resolved
            /\ \A m : Unnoted(m) => m \in run'.entry.resolved \/ Unnoted(m)'
            => IncidentsTold
         /\ (\A x : SetsAside(EntryNow(run).sweeps, x) => SetsAside(EntryNow(run').sweeps, x))
              => BareTold
         /\ (\A y : Remembers(y) => Remembers(y)') => SamplesTold
<1>1. run.entry.created \subseteq run'.entry.created => ServersTold
  BY OthersTell DEF ServersTold, ToldServer, Names
<1>2. run.entry.dropped \subseteq run'.entry.dropped => DropsTold
  BY OthersTell DEF DropsTold, ToldDrop, DropOf
<1>3. /\ run.entry.resolved \subseteq run'.entry.resolved
      /\ \A m : Unnoted(m) => m \in run'.entry.resolved \/ Unnoted(m)'
      => IncidentsTold
  BY OthersTell DEF IncidentsTold, ToldIncident
<1>4. (\A x : SetsAside(EntryNow(run).sweeps, x) => SetsAside(EntryNow(run').sweeps, x))
        => BareTold
  BY OthersTell DEF BareTold, ToldBare
<1>5. (\A y : Remembers(y) => Remembers(y)') => SamplesTold
  BY OthersTell DEF SamplesTold, ToldSample
<1>6. QED
  BY <1>1, <1>2, <1>3, <1>4, <1>5

\* A command that rests tells nothing.
LEMMA IdleTellsNothing ==
  /\ Idle.entry.created = {} /\ Idle.entry.dropped = {} /\ Idle.entry.resolved = {}
  /\ EntryNow(Idle) = NewEntry /\ NewEntry.sweeps = <<>> /\ Idle.pc = "idle"
  /\ Idle.index = 0
  /\ \A x : ~SetsAside(<<>>, x)
  /\ \A y : ~Makes(<<>>, y)
<1>1. /\ Idle.entry = NewEntry /\ Idle.sweep.moved = {} /\ Idle.sweep.bare = {}
      /\ Idle.pc = "idle" /\ Idle.index = 0
  BY DEF Idle, NewSweep
<1>2. QED
  BY <1>1 DEF EntryNow, NewEntry, SetsAside, Makes

\* Nothing is forgotten while the command and the file stay.
LEMMA StaysTells ==
  ASSUME UNCHANGED <<run, journal>>
  PROVE  StoryKept
<1>1. OthersKept
  BY DEF OthersKept, Others, Applied
<1>2. \A y : Remembers(y) => Remembers(y)'
  BY DEF Remembers, Owes
<1>3. \A m : Unnoted(m) => Unnoted(m)'
  BY DEF Unnoted
<1>4. QED
  BY <1>1, <1>2, <1>3, CommandTells DEF StoryKept

\* A backfill at work only adds to what its entry tells.
LEMMA WorkingTells ==
  ASSUME TypeInv, TypeInv', RecordInv, Working
  PROVE  StoryKept
<1>1. /\ run \in Command /\ run' \in Command
  BY DEF TypeInv
<1>2. /\ run.pc \in Backfills \ {"flush"} /\ run'.pc \in Backfills
      /\ run'.index = run.index /\ UNCHANGED journal
      /\ run.entry.created \subseteq run'.entry.created
      /\ run.entry.dropped \subseteq run'.entry.dropped
      /\ run.entry.resolved \subseteq run'.entry.resolved
      /\ ~SweepBatch => EntryNow(run').sweeps = EntryNow(run).sweeps
  BY WorkingIs
<1>3. OthersKept
  BY <1>2 DEF OthersKept, Others, Applied
<1>4. run.pc # "restore" /\ run'.pc # "restore"
  BY <1>2 DEF Backfills
<1>5. \A m : Unnoted(m) => m \in run'.entry.resolved
  <2>1. CASE NoteIncident
    <3>1. run' = [run EXCEPT !.entry.resolved = @ \cup {Min(run.todo)},
                             !.todo = @ \ {Min(run.todo)},
                             !.pc = "flush", !.then = "incidents"]
      BY <1>1, <2>1 DEF NoteIncident, Recorded, Command
    <3>2. run'.entry.resolved = run.entry.resolved \cup {Min(run.todo)}
      BY <1>1, <3>1 DEF Command, Entry
    <3>3. QED
      BY <3>2 DEF Unnoted
  <2>2. CASE ~NoteIncident
    <3>1. run.pc # "note"
      BY <2>2 DEF Working, CreateServer, UseServer, DropOrphan, ResolveIncident,
                  StartSweep, SweepBatch, EndSweep, NextPhase
    <3>2. QED
      BY <3>1 DEF Unnoted
  <2>3. QED
    BY <2>1, <2>2
<1>6. CASE ~SweepBatch
  <2>1. \A y : Remembers(y) => Remembers(y)'
    BY <1>2, <1>4, <1>6 DEF Remembers
  <2>2. QED
    BY <1>2, <1>3, <1>5, <1>6, <2>1, CommandTells DEF StoryKept
<1>7. CASE SweepBatch
  <2>1. /\ run'.entry = run.entry /\ run'.sweep.server = run.sweep.server
        /\ run.sweep.moved \subseteq run'.sweep.moved
        /\ run.sweep.bare \subseteq run'.sweep.bare
    BY <1>1, <1>7 DEF SweepBatch, Recorded, Command, Sweep
  <2>2. \A x : SetsAside(EntryNow(run).sweeps, x) => SetsAside(EntryNow(run').sweeps, x)
    BY <1>1, <2>1, EntryNowTells
  <2>3. \A y : Makes(EntryNow(run).sweeps, y) => Makes(EntryNow(run').sweeps, y)
    BY <1>1, <2>1, EntryNowTells
  <2>4. \A y : Remembers(y) => Remembers(y)'
    BY <1>4, <2>3 DEF Remembers
  <2>5. QED
    BY <1>2, <1>3, <1>5, <2>2, <2>4, CommandTells DEF StoryKept
<1>8. QED
  BY <1>6, <1>7

\* What the command told is told by the file, or still by the command, unless an
\* incident is left without a note.
LEMMA WrittenTells ==
  ASSUME TypeInv, TypeInv', RecordInv, Flush \/ Abort, "unrecorded" \notin mishaps'
  PROVE  StoryKept
<1>1. /\ run.pc \in Backfills \ {"note"} /\ DOMAIN journal' = 1 .. run.index
      /\ \A i \in 1 .. run.index - 1 : i \in DOMAIN journal /\ journal'[i] = journal[i]
      /\ \A i \in DOMAIN journal : i \in 1 .. run.index
      /\ Facts(journal'[run.index]) = Facts(EntryNow(run))
      /\ run.index \in DOMAIN journal' /\ ~journal'[run.index].rolledBack
      /\ \/ run' = Idle
         \/ /\ run'.pc \in Backfills \ {"flush"} /\ run'.index = run.index
            /\ run'.entry = run.entry /\ run'.sweep = run.sweep
  BY WrittenIs
<1>2. run \in Command /\ run.index \in Nat
  BY DEF TypeInv, Command
<1>3. \A i \in Others : i \in DOMAIN journal' /\ i # run.index /\ i # 0
                        /\ journal'[i] = journal[i] /\ ~journal[i].rolledBack
  BY <1>1, <1>2 DEF Others, Applied
<1>4. run'.index \in {0, run.index}
  BY <1>1, IdleTellsNothing
<1>5. OthersKept
  BY <1>3, <1>4 DEF OthersKept, Others, Applied
<1>6. run.pc # "restore"
  BY <1>1 DEF Backfills
<1>7. CASE run' = Idle
  <2>1. run.index \in Others'
    BY <1>1, <1>2, <1>7, IdleTellsNothing DEF Others, Applied
  <2>2. Covered(journal'[run.index])
    BY <1>1, <1>2, <1>6, SameFacts, EntryNowIs DEF Covered, Remembers
  <2>3. QED
    BY <1>5, <2>1, <2>2, CoveredIsKept
<1>8. CASE run' # Idle
  <2>1. /\ run'.entry = run.entry /\ run'.sweep = run.sweep
        /\ run'.pc \in Backfills \ {"flush"}
    BY <1>1, <1>8
  <2>2. EntryNow(run') = EntryNow(run) /\ run'.pc # "restore"
    BY <2>1 DEF EntryNow, Backfills
  <2>3. \A y : Remembers(y) => Remembers(y)'
    BY <1>6, <2>2 DEF Remembers
  <2>4. QED
    BY <1>1, <1>5, <2>1, <2>2, <2>3, CommandTells DEF StoryKept, Unnoted
<1>9. QED
  BY <1>7, <1>8

\* What a rollback remembers its entry in the file tells.
LEMMA RestoringCovered ==
  ASSUME TypeInv, RecordInv, run.pc \in Restoring
  PROVE  Covered(journal[run.index])
<1> DEFINE e == run.entry
           f == journal[run.index]
<1>1. /\ run \in Command /\ e \in Entry /\ e.sweeps \in Seq(Sweep)
      /\ f \in Entry /\ f.sweeps \in Seq(Sweep)
  <2>1. run \in Command /\ journal \in Seq(Entry) /\ run.index \in DOMAIN journal
    BY DEF TypeInv, TypeOK, WhereInv
  <2>2. e \in Entry /\ f \in Entry
    BY <2>1 DEF Command
  <2>3. QED
    BY <2>1, <2>2 DEF Entry
<1>2. Part(e, f)
  BY DEF RecordInv
<1>3. EntryNow(run) = e
  BY DEF RecordInv, EntryNow, Phase, Restoring
<1>4. DOMAIN e.sweeps \subseteq DOMAIN f.sweeps
  <2>1. Len(e.sweeps) \in Nat /\ Len(f.sweeps) \in Nat /\ Len(e.sweeps) <= Len(f.sweeps)
    BY <1>1, <1>2 DEF Part
  <2>2. QED
    BY <1>1, <2>1
<1> HIDE DEF e, f
<1>5. \A x : SetsAside(e.sweeps, x) => SetsAside(f.sweeps, x)
  BY <1>2, <1>4 DEF SetsAside, Part
<1>6. \A y : Makes(e.sweeps, y) => Makes(f.sweeps, y)
  BY <1>2, <1>4 DEF Makes, Part
<1>7. ASSUME NEW y, run.pc = "restore", Owes(y) PROVE Makes(e.sweeps, y)
  <2>1. PICK k \in DOMAIN e.sweeps :
          /\ y.server = e.sweeps[k].server
          /\ \E x \in IF k = Len(e.sweeps) THEN run.todo ELSE e.sweeps[k].moved :
               x.reading = y.reading
    BY <1>7 DEF Owes, e
  <2>2. e.sweeps # <<>>
    BY <2>1
  <2>3. run.todo \subseteq LastMoved(e.sweeps)
    BY <1>7 DEF TypeInv, WhereInv, e
  <2>4. LastMoved(e.sweeps) = e.sweeps[Len(e.sweeps)].moved
    BY <1>1, <2>2, LastMovedType
  <2>5. \E x \in e.sweeps[k].moved : x.reading = y.reading
    BY <2>1, <2>3, <2>4
  <2>6. QED
    BY <2>1, <2>5 DEF Makes
<1>8. \A y : Remembers(y) => Makes(f.sweeps, y)
  BY <1>3, <1>6, <1>7 DEF Remembers
<1>9. run.pc # "note"
  BY DEF Restoring
<1>10. QED
  BY <1>2, <1>3, <1>5, <1>8, <1>9 DEF Covered, Part, e, f

\* A command that ends without a word has told the file, or had nothing to tell.
LEMMA RestingTells ==
  ASSUME TypeInv, TypeInv', RecordInv, Resting, "unrecorded" \notin mishaps'
  PROVE  StoryKept
<1>1. /\ run \in Command /\ journal \in Seq(Entry) /\ run.index \in Nat
      /\ run.pc # "idle" /\ run' = Idle
  BY DEF TypeInv, TypeOK, Command, Resting, Die, MarkRolledBack, RestoreBare
<1>2. run'.index = 0 /\ 0 \notin DOMAIN journal
  BY <1>1, IdleTellsNothing
<1>3. CASE MarkRolledBack
  <2>1. /\ run.pc = "reopen" /\ run.entry.resolved = {}
        /\ journal' = [journal EXCEPT ![run.index].rolledBack = TRUE]
    BY <1>3 DEF MarkRolledBack
  <2>2. /\ run.entry.created = {} /\ run.entry.dropped = {} /\ EntryNow(run) = run.entry
        /\ run.entry.sweeps = <<>>
    BY <2>1 DEF RecordInv, EntryNow, Phase, Restoring
  <2>3. \A i \in DOMAIN journal : i # run.index => journal'[i] = journal[i]
    BY <1>1, <2>1
  <2>4. DOMAIN journal' = DOMAIN journal
    BY <2>1
  <2>5. OthersKept
    BY <1>2, <2>3, <2>4 DEF OthersKept, Others, Applied
  <2>6. \A y : ~Remembers(y)
    BY <2>1, <2>2, IdleTellsNothing DEF Remembers
  <2>7. \A x : ~SetsAside(EntryNow(run).sweeps, x)
    BY <2>2, IdleTellsNothing
  <2>8. QED
    BY <2>1, <2>2, <2>5, <2>6, <2>7, CommandTells DEF StoryKept, Unnoted
<1>4. CASE ~MarkRolledBack
  <2>1. UNCHANGED journal
    BY <1>4 DEF Resting, Die, RestoreBare
  <2>2. OthersKept
    BY <1>2, <2>1 DEF OthersKept, Others, Applied
  <2>3. CASE run.index \in Applied /\ Covered(journal[run.index])
    <3>1. run.index \in Others'
      BY <1>2, <2>1, <2>3 DEF Others, Applied
    <3>2. QED
      BY <2>1, <2>2, <2>3, <3>1, CoveredIsKept
  <2>4. CASE run.pc \in Restoring
    BY <2>3, <2>4, RestoringCovered DEF RecordInv
  <2>5. CASE run.pc \notin Restoring
    <3>1. run.pc \in Backfills /\ Die
      BY <1>1, <1>4, <2>5 DEF Command, Steps, Counters, Restoring, Backfills, Resting, RestoreBare
    <3>2. Facts(EntryNow(run)) = Facts(Written(run))
      <4>1. CASE run.pc = "flush"
        BY <3>1, <4>1 DEF Die, Unwritten
      <4>2. CASE run.pc # "flush"
        BY <3>1, <4>2 DEF RecordInv, Written
      <4>3. QED
        BY <4>1, <4>2
    <3>3. run.pc # "restore" /\ run.pc # "note"
      BY <2>5, <3>1 DEF Restoring, Die, Unwritten
    <3>4. Covered(Written(run))
      BY <1>1, <3>2, <3>3, SameFacts, EntryNowIs DEF Covered, Remembers
    <3>5. CASE run.index \in DOMAIN journal
      BY <2>3, <3>1, <3>4, <3>5 DEF RecordInv, Written, Applied
    <3>6. CASE run.index \notin DOMAIN journal
      <4>1. Covered(NewEntry)
        BY <3>4, <3>6 DEF Written
      <4>2. /\ run.entry.created = {} /\ run.entry.dropped = {} /\ run.entry.resolved = {}
            /\ \A x : ~SetsAside(EntryNow(run).sweeps, x)
            /\ \A y : ~Remembers(y)
        BY <4>1, IdleTellsNothing DEF Covered, NewEntry
      <4>3. QED
        BY <2>2, <3>3, <4>2, CommandTells DEF StoryKept, Unnoted
    <3>7. QED
      BY <3>5, <3>6
  <2>6. QED
    BY <2>4, <2>5
<1>5. QED
  BY <1>3, <1>4

\* A command that starts takes nothing from the file, or takes it over.
LEMMA StartTells ==
  ASSUME TypeInv, RecordInv, StartBackfill \/ StartRollback
  PROVE  StoryKept
<1>1. /\ run = Idle /\ UNCHANGED journal /\ journal \in Seq(Entry)
      /\ \/ run'.index = Len(journal) + 1 /\ run'.pc = "flush"
         \/ StartRollback
  BY StartBackfillIs, StartRollbackIs DEF RecordInv, TypeInv, TypeOK
<1>2. /\ run.entry.created = {} /\ run.entry.dropped = {} /\ run.entry.resolved = {}
      /\ \A x : ~SetsAside(EntryNow(run).sweeps, x)
      /\ (\A y : ~Remembers(y)) /\ \A m : ~Unnoted(m)
  BY <1>1, IdleTellsNothing DEF Remembers, Unnoted
<1>3. CASE run'.index = Len(journal) + 1
  <2>1. run'.index \notin DOMAIN journal
    BY <1>1, <1>3
  <2>2. OthersKept
    BY <1>1, <2>1 DEF OthersKept, Others, Applied
  <2>3. QED
    BY <1>2, <2>2, CommandTells DEF StoryKept
<1>4. CASE StartRollback
  <2> DEFINE e == journal[run'.index]
  <2>1. /\ run'.pc = "restore" /\ run'.index \in Applied
        /\ run'.entry = e /\ run'.todo = LastMoved(e.sweeps)
        /\ run'.sweep = NewSweep(0, {})
    BY <1>4, StartRollbackIs
  <2>2. e \in Entry /\ e.sweeps \in Seq(Sweep)
    <3>1. run'.index \in DOMAIN journal
      BY <2>1 DEF Applied
    <3>2. e \in Entry
      BY <1>1, <3>1
    <3>3. QED
      BY <3>2 DEF Entry
  <2>3. EntryNow(run') = e
    BY <2>1 DEF EntryNow, NewSweep
  <2>4. ASSUME NEW y, Makes(e.sweeps, y) PROVE Remembers(y)'
    <3>1. PICK k \in DOMAIN e.sweeps :
            y.server = e.sweeps[k].server /\ \E x \in e.sweeps[k].moved : x.reading = y.reading
      BY <2>4 DEF Makes
    <3>2. e.sweeps # <<>>
      BY <3>1
    <3>3. LastMoved(e.sweeps) = e.sweeps[Len(e.sweeps)].moved
      BY <2>2, <3>2, LastMovedType
    <3>4. QED
      BY <2>1, <3>1, <3>3 DEF Remembers, Owes
  <2> HIDE DEF e
  <2>5. \A i \in Others : i \in Others' \/ journal[i] = e
    BY <1>1, <2>1 DEF Others, Applied, e
  <2>6. ServersTold
    BY <1>1, <1>2, <2>1, <2>5 DEF ServersTold, ToldServer, Names
  <2>7. DropsTold
    BY <1>1, <1>2, <2>1, <2>5 DEF DropsTold, ToldDrop, DropOf
  <2>8. IncidentsTold
    BY <1>1, <1>2, <2>1, <2>5 DEF IncidentsTold, ToldIncident
  <2>9. BareTold
    BY <1>1, <1>2, <2>3, <2>5 DEF BareTold, ToldBare
  <2>10. SamplesTold
    BY <1>1, <1>2, <2>4, <2>5 DEF SamplesTold, ToldSample
  <2>11. QED
    BY <2>6, <2>7, <2>8, <2>9, <2>10 DEF StoryKept
<1>5. QED
  BY <1>1, <1>3, <1>4

\* A rollback forgets no more than it undoes.
LEMMA UnwindingTells ==
  ASSUME TypeInv, TypeInv', RecordInv, Unwinding
  PROVE  /\ run'.entry.created = run.entry.created => ServersTold
         /\ run'.entry.dropped = run.entry.dropped => DropsTold
         /\ run'.entry.resolved = run.entry.resolved => IncidentsTold
         /\ run'.entry.sweeps = run.entry.sweeps => BareTold
         /\ run'.entry.sweeps = run.entry.sweeps /\ run'.todo = run.todo => SamplesTold
<1>1. /\ run.pc \in Restoring /\ run'.pc \in Restoring
      /\ run'.index = run.index /\ run'.sweep = run.sweep /\ UNCHANGED journal
      /\ run'.pc # "restore" => run'.entry.sweeps = <<>>
  BY UnwindingIs
<1>2. OthersKept
  BY <1>1 DEF OthersKept, Others, Applied
<1>3. EntryNow(run) = run.entry /\ EntryNow(run') = run'.entry
  BY <1>1 DEF RecordInv, EntryNow, Phase, Restoring
<1>4. run'.entry.sweeps = run.entry.sweeps =>
        \A x : SetsAside(EntryNow(run).sweeps, x) => SetsAside(EntryNow(run').sweeps, x)
  BY <1>3
<1>5. ASSUME run'.entry.sweeps = run.entry.sweeps, run'.todo = run.todo, NEW y, Remembers(y)
      PROVE  Remembers(y)'
  <2>1. run.entry.sweeps # <<>>
    BY <1>3, <1>5, IdleTellsNothing DEF Remembers, Owes
  <2>2. run.pc = "restore" /\ run'.pc = "restore"
    BY <1>1, <1>5, <2>1 DEF RecordInv
  <2>3. Owes(y) => Owes(y)'
    BY <1>5 DEF Owes
  <2>4. QED
    BY <1>5, <2>2, <2>3 DEF Remembers
<1>6. \A m : ~Unnoted(m)
  BY <1>1 DEF Unnoted, Restoring
<1>7. QED
  BY <1>2, <1>4, <1>5, <1>6, CommandTells

Story == ServersStory /\ TokensStory /\ IncidentsStory /\ BareStory /\ SamplesStory

\* Restored samples go out, and rows come in.
LEMMA RestoreSamplesIs ==
  ASSUME NEW owner, NEW server, RestoreSamples(owner, server)
  PROVE  rows \subseteq rows' /\ samples' \subseteq samples
BY DEF RestoreSamples, SamplesWithout

\* Where no table gets further from what was found the story goes on.
LEMMA QuietStory ==
  ASSUME Story, StoryKept, mishaps \subseteq mishaps', servers' \subseteq servers,
         UNCHANGED token, legacy' = legacy \/ "pushed" \in mishaps', rows \subseteq rows',
         \A y \in samples' : y \in samples \/ y.reading \notin DOMAIN OwnerOf
  PROVE  Story'
BY StoryStays DEF Story, StoryKept

\* A backfill tells what it does to a table as it does it.
LEMMA WorkingStory ==
  ASSUME BackInv, BackInv', RecordInv, Story, Working
  PROVE  Story'
<1>1. TypeInv /\ TypeInv' /\ run \in Command /\ run' \in Command
  BY DEF BackInv, TypeInv
<1>2. StoryKept /\ UNCHANGED mishaps
  BY <1>1, WorkingTells, WorkingIs
<1>3. PICK box : Agree(box)
  BY DEF BackInv, BoxInv
<1>4. CASE CreateServer
  <2> DEFINE g == First(run.live)
             s == [id |-> nextServer, token |-> g.token, monitors |-> g.monitors]
             new == [id |-> nextServer, token |-> g.token]
  <2>1. /\ servers' = servers \cup {new}
        /\ run' = [run EXCEPT !.entry.created = @ \cup {s}, !.live = @ \ {g},
                              !.made = Append(@, s), !.pc = "flush", !.then = "servers"]
        /\ UNCHANGED <<token, legacy, rows, samples>>
    BY <1>1, <1>4 DEF CreateServer, Recorded, Command
  <2>2. new.id = nextServer /\ s.id = nextServer
    OBVIOUS
  <2> HIDE DEF s, g, new
  <2>3. run'.entry.created = run.entry.created \cup {s}
    BY <1>1, <2>1 DEF Command, Entry
  <2>4. ServersStory'
    <3> SUFFICES ASSUME NEW t \in servers' PROVE ToldServer(t.id)'
      BY DEF ServersStory
    <3>1. CASE t \in servers
      BY <1>2, <3>1 DEF ServersStory, Story, StoryKept, ServersTold
    <3>2. CASE t = new
      BY <2>2, <2>3, <3>2 DEF ToldServer, Names
    <3>3. QED
      BY <2>1, <3>1, <3>2
  <2>5. QED
    BY <1>2, <2>1, <2>4, StoryStays DEF Story, StoryKept
<1>5. CASE DropOrphan
  <2> DEFINE g == First(run.orphans)
             gone == {[monitor |-> m, token |-> g.token] : m \in g.monitors}
  <2>1. /\ token' = [m \in Monitors |-> IF m \in g.monitors THEN NoToken ELSE token[m]]
        /\ run.orphans # {}
        /\ run' = [run EXCEPT !.entry.dropped = @ \cup gone, !.orphans = @ \ {g},
                              !.pc = "flush", !.then = "orphans"]
        /\ UNCHANGED <<servers, legacy, rows, samples>>
    BY <1>1, <1>5 DEF DropOrphan, Recorded, Command
  <2>2. g \in run.orphans
    BY <1>1, <2>1, FirstExists DEF Command, TypeInv, WhereInv
  <2>3. \A m \in g.monitors : TokenOf[m] = g.token
    BY <1>3, <2>2 DEF Agree, CommandOK, GroupOK
  <2>4. \A m \in g.monitors : DropOf(m) \in gone
    BY <2>3 DEF DropOf
  <2> HIDE DEF gone, g
  <2>5. run'.entry.dropped = run.entry.dropped \cup gone
    BY <1>1, <2>1 DEF Command, Entry
  <2>6. \A m \in g.monitors : ToldDrop(m)'
    BY <2>4, <2>5 DEF ToldDrop, DropOf
  <2>7. TokensStory'
    BY <1>2, <2>1, <2>6 DEF TokensStory, Story, StoryKept, DropsTold
  <2>8. QED
    BY <1>2, <2>1, <2>7, StoryStays DEF Story, StoryKept
<1>6. CASE ResolveIncident
  <2> DEFINE m == Min(run.todo)
  <2>1. /\ legacy' = legacy \ {m} /\ run' = [run EXCEPT !.pc = "note"]
        /\ UNCHANGED <<servers, token, rows, samples, mishaps>>
    BY <1>6 DEF ResolveIncident, Goto, Keep
  <2>2. \A n : n = m => Unnoted(n)'
    BY <1>1, <2>1 DEF Unnoted, Command
  <2> HIDE DEF m
  <2>3. IncidentsStory'
    <3> SUFFICES ASSUME "pushed" \notin mishaps', NEW n \in LegacyOpen, n \notin legacy'
                 PROVE  ToldIncident(n)'
      BY DEF IncidentsStory
    <3>1. CASE n = m
      BY <2>2, <3>1 DEF ToldIncident
    <3>2. CASE n # m
      BY <1>2, <2>1, <3>2 DEF IncidentsStory, Story, StoryKept, IncidentsTold
    <3>3. QED
      BY <3>1, <3>2
  <2>4. QED
    BY <1>2, <2>1, <2>3, StoryStays DEF Story, StoryKept
<1>7. CASE SweepBatch
  <2> DEFINE batch == BatchRows(run.sweep, run.from)
             moved == {x \in batch : Convertible(x)}
             new == {AsSample(x, run.sweep.server) : x \in moved}
  <2>1. /\ rows' = rows \ batch /\ samples' = samples \cup new
        /\ run' = [run EXCEPT !.sweep.moved = @ \cup moved,
                              !.sweep.bare = @ \cup (batch \ moved),
                              !.from = @ + Batch, !.pc = "flush", !.then = "batch"]
        /\ UNCHANGED <<servers, token, legacy>>
    BY <1>1, <1>7 DEF SweepBatch, Recorded, Command
  <2>2. \A x \in batch : x.reading \in Bare => x \notin moved
    BY DEF Convertible
  <2>3. \A y \in new : \E x \in moved : y.server = run.sweep.server /\ x.reading = y.reading
    BY DEF AsSample
  <2> HIDE DEF batch, moved, new
  <2>4. /\ run'.sweep.moved = run.sweep.moved \cup moved
        /\ run'.sweep.bare = run.sweep.bare \cup (batch \ moved)
        /\ run'.sweep.server = run.sweep.server
        /\ run'.pc = "flush"
    BY <1>1, <2>1 DEF Command, Sweep
  <2>5. \A r \in Bare : AsFound(r).reading = r
    BY DEF AsFound
  <2>6. BareStory'
    <3> SUFFICES ASSUME NEW r \in Bare, AsFound(r) \notin rows' PROVE ToldBare(AsFound(r))'
      BY DEF BareStory, AsFound
    <3>1. CASE AsFound(r) \notin rows
      BY <1>2, <3>1 DEF Story, StoryKept, BareStory, BareTold
    <3>2. CASE AsFound(r) \in rows
      <4>1. AsFound(r) \in run'.sweep.bare
        BY <2>1, <2>2, <2>4, <2>5, <3>2
      <4>2. SetsAside(EntryNow(run').sweeps, AsFound(r))
        BY <1>1, <4>1, EntryNowTells
      <4>3. QED
        BY <4>2 DEF ToldBare, AsFound
    <3>3. QED
      BY <3>1, <3>2
  <2>7. SamplesStory'
    <3> SUFFICES ASSUME NEW y \in samples', y.reading \in DOMAIN OwnerOf PROVE ToldSample(y)'
      BY DEF SamplesStory
    <3>1. CASE y \in samples
      BY <1>2, <3>1 DEF Story, StoryKept, SamplesStory, SamplesTold
    <3>2. CASE y \in new
      <4>1. Makes(EntryNow(run').sweeps, y)
        BY <1>1, <2>3, <2>4, <3>2, EntryNowTells
      <4>2. Remembers(y)'
        BY <2>4, <4>1 DEF Remembers
      <4>3. QED
        BY <4>2 DEF ToldSample
    <3>3. QED
      BY <2>1, <3>1, <3>2
  <2>8. QED
    BY <1>2, <2>1, <2>6, <2>7, StoryStays DEF Story, StoryKept
<1>8. CASE UseServer \/ NoteIncident \/ StartSweep \/ EndSweep \/ NextPhase
  <2>1. UNCHANGED <<servers, token, legacy, rows, samples>>
    BY <1>8 DEF UseServer, NoteIncident, StartSweep, EndSweep, NextPhase, db
  <2>2. QED
    BY <1>2, <2>1, QuietStory
<1>9. QED
  BY <1>4, <1>5, <1>6, <1>7, <1>8 DEF Working

\* A rollback undoes in a table what it no longer tells.
LEMMA UnwindingStory ==
  ASSUME BackInv, BackInv', RecordInv, Story, Unwinding
  PROVE  Story'
<1>1. /\ TypeInv /\ TypeInv' /\ run \in Command /\ run' \in Command
      /\ run.entry \in Entry /\ run.entry.sweeps \in Seq(Sweep)
  BY DEF BackInv, TypeInv, Command, Entry
<1>2. PICK box : Agree(box)
  BY DEF BackInv, BoxInv
<1>3. /\ mishaps \subseteq mishaps'
      /\ run'.entry.created = run.entry.created => ServersTold
      /\ run'.entry.dropped = run.entry.dropped => DropsTold
      /\ run'.entry.resolved = run.entry.resolved => IncidentsTold
      /\ run'.entry.sweeps = run.entry.sweeps => BareTold
      /\ run'.entry.sweeps = run.entry.sweeps /\ run'.todo = run.todo => SamplesTold
  BY <1>1, UnwindingTells, UnwindingIs
<1>4. /\ Others' = Others /\ UNCHANGED journal /\ run.sweep = run'.sweep
      /\ run.pc \in Restoring /\ run'.pc \in Restoring
  BY <1>1, UnwindingIs DEF Others, Applied
<1>5. EntryNow(run) = run.entry /\ EntryNow(run') = run'.entry
  BY <1>4 DEF RecordInv, EntryNow, Phase, Restoring
<1>6. CASE RestoreBatch
  <2> DEFINE sw == Last(run.entry.sweeps)
             first == FirstBatch(run.todo)
             owner == [r \in {x.reading : x \in first} |-> MonitorFor(sw, r)]
             back == {x \in samples : x.server = sw.server /\ x.reading \in DOMAIN owner}
  <2>1. /\ RestoreSamples(owner, sw.server) /\ run.pc = "restore"
        /\ run.entry.sweeps # <<>>
        /\ run' = [run EXCEPT !.todo = @ \ first]
        /\ UNCHANGED <<servers, token, legacy>>
    BY <1>6 DEF RestoreBatch
  <2>2. samples' = samples \ back /\ rows \subseteq rows'
    BY <2>1, RestoreSamplesIs DEF RestoreSamples, SamplesWithout
  <2>3. sw = run.entry.sweeps[Len(run.entry.sweeps)]
    BY <1>1, <2>1, LastMovedType
  <2>4. \A y \in samples' : y.server = sw.server => \A x \in first : x.reading # y.reading
    BY <2>2
  <2> HIDE DEF sw, first, owner, back
  <2>5. /\ run'.entry = run.entry /\ run'.todo = run.todo \ first /\ run'.pc = "restore"
    BY <1>1, <2>1 DEF Command
  <2>6. ASSUME NEW y \in samples', Owes(y) PROVE Owes(y)'
    <3>1. PICK k \in DOMAIN run.entry.sweeps :
            /\ y.server = run.entry.sweeps[k].server
            /\ \E x \in IF k = Len(run.entry.sweeps) THEN run.todo
                        ELSE run.entry.sweeps[k].moved : x.reading = y.reading
      BY <2>6 DEF Owes
    <3>2. CASE k = Len(run.entry.sweeps)
      BY <2>3, <2>4, <2>5, <3>1, <3>2 DEF Owes
    <3>3. CASE k # Len(run.entry.sweeps)
      BY <2>5, <3>1, <3>3 DEF Owes
    <3>4. QED
      BY <3>2, <3>3
  <2>7. SamplesStory'
    <3> SUFFICES ASSUME NEW y \in samples', y.reading \in DOMAIN OwnerOf PROVE ToldSample(y)'
      BY DEF SamplesStory
    <3>1. ToldSample(y)
      BY <2>2 DEF Story, SamplesStory
    <3>2. CASE \E i \in Others : Makes(journal[i].sweeps, y)
      BY <1>4, <3>2 DEF ToldSample
    <3>3. CASE Remembers(y)
      BY <2>1, <2>5, <2>6, <3>3 DEF ToldSample, Remembers
    <3>4. QED
      BY <3>1, <3>2, <3>3 DEF ToldSample
  <2>8. QED
    BY <1>3, <2>1, <2>2, <2>5, <2>7, StoryStays DEF Story
<1>7. CASE RestoreBare /\ run' # Idle
  <2> DEFINE sweeps == run.entry.sweeps
             rest == Front(sweeps)
             todo == LastMoved(rest)
  <2>1. /\ run.pc = "restore" /\ sweeps # <<>> /\ run.todo = {}
        /\ rows' = rows \cup Last(sweeps).bare
        /\ run' = [run EXCEPT !.entry.sweeps = rest, !.todo = todo]
        /\ UNCHANGED <<samples, servers, token, legacy>>
    BY <1>7 DEF RestoreBare
  <2>2. /\ Last(sweeps) = sweeps[Len(sweeps)] /\ Len(sweeps) \in Nat \ {0}
        /\ DOMAIN rest = 1 .. Len(sweeps) - 1 /\ rest \in Seq(Sweep)
        /\ \A k \in DOMAIN rest : rest[k] = sweeps[k]
        /\ DOMAIN sweeps = 1 .. Len(sweeps)
    BY <1>1, <2>1, LastMovedType
  <2>3. \A k \in DOMAIN sweeps : k = Len(sweeps) \/ (k \in DOMAIN rest /\ rest[k] = sweeps[k])
    BY <2>2
  <2>4. rest # <<>> => todo = rest[Len(rest)].moved
    BY <2>2, LastMovedType
  <2> HIDE DEF rest, todo
  <2>5. /\ run'.pc = "restore" /\ run'.entry.created = run.entry.created
        /\ run'.entry.dropped = run.entry.dropped
        /\ run'.entry.resolved = run.entry.resolved
        /\ run'.entry.sweeps = rest /\ run'.todo = todo
    BY <1>1, <2>1 DEF Command, Entry
  <2>6. BareStory'
    <3> SUFFICES ASSUME NEW r \in Bare, AsFound(r) \notin rows' PROVE ToldBare(AsFound(r))'
      BY DEF BareStory, AsFound
    <3>1. ToldBare(AsFound(r)) /\ AsFound(r) \notin Last(sweeps).bare
      BY <2>1 DEF Story, BareStory
    <3>2. CASE \E i \in Others : SetsAside(journal[i].sweeps, AsFound(r))
      BY <1>4, <3>2 DEF ToldBare, AsFound
    <3>3. CASE SetsAside(sweeps, AsFound(r))
      <4>1. SetsAside(rest, AsFound(r))
        BY <2>2, <2>3, <3>1, <3>3 DEF SetsAside
      <4>2. SetsAside(EntryNow(run').sweeps, AsFound(r))
        BY <1>5, <2>5, <4>1
      <4>3. QED
        BY <4>2 DEF ToldBare, AsFound
    <3>4. QED
      BY <1>5, <3>1, <3>2, <3>3 DEF ToldBare
  <2>7. ASSUME NEW y, Owes(y) PROVE Owes(y)'
    <3>1. PICK k \in DOMAIN sweeps :
            /\ y.server = sweeps[k].server
            /\ \E x \in IF k = Len(sweeps) THEN run.todo ELSE sweeps[k].moved :
                 x.reading = y.reading
      BY <2>7 DEF Owes
    <3>2. k \in DOMAIN rest /\ rest[k] = sweeps[k]
      BY <2>1, <2>3, <3>1
    <3>3. k # Len(sweeps)
      BY <2>1, <3>1
    <3>4. rest # <<>>
      BY <3>2
    <3>5. \E x \in IF k = Len(rest) THEN todo ELSE rest[k].moved : x.reading = y.reading
      BY <2>4, <3>1, <3>2, <3>3, <3>4
    <3>6. QED
      BY <2>5, <3>1, <3>2, <3>5 DEF Owes
  <2>8. SamplesTold
    <3>1. \A y : Remembers(y) => Remembers(y)'
      BY <2>1, <2>5, <2>7 DEF Remembers
    <3>2. \A y : (\E i \in Others : Makes(journal[i].sweeps, y)) => ToldSample(y)'
      BY <1>4 DEF ToldSample
    <3>3. QED
      BY <3>1, <3>2 DEF SamplesTold, ToldSample
  <2>9. QED
    BY <1>3, <2>1, <2>5, <2>6, <2>8, StoryStays DEF Story
<1>8. CASE RestoreRest \/ CloseServerIncidents \/ NextRollbackPhase
  <2>1. /\ run'.entry = run.entry /\ run'.todo = run.todo
        /\ UNCHANGED <<servers, token, legacy>>
    BY <1>1, <1>8 DEF RestoreRest, CloseServerIncidents, NextRollbackPhase, Goto, Command, db
  <2>2. rows \subseteq rows' /\ samples' \subseteq samples
    BY <1>8, RestoreSamplesIs DEF RestoreRest, CloseServerIncidents, NextRollbackPhase, db
  <2>3. StoryKept
    BY <1>3, <2>1 DEF StoryKept
  <2>4. QED
    BY <1>3, <2>1, <2>2, <2>3, QuietStory
<1>9. CASE DeleteServer
  <2>1. /\ run.pc = "delete" /\ servers' = {s \in servers : s.id # Created.id}
        /\ run' = [run EXCEPT !.pc = "rest", !.entry.created = @ \ {Created}]
        /\ UNCHANGED <<token, legacy, rows, samples>>
    BY <1>9 DEF DeleteServer
  <2>2. /\ run'.entry.created = run.entry.created \ {Created}
        /\ run'.entry.dropped = run.entry.dropped
        /\ run'.entry.resolved = run.entry.resolved
        /\ run'.entry.sweeps = run.entry.sweeps /\ run'.todo = run.todo
    BY <1>1, <2>1 DEF Command, Entry
  <2>3. ServersStory'
    <3> SUFFICES ASSUME NEW s \in servers' PROVE ToldServer(s.id)'
      BY DEF ServersStory
    <3>1. s \in servers /\ s.id # Created.id /\ ToldServer(s.id)
      BY <2>1 DEF Story, ServersStory
    <3>2. CASE \E i \in Others : Names(journal[i], s.id)
      BY <1>4, <3>2 DEF ToldServer, Names
    <3>3. CASE Names(run.entry, s.id)
      BY <2>2, <3>1, <3>3 DEF ToldServer, Names
    <3>4. QED
      BY <3>1, <3>2, <3>3 DEF ToldServer
  <2>4. QED
    BY <1>3, <2>1, <2>2, <2>3, StoryStays DEF Story
<1>10. CASE RestoreToken
  <2>1. PICK d \in run.entry.dropped :
          /\ token' = [token EXCEPT ![d.monitor] = d.token]
          /\ run' = [run EXCEPT !.entry.dropped = @ \ {d}]
    BY <1>1, <1>10, DroppedIs
  <2>2. /\ UNCHANGED <<servers, legacy, rows, samples>>
        /\ d \in [monitor: Monitors, token: Tokens] /\ TokenOf[d.monitor] = d.token
        /\ token \in [Monitors -> Tokens \cup {NoToken}]
    BY <1>1, <1>2, <1>10, <2>1 DEF RestoreToken, Entry, Agree, CommandOK, EntryOK, TypeInv, TypeOK
  <2>3. /\ run'.entry.dropped = run.entry.dropped \ {d}
        /\ run'.entry.created = run.entry.created
        /\ run'.entry.resolved = run.entry.resolved
        /\ run'.entry.sweeps = run.entry.sweeps /\ run'.todo = run.todo
    BY <1>1, <2>1 DEF Command, Entry
  <2>4. TokensStory'
    <3> SUFFICES ASSUME NEW m \in Monitors, token'[m] # TokenOf[m] PROVE ToldDrop(m)'
      BY DEF TokensStory
    <3>1. m # d.monitor /\ token'[m] = token[m]
      BY <2>1, <2>2
    <3>2. ToldDrop(m)
      BY <3>1 DEF Story, TokensStory
    <3>3. CASE \E i \in Others : DropOf(m) \in journal[i].dropped
      BY <1>4, <3>3 DEF ToldDrop, DropOf
    <3>4. CASE DropOf(m) \in run.entry.dropped
      <4>1. DropOf(m) # d
        BY <3>1 DEF DropOf
      <4>2. QED
        BY <2>3, <3>4, <4>1 DEF ToldDrop, DropOf
    <3>5. QED
      BY <3>2, <3>3, <3>4 DEF ToldDrop
  <2>5. QED
    BY <1>3, <2>2, <2>3, <2>4, StoryStays DEF Story
<1>11. CASE ReopenIncident
  <2> DEFINE m == Min(run.entry.resolved)
  <2>1. /\ legacy' = legacy \cup {m}
        /\ run' = [run EXCEPT !.entry.resolved = @ \ {m}]
        /\ UNCHANGED <<servers, token, rows, samples>>
    BY <1>11 DEF ReopenIncident
  <2> HIDE DEF m
  <2>2. /\ run'.entry.resolved = run.entry.resolved \ {m}
        /\ run'.entry.created = run.entry.created
        /\ run'.entry.dropped = run.entry.dropped
        /\ run'.entry.sweeps = run.entry.sweeps /\ run'.todo = run.todo
    BY <1>1, <2>1 DEF Command, Entry
  <2>3. IncidentsStory'
    <3> SUFFICES ASSUME "pushed" \notin mishaps', NEW n \in LegacyOpen, n \notin legacy'
                 PROVE  ToldIncident(n)'
      BY DEF IncidentsStory
    <3>1. n # m /\ ToldIncident(n)
      BY <1>3, <2>1 DEF Story, IncidentsStory
    <3>2. ~Unnoted(n)
      BY <1>4 DEF Unnoted, Restoring
    <3>3. QED
      BY <1>4, <2>2, <3>1, <3>2 DEF ToldIncident
  <2>4. QED
    BY <1>3, <2>1, <2>2, <2>3, StoryStays DEF Story
<1>12. QED
  BY <1>6, <1>7, <1>8, <1>9, <1>10, <1>11 DEF Unwinding

\* What went wrong stays wrong.
LEMMA MishapsGrow == [Next]_vars => mishaps \subseteq mishaps'
BY DEF Next, Backfilling, RollingBack, Flush, StartBackfill, CreateServer, UseServer,
       DropOrphan, ResolveIncident, NoteIncident, StartSweep, SweepBatch, EndSweep,
       NextPhase, Abort, StartRollback, RestoreBatch, RestoreBare, RestoreRest,
       CloseServerIncidents, DeleteServer, RestoreToken, ReopenIncident,
       NextRollbackPhase, MarkRolledBack, Die, StartPush, LandOnServer,
       ReconcileServer, LandOnMonitor, ReconcileMonitor, Detach, vars, Keep

\* The journal goes on being the whole story.
LEMMA StoryStep ==
  ASSUME BackInv, BackInv', OnceInv, RecordInv, StoryInv, [Next]_vars
  PROVE  StoryInv'
<1> SUFFICES ASSUME "unrecorded" \notin mishaps'
             PROVE  Story'
  BY DEF StoryInv, Story
<1>1. TypeInv /\ TypeInv'
  BY DEF BackInv
<1>2. Story /\ mishaps \subseteq mishaps'
  BY MishapsGrow DEF StoryInv, Story
<1>3. CASE Working
  BY <1>2, <1>3, WorkingStory
<1>4. CASE Unwinding
  BY <1>2, <1>4, UnwindingStory
<1>5. CASE Flush \/ Abort \/ Resting \/ StartBackfill \/ StartRollback
  <2>1. StoryKept
    BY <1>1, <1>5, WrittenTells, RestingTells, StartTells
  <2>2. UNCHANGED <<servers, token, legacy, rows, samples>>
    <3>1. CASE RestoreBare /\ run' = Idle
      <4> DEFINE rest == Front(run.entry.sweeps)
                 todo == LastMoved(rest)
      <4>1. /\ run \in Command /\ run.pc = "restore"
            /\ UNCHANGED <<servers, token, legacy, samples>>
            /\ UNCHANGED rows \/ run' = [run EXCEPT !.entry.sweeps = rest, !.todo = todo]
        BY <1>1, <3>1 DEF RestoreBare, TypeInv
      <4> HIDE DEF rest, todo
      <4>2. run' = [run EXCEPT !.entry.sweeps = rest, !.todo = todo] => run'.pc = "restore"
        BY <4>1 DEF Command
      <4>3. QED
        BY <3>1, <4>1, <4>2, IdleTellsNothing
    <3>2. CASE Flush \/ Abort \/ Die \/ MarkRolledBack \/ StartBackfill \/ StartRollback
      BY <3>2 DEF Flush, Abort, Die, MarkRolledBack, StartBackfill, StartRollback, db
    <3>3. QED
      BY <1>5, <3>1, <3>2 DEF Resting
  <2>3. QED
    BY <1>2, <2>1, <2>2, QuietStory
<1>6. CASE \/ (\E t \in Tokens : StartPush(t)) \/ Lands \/ Reconciles
           \/ (\E m \in Monitors : Detach(m)) \/ UNCHANGED vars
  <2>1. /\ UNCHANGED <<run, journal, servers, token>> /\ rows \subseteq rows'
        /\ legacy' = legacy \/ "pushed" \in mishaps'
    <3>1. CASE Reconciles
      BY <1>1, <3>1, ReconcileIs
    <3>2. CASE ~Reconciles
      BY <1>6, <3>2 DEF StartPush, Lands, LandOnMonitor, LandOnServer, Detach, vars, db
    <3>3. QED
      BY <3>1, <3>2
  <2>2. \A y \in samples' : y \in samples \/ y.reading \notin DOMAIN OwnerOf
    <3>1. CASE UNCHANGED samples
      BY <3>1
    <3>2. CASE LandOnServer
      <4>1. /\ samples' = samples \cup {[reading |-> push.reading, server |-> push.server]}
            /\ push.pc = "server"
        BY <3>2 DEF LandOnServer
      <4>2. OwnerOf \in Seq(Monitors) /\ push.reading > Len(OwnerOf)
        BY <4>1, BackfillAssumption DEF OnceInv, Carrying
      <4>3. push.reading \notin DOMAIN OwnerOf
        BY <4>2
      <4>4. QED
        BY <4>1, <4>3
    <3>3. QED
      BY <1>1, <1>6, <3>1, <3>2, ReconcileIs
         DEF StartPush, Lands, LandOnMonitor, Detach, vars, db
  <2>3. StoryKept
    BY <2>1, StaysTells
  <2>4. QED
    BY <1>2, <2>1, <2>2, <2>3, QuietStory
<1>7. QED
  BY <1>3, <1>4, <1>5, <1>6
     DEF Next, Backfilling, RollingBack, Working, Unwinding, Resting, Lands, Reconciles

\* The servers of a list, as the list changes.
LEMMA ListedServers ==
  /\ \A s \in Seq(Server), c \in Server : ServerIds(Append(s, c)) = ServerIds(s) \cup {c.id}
  /\ \A s \in Seq(Server) : s # <<>> =>
       Head(s).id \in ServerIds(s) /\ ServerIds(Tail(s)) \subseteq ServerIds(s)
  /\ \A s, t \in Seq(Server) : ServerIds(s \o t) \subseteq ServerIds(s) \cup ServerIds(t)
<1>1. ASSUME NEW s \in Seq(Server), NEW c \in Server
      PROVE  ServerIds(Append(s, c)) = ServerIds(s) \cup {c.id}
  <2> DEFINE longer == Append(s, c)
  <2>1. /\ DOMAIN longer = 1 .. Len(s) + 1 /\ longer[Len(s) + 1] = c /\ Len(s) \in Nat
        /\ DOMAIN s = 1 .. Len(s) /\ \A k \in DOMAIN s : longer[k] = s[k]
    OBVIOUS
  <2> HIDE DEF longer
  <2>2. /\ \A k \in DOMAIN longer : k \in DOMAIN s \/ k = Len(s) + 1
        /\ Len(s) + 1 \in DOMAIN longer /\ \A k \in DOMAIN s : k \in DOMAIN longer
    BY <2>1
  <2>3. ServerIds(longer) = ServerIds(s) \cup {c.id}
    BY <2>1, <2>2 DEF ServerIds
  <2>4. QED
    BY <2>3 DEF longer
<1>2. ASSUME NEW s \in Seq(Server), s # <<>>
      PROVE  Head(s).id \in ServerIds(s) /\ ServerIds(Tail(s)) \subseteq ServerIds(s)
  <2> DEFINE rest == Tail(s)
  <2>1. /\ Head(s) = s[1] /\ 1 \in DOMAIN s
        /\ \A k \in DOMAIN rest : k + 1 \in DOMAIN s /\ rest[k] = s[k + 1]
    BY <1>2
  <2> HIDE DEF rest
  <2>2. ServerIds(rest) \subseteq ServerIds(s)
    BY <2>1 DEF ServerIds
  <2>3. QED
    BY <2>1, <2>2 DEF ServerIds, rest
<1>3. ASSUME NEW s \in Seq(Server), NEW t \in Seq(Server)
      PROVE  ServerIds(s \o t) \subseteq ServerIds(s) \cup ServerIds(t)
  <2> DEFINE both == s \o t
  <2>1. /\ Len(s) \in Nat /\ Len(t) \in Nat /\ DOMAIN both = 1 .. Len(s) + Len(t)
        /\ DOMAIN s = 1 .. Len(s) /\ DOMAIN t = 1 .. Len(t)
    OBVIOUS
  <2>2. \A k \in DOMAIN both : both[k] = IF k <= Len(s) THEN s[k] ELSE t[k - Len(s)]
    OBVIOUS
  <2> HIDE DEF both
  <2>3. \A k \in DOMAIN both : \/ k \in DOMAIN s /\ both[k] = s[k]
                               \/ k - Len(s) \in DOMAIN t /\ both[k] = t[k - Len(s)]
    BY <2>1, <2>2
  <2>4. \A k \in DOMAIN both : both[k].id \in ServerIds(s) \cup ServerIds(t)
    BY <2>3 DEF ServerIds
  <2>5. QED
    BY <2>4 DEF ServerIds, both
<1>4. QED
  BY <1>1, <1>2, <1>3

\* What each step of a backfill does to the command, as far as it is new.
LEMMA WorkingDoes ==
  ASSUME TypeInv, TypeInv', RecordInv, Working
  PROVE  /\ \/ CreateServer
            \/ UNCHANGED <<servers, nextServer>> /\ run'.entry.created = run.entry.created
         /\ \/ ResolveIncident \/ NoteIncident
            \/ /\ UNCHANGED legacy /\ run'.entry.resolved = run.entry.resolved
               /\ Phase(run') \in {"incidents", "note"} => run'.todo = legacy
         /\ \/ run'.entry.sweeps = run.entry.sweeps
            \/ run'.entry.sweeps = EntryNow(run).sweeps
         /\ \/ SweepBatch
            \/ UNCHANGED <<rows, samples>>
         /\ \/ run'.sweep.moved = {} /\ run'.sweep.bare = {}
            \/ SweepBatch
            \/ run'.sweep = run.sweep
         /\ \/ run'.sweep.server \in {0, run.sweep.server}
            \/ StartSweep /\ run'.sweep.server \in Ahead(run)
         /\ Phase(run') = "batch" =>
              \/ Phase(run) = "batch" /\ run'.sweep.server = run.sweep.server
              \/ run'.sweep.server \in Ahead(run)
         /\ \/ Ahead(run') \subseteq Ahead(run)
            \/ CreateServer /\ Ahead(run') \subseteq Ahead(run) \cup {nextServer}
            \/ UseServer /\ Ahead(run') \subseteq Ahead(run) \cup {First(run.live).existing}
<1>1. /\ run \in Command /\ run' \in Command
      /\ run.made \in Seq(Server) /\ run.kept \in Seq(Server)
  BY DEF TypeInv, Command, Server
<1>2. CASE CreateServer
  <2> DEFINE g == First(run.live)
             s == [id |-> nextServer, token |-> g.token, monitors |-> g.monitors]
  <2>1. /\ run' = [run EXCEPT !.entry.created = @ \cup {s}, !.live = @ \ {g},
                              !.made = Append(@, s), !.pc = "flush", !.then = "servers"]
        /\ UNCHANGED <<legacy, rows, samples>> /\ run.live # {}
    BY <1>1, <1>2 DEF CreateServer, Recorded, Command
  <2>2. s \in Server /\ s.id = nextServer
    <3>1. g \in run.live
      BY <1>1, <2>1, FirstExists DEF Command, TypeInv, WhereInv
    <3>2. g \in TokenGroup /\ nextServer \in Nat
      BY <1>1, <3>1 DEF Command, TypeInv, TypeOK
    <3>3. QED
      BY <3>2 DEF Server, TokenGroup
  <2> HIDE DEF g, s
  <2>3. /\ run'.pc = "flush" /\ run'.then = "servers" /\ run'.sweep = run.sweep
        /\ run'.made = Append(run.made, s) /\ run'.kept = run.kept
        /\ run'.entry = [run.entry EXCEPT !.created = @ \cup {s}]
    BY <1>1, <2>1 DEF Command
  <2>4. /\ run'.entry.sweeps = run.entry.sweeps /\ run'.entry.resolved = run.entry.resolved
    BY <1>1, <2>3 DEF Command, Entry
  <2>5. Ahead(run') \subseteq Ahead(run) \cup {nextServer}
    BY <1>1, <2>2, <2>3, ListedServers DEF Ahead
  <2>6. QED
    BY <1>2, <2>1, <2>3, <2>4, <2>5 DEF Phase
<1>3. CASE UseServer
  <2> DEFINE g == First(run.live)
             s == [id |-> g.existing, token |-> g.token, monitors |-> g.monitors]
  <2>1. /\ run.pc = "servers" /\ run' = [run EXCEPT !.live = @ \ {g}, !.kept = Append(@, s)]
        /\ UNCHANGED <<servers, nextServer, legacy, rows, samples>> /\ run.live # {}
    BY <1>3 DEF UseServer
  <2>2. s \in Server /\ s.id = g.existing
    <3>1. g \in run.live
      BY <1>1, <2>1, FirstExists DEF Command, TypeInv, WhereInv
    <3>2. g \in TokenGroup
      BY <1>1, <3>1 DEF Command
    <3>3. QED
      BY <3>2 DEF Server, TokenGroup
  <2> HIDE DEF s
  <2>3. /\ run'.pc = "servers" /\ run'.sweep = run.sweep /\ run'.entry = run.entry
        /\ run'.made = run.made /\ run'.kept = Append(run.kept, s)
    BY <1>1, <2>1 DEF Command
  <2>4. Ahead(run') \subseteq Ahead(run) \cup {g.existing}
    BY <1>1, <2>2, <2>3, ListedServers DEF Ahead
  <2>5. QED
    BY <1>3, <2>1, <2>3, <2>4 DEF Phase
<1>4. CASE DropOrphan
  <2> DEFINE g == First(run.orphans)
             gone == {[monitor |-> m, token |-> g.token] : m \in g.monitors}
  <2>1. /\ run' = [run EXCEPT !.entry.dropped = @ \cup gone, !.orphans = @ \ {g},
                              !.pc = "flush", !.then = "orphans"]
        /\ UNCHANGED <<servers, nextServer, legacy, rows, samples>>
    BY <1>1, <1>4 DEF DropOrphan, Recorded, Command
  <2> HIDE DEF g, gone
  <2>2. /\ run'.pc = "flush" /\ run'.then = "orphans" /\ run'.sweep = run.sweep
        /\ run'.made = run.made /\ run'.kept = run.kept
        /\ run'.entry = [run.entry EXCEPT !.dropped = @ \cup gone]
    BY <1>1, <2>1 DEF Command
  <2>3. /\ run'.entry.sweeps = run.entry.sweeps /\ run'.entry.resolved = run.entry.resolved
        /\ run'.entry.created = run.entry.created
    BY <1>1, <2>2 DEF Command, Entry
  <2>4. QED
    BY <2>1, <2>2, <2>3 DEF Phase, Ahead
<1>5. CASE NoteIncident
  <2> DEFINE m == Min(run.todo)
  <2>1. /\ run' = [run EXCEPT !.entry.resolved = @ \cup {m}, !.todo = @ \ {m},
                              !.pc = "flush", !.then = "incidents"]
        /\ UNCHANGED <<servers, nextServer, rows, samples>>
    BY <1>1, <1>5 DEF NoteIncident, Recorded, Command, db
  <2> HIDE DEF m
  <2>2. /\ run'.pc = "flush" /\ run'.then = "incidents" /\ run'.sweep = run.sweep
        /\ run'.made = run.made /\ run'.kept = run.kept
        /\ run'.entry = [run.entry EXCEPT !.resolved = @ \cup {m}]
    BY <1>1, <2>1 DEF Command
  <2>3. run'.entry.sweeps = run.entry.sweeps /\ run'.entry.created = run.entry.created
    BY <1>1, <2>2 DEF Command, Entry
  <2>4. QED
    BY <1>5, <2>1, <2>2, <2>3 DEF Phase, Ahead
<1>6. CASE StartSweep
  <2>1. /\ run'.pc \in {"sweeps", "batch"} /\ run'.entry = run.entry
        /\ run.made # <<>> /\ run'.made = Tail(run.made) /\ run'.kept = run.kept
        /\ run'.sweep = NewSweep(Head(run.made).id, Head(run.made).monitors)
        /\ UNCHANGED <<servers, nextServer, legacy, rows, samples>>
    BY <1>1, <1>6 DEF StartSweep, Command, db
  <2>2. /\ run'.sweep.server = Head(run.made).id
        /\ run'.sweep.moved = {} /\ run'.sweep.bare = {}
    BY <2>1 DEF NewSweep
  <2>3. Head(run.made).id \in Ahead(run) /\ Ahead(run') \subseteq Ahead(run)
    BY <1>1, <2>1, ListedServers DEF Ahead
  <2>4. QED
    BY <1>6, <2>1, <2>2, <2>3 DEF Phase
<1>7. CASE SweepBatch
  <2>1. /\ run.pc = "batch" /\ run'.pc = "flush" /\ run'.then = "batch"
        /\ run'.entry = run.entry /\ run'.sweep.server = run.sweep.server
        /\ run'.made = run.made /\ run'.kept = run.kept
        /\ UNCHANGED <<servers, nextServer, legacy>>
    BY <1>1, <1>7 DEF SweepBatch, Recorded, Command, Sweep
  <2>2. QED
    BY <1>7, <2>1 DEF Phase, Ahead
<1>8. CASE EndSweep
  <2>1. /\ run'.pc = "sweeps" /\ run'.entry = EntryNow(run)
        /\ run'.sweep = NewSweep(0, {})
        /\ run'.made = run.made /\ run'.kept = run.kept
        /\ UNCHANGED <<servers, nextServer, legacy, rows, samples>>
    BY <1>1, <1>8 DEF EndSweep, Command, db
  <2>2. QED
    BY <1>1, <2>1, EntryNowIs DEF Phase, Ahead, NewSweep
<1>9. CASE NextPhase
  <2> DEFINE all == run.made \o run.kept
  <2>1. /\ UNCHANGED <<servers, nextServer, legacy, rows, samples>>
        /\ \/ run' = [run EXCEPT !.pc = "orphans"]
           \/ run' = [run EXCEPT !.pc = "incidents", !.todo = legacy]
           \/ run' = [run EXCEPT !.pc = "sweeps", !.made = all]
           \/ run' = [run EXCEPT !.entry.outcome = "complete", !.pc = "flush", !.then = "idle"]
    BY <1>1, <1>9 DEF NextPhase, Goto, Recorded, Command, db
  <2>2. ServerIds(all) \subseteq Ahead(run)
    BY <1>1, ListedServers DEF Ahead
  <2> HIDE DEF all
  <2>3. /\ run'.pc \in {"orphans", "incidents", "sweeps", "flush"}
        /\ run'.pc = "flush" => run'.then = "idle"
        /\ run'.pc = "incidents" => run'.todo = legacy
        /\ run'.made \in {run.made, all} /\ run'.kept = run.kept /\ run'.sweep = run.sweep
        /\ \/ run'.entry = run.entry
           \/ run'.entry = [run.entry EXCEPT !.outcome = "complete"]
    BY <1>1, <2>1 DEF Command
  <2>4. /\ run'.entry.sweeps = run.entry.sweeps /\ run'.entry.resolved = run.entry.resolved
        /\ run'.entry.created = run.entry.created
    BY <1>1, <2>3 DEF Command, Entry
  <2>5. Ahead(run') \subseteq Ahead(run)
    BY <2>2, <2>3 DEF Ahead
  <2>6. QED
    BY <2>1, <2>3, <2>4, <2>5 DEF Phase
<1>10. CASE ResolveIncident
  <2>1. /\ run'.pc = "note" /\ run'.entry = run.entry /\ run'.sweep = run.sweep
        /\ run'.made = run.made /\ run'.kept = run.kept
        /\ UNCHANGED <<servers, nextServer, rows, samples>>
    BY <1>1, <1>10 DEF ResolveIncident, Goto, Command
  <2>2. QED
    BY <1>10, <2>1 DEF Phase, Ahead
<1>11. QED
  BY <1>2, <1>3, <1>4, <1>5, <1>6, <1>7, <1>8, <1>9, <1>10 DEF Working

\* What a command that ends without a word leaves in the file is what was there.
LEMMA RestingIs ==
  ASSUME TypeInv, Resting
  PROVE  /\ run' = Idle /\ UNCHANGED <<db, source, push>> /\ DOMAIN journal' = DOMAIN journal
         /\ \A i \in DOMAIN journal : Facts(journal'[i]) = Facts(journal[i])
<1>1. /\ run \in Command /\ journal \in Seq(Entry)
  BY DEF TypeInv, TypeOK
<1>2. CASE RestoreBare /\ run' = Idle
  <2> DEFINE rest == Front(run.entry.sweeps)
             todo == LastMoved(rest)
  <2>1. /\ run.pc = "restore" /\ UNCHANGED <<journal, source, push>>
        /\ UNCHANGED <<samples, servers, nextServer, token, attached, legacy, hot>>
        /\ UNCHANGED rows \/ run' = [run EXCEPT !.entry.sweeps = rest, !.todo = todo]
    BY <1>2 DEF RestoreBare, Keep, world
  <2> HIDE DEF rest, todo
  <2>2. run' = [run EXCEPT !.entry.sweeps = rest, !.todo = todo] => run'.pc = "restore"
    BY <1>1, <2>1 DEF Command
  <2>3. QED
    BY <1>2, <2>1, <2>2, IdleTellsNothing DEF db
<1>3. CASE Die
  BY <1>3 DEF Die, world
<1>4. CASE MarkRolledBack
  <2>1. /\ run' = Idle /\ UNCHANGED <<db, source, push>>
        /\ journal' = [journal EXCEPT ![run.index].rolledBack = TRUE]
    BY <1>4 DEF MarkRolledBack, Keep, world
  <2>2. \A i \in DOMAIN journal : journal[i] \in Entry
    BY <1>1
  <2>3. QED
    BY <1>1, <2>1, <2>2 DEF Entry, Facts
<1>5. QED
  BY <1>2, <1>3, <1>4 DEF Resting

\* Only incidents found open are resolved, so only those are opened again.
LEMMA LegacyStep ==
  ASSUME TypeInv, TypeInv', RecordInv, LegacyInv, [Next]_vars
  PROVE  LegacyInv'
<1> SUFFICES ASSUME "pushed" \notin mishaps', AsOpened
             PROVE  AsOpened'
  BY MishapsGrow DEF LegacyInv
<1>1. /\ run \in Command /\ run' \in Command /\ journal \in Seq(Entry)
  BY DEF TypeInv, TypeOK
<1>2. Phase(Idle) = "idle" /\ Idle.entry.resolved = {}
  BY IdleTellsNothing DEF Phase
<1>3. CASE Flush \/ Abort
  <2>1. /\ UNCHANGED legacy
        /\ DOMAIN journal' = 1 .. run.index
        /\ \A i \in 1 .. run.index - 1 : i \in DOMAIN journal /\ journal'[i] = journal[i]
        /\ Facts(journal'[run.index]) = Facts(EntryNow(run))
        /\ \/ run' = Idle
           \/ Phase(run') = Phase(run) /\ run'.entry = run.entry /\ run'.todo = run.todo
    BY <1>3, WrittenIs DEF db
  <2>2. journal'[run.index].resolved = run.entry.resolved
    BY <1>1, <2>1, SameFacts, EntryNowIs
  <2>3. \A i \in DOMAIN journal' : i = run.index \/ i \in 1 .. run.index - 1
    BY <1>1, <2>1 DEF Command
  <2>4. \A i \in DOMAIN journal' : journal'[i].resolved \subseteq LegacyOpen
    BY <2>1, <2>2, <2>3 DEF AsOpened
  <2>5. QED
    BY <1>2, <2>1, <2>4 DEF AsOpened
<1>4. CASE Resting
  <2>1. /\ run' = Idle /\ UNCHANGED legacy /\ DOMAIN journal' = DOMAIN journal
        /\ \A i \in DOMAIN journal : journal'[i].resolved = journal[i].resolved
    BY <1>4, RestingIs, SameFacts DEF db
  <2>2. QED
    BY <1>2, <2>1 DEF AsOpened
<1>5. CASE ResolveIncident
  <2>1. /\ run.pc = "incidents" /\ legacy' \subseteq legacy
        /\ run' = [run EXCEPT !.pc = "note"] /\ UNCHANGED journal
    BY <1>5 DEF ResolveIncident, Goto
  <2>2. run'.entry = run.entry /\ run'.todo = run.todo
    BY <1>1, <2>1 DEF Command
  <2>3. QED
    BY <2>1, <2>2 DEF AsOpened, Phase
<1>6. CASE NoteIncident
  <2> DEFINE m == Min(run.todo)
  <2>1. /\ run.pc = "note" /\ run.todo # {} /\ UNCHANGED <<legacy, journal>>
        /\ run' = [run EXCEPT !.entry.resolved = @ \cup {m}, !.todo = @ \ {m},
                              !.pc = "flush", !.then = "incidents"]
    BY <1>1, <1>6 DEF NoteIncident, Recorded, Command, db, TypeInv, WhereInv
  <2>2. run.todo \subseteq LegacyOpen
    BY <2>1 DEF AsOpened, Phase
  <2>3. m \in run.todo
    <3>1. run.todo \in SUBSET Nat
      BY <2>2, BackfillAssumption
    <3>2. QED
      BY <2>1, <3>1, LeastExists
  <2> HIDE DEF m
  <2>4. /\ run'.entry.resolved = run.entry.resolved \cup {m}
        /\ run'.todo = run.todo \ {m}
    BY <1>1, <2>1 DEF Command, Entry
  <2>5. QED
    BY <2>1, <2>2, <2>3, <2>4 DEF AsOpened
<1>7. CASE StartBackfill
  <2>1. /\ UNCHANGED <<legacy, journal>> /\ run'.entry = NewEntry
        /\ run'.pc = "flush" /\ run'.then = "servers"
    BY <1>7, StartBackfillIs DEF db
  <2>2. QED
    BY <2>1 DEF AsOpened, NewEntry, Phase
<1>8. CASE StartRollback
  <2>1. /\ UNCHANGED <<legacy, journal>> /\ run'.entry = journal[run'.index]
        /\ run'.pc = "restore" /\ run'.index \in DOMAIN journal
    BY <1>8, StartRollbackIs DEF db, Applied
  <2>2. QED
    BY <2>1 DEF AsOpened, Phase
<1>9. CASE Unwinding
  <2>1. /\ UNCHANGED journal /\ run'.pc \in Restoring
        /\ run'.entry.resolved \subseteq run.entry.resolved
    BY <1>9, UnwindingIs DEF Part
  <2>2. legacy' \subseteq LegacyOpen
    <3>1. CASE ReopenIncident
      <4>1. /\ legacy' = legacy \cup {Min(run.entry.resolved)} /\ run.entry.resolved # {}
            /\ run.entry.resolved \subseteq LegacyOpen
        BY <3>1 DEF ReopenIncident, AsOpened
      <4>2. run.entry.resolved \in SUBSET Nat
        BY <4>1, BackfillAssumption
      <4>3. Min(run.entry.resolved) \in run.entry.resolved
        BY <4>1, <4>2, LeastExists
      <4>4. QED
        BY <4>1, <4>3 DEF AsOpened
    <3>2. CASE ~ReopenIncident
      <4>1. UNCHANGED legacy
        BY <1>9, <3>2 DEF Unwinding, RestoreBatch, RestoreBare, RestoreRest,
             CloseServerIncidents, DeleteServer, RestoreToken, NextRollbackPhase, db
      <4>2. QED
        BY <4>1 DEF AsOpened
    <3>3. QED
      BY <3>1, <3>2
  <2>3. Phase(run') \notin {"incidents", "note"}
    BY <2>1 DEF Phase, Restoring
  <2>4. QED
    BY <2>1, <2>2, <2>3 DEF AsOpened
<1>10. CASE Working /\ ~ResolveIncident /\ ~NoteIncident
  <2>1. /\ UNCHANGED <<legacy, journal>> /\ run'.entry.resolved = run.entry.resolved
        /\ Phase(run') \in {"incidents", "note"} => run'.todo = legacy
    BY <1>10, WorkingIs, WorkingDoes
  <2>2. QED
    BY <2>1 DEF AsOpened
<1>11. CASE UNCHANGED <<run, journal, legacy>>
  BY <1>11 DEF AsOpened
<1>12. CASE Reconciles
  BY <1>12, ReconcileIs DEF AsOpened
<1>13. QED
  BY <1>3, <1>4, <1>5, <1>6, <1>7, <1>8, <1>9, <1>10, <1>11, <1>12
     DEF Next, Backfilling, RollingBack, Working, Unwinding, Resting, StartPush,
         Lands, Reconciles, LandOnServer, LandOnMonitor, Detach, vars, db

\* What is before an id is before a later one, and so is a part of it.
LEMMA BeforeToo ==
  /\ \A s \in Seq(Sweep), n \in Nat : Before(s, n) => Before(s, n + 1)
  /\ \A e \in Entry, f \in Entry : \A id :
       Part(e, f) /\ Before(f.sweeps, id) => Before(e.sweeps, id)
  /\ \A id : Before(<<>>, id)
<1>1. ASSUME NEW s \in Seq(Sweep), NEW n \in Nat, Before(s, n) PROVE Before(s, n + 1)
  <2>1. \A k \in DOMAIN s : s[k] \in Sweep
    OBVIOUS
  <2>2. \A k \in DOMAIN s : s[k].server \in Nat /\ s[k].server < n
    BY <1>1, <2>1 DEF Sweep, Before
  <2>3. QED
    BY <2>2 DEF Before
<1>2. ASSUME NEW e \in Entry, NEW f \in Entry, NEW id, Part(e, f), Before(f.sweeps, id)
      PROVE  Before(e.sweeps, id)
  <2>1. e.sweeps \in Seq(Sweep) /\ f.sweeps \in Seq(Sweep)
    BY DEF Entry
  <2>2. DOMAIN e.sweeps \subseteq DOMAIN f.sweeps
    BY <1>2, <2>1 DEF Part
  <2>3. QED
    BY <1>2, <2>2 DEF Part, Before
<1>3. \A id : Before(<<>>, id)
  BY DEF Before
<1>4. QED
  BY <1>1, <1>2, <1>3

\* A server still to be swept into has an id that was given.
LEMMA AheadGiven ==
  ASSUME BackInv
  PROVE  \A id \in Ahead(run) : id \in Nat /\ id < nextServer
<1>1. PICK box \in [1 .. nextServer - 1 -> Tokens] : Agree(box)
  BY DEF BackInv, BoxInv
<1>2. nextServer \in Nat
  BY DEF BackInv, TypeInv, TypeOK
<1>3. /\ \A k \in DOMAIN run.made : run.made[k].id \in 1 .. nextServer - 1
      /\ \A k \in DOMAIN run.kept : run.kept[k].id \in 1 .. nextServer - 1
  BY <1>1 DEF Agree, CommandOK, Known, Serves
<1>4. \A id \in Ahead(run) : id \in 1 .. nextServer - 1
  BY <1>3 DEF Ahead, ServerIds
<1>5. QED
  BY <1>2, <1>4

\* Sweeps go into servers that were there before those of later runs.
LEMMA IdsStep ==
  ASSUME BackInv, BackInv', RecordInv, IdsInv, [Next]_vars
  PROVE  IdsInv'
<1>1. /\ TypeInv /\ TypeInv' /\ run \in Command /\ run' \in Command
      /\ journal \in Seq(Entry) /\ journal' \in Seq(Entry)
      /\ nextServer \in Nat /\ nextServer # 0
      /\ run.entry \in Entry /\ run'.entry \in Entry
  BY DEF BackInv, TypeInv, TypeOK, WhereInv, Command
<1>2. /\ Idle.entry.created = {} /\ Idle.entry.sweeps = <<>> /\ Idle.sweep.server = 0
      /\ Idle.index = 0
  BY DEF Idle, NewEntry, NewSweep
<1>3. /\ Before(EntryNow(run).sweeps, nextServer)
      /\ EntryNow(run).created = run.entry.created
  BY <1>1, EntryNowTells, EntryNowIs DEF IdsInv
<1>4. CASE Flush \/ Abort
  <2>1. /\ UNCHANGED nextServer /\ DOMAIN journal' = 1 .. run.index
        /\ \A i \in 1 .. run.index - 1 : i \in DOMAIN journal /\ journal'[i] = journal[i]
        /\ Facts(journal'[run.index]) = Facts(EntryNow(run))
        /\ \/ run' = Idle
           \/ /\ run'.index = run.index /\ run'.entry = run.entry /\ run'.sweep = run.sweep
    BY <1>1, <1>4, WrittenIs DEF db
  <2>2. /\ journal'[run.index].sweeps = EntryNow(run).sweeps
        /\ journal'[run.index].created = run.entry.created
    BY <1>3, <2>1, SameFacts
  <2>3. run.index \in Nat /\ \A i \in DOMAIN journal' : i = run.index \/ i \in 1 .. run.index - 1
    BY <1>1, <2>1 DEF Command
  <2>4. \A i \in DOMAIN journal' : Before(journal'[i].sweeps, nextServer)
    BY <1>3, <2>1, <2>2, <2>3 DEF IdsInv
  <2>5. ASSUME NEW i \in DOMAIN journal', NEW j \in DOMAIN journal', i < j,
               NEW c \in journal'[j].created
        PROVE  Before(journal'[i].sweeps, c.id)
    <3>1. i \in 1 .. run.index - 1 /\ i < run.index
      BY <2>1, <2>3, <2>5
    <3>2. i \in DOMAIN journal /\ journal'[i] = journal[i]
      BY <2>1, <3>1
    <3>3. CASE j = run.index
      BY <2>2, <2>5, <3>1, <3>2, <3>3 DEF IdsInv
    <3>4. CASE j \in 1 .. run.index - 1
      <4>1. j \in DOMAIN journal /\ journal'[j] = journal[j]
        BY <2>1, <3>4
      <4>2. QED
        BY <2>5, <3>2, <4>1 DEF IdsInv
    <3>5. QED
      BY <2>3, <3>3, <3>4
  <2>6. \A i \in DOMAIN journal' : i < run'.index =>
          \A c \in run'.entry.created : Before(journal'[i].sweeps, c.id)
    <3>1. CASE run' = Idle
      BY <1>2, <3>1
    <3>2. CASE run'.index = run.index /\ run'.entry = run.entry
      BY <2>1, <2>3, <3>2 DEF IdsInv
    <3>3. QED
      BY <2>1, <3>1, <3>2
  <2>7. run'.sweep.server < nextServer /\ Before(run'.entry.sweeps, nextServer)
    BY <1>1, <1>2, <2>1, BeforeToo DEF IdsInv
  <2>8. QED
    BY <2>1, <2>4, <2>5, <2>6, <2>7 DEF IdsInv
<1>5. CASE Resting
  <2>1. /\ run' = Idle /\ UNCHANGED nextServer /\ DOMAIN journal' = DOMAIN journal
        /\ \A i \in DOMAIN journal : /\ journal'[i].created = journal[i].created
                                     /\ journal'[i].sweeps = journal[i].sweeps
    BY <1>1, <1>5, RestingIs, SameFacts DEF db
  <2>2. /\ run'.sweep.server < nextServer /\ Before(run'.entry.sweeps, nextServer)
        /\ run'.entry.created = {}
    BY <1>1, <1>2, <2>1, BeforeToo
  <2>3. QED
    BY <2>1, <2>2 DEF IdsInv
<1>6. CASE Working /\ ~CreateServer
  <2>1. /\ UNCHANGED <<journal, nextServer>> /\ run'.entry.created = run.entry.created
        /\ run'.index = run.index
        /\ \/ run'.entry.sweeps = run.entry.sweeps
           \/ run'.entry.sweeps = EntryNow(run).sweeps
        /\ \/ run'.sweep.server \in {0, run.sweep.server}
           \/ run'.sweep.server \in Ahead(run)
    BY <1>1, <1>6, WorkingIs, WorkingDoes
  <2>2. run'.sweep.server < nextServer
    BY <1>1, <2>1, AheadGiven DEF IdsInv
  <2>3. QED
    BY <1>3, <2>1, <2>2 DEF IdsInv
<1>7. CASE CreateServer
  <2> DEFINE g == First(run.live)
             s == [id |-> nextServer, token |-> g.token, monitors |-> g.monitors]
  <2>1. /\ run' = [run EXCEPT !.entry.created = @ \cup {s}, !.live = @ \ {g},
                              !.made = Append(@, s), !.pc = "flush", !.then = "servers"]
        /\ UNCHANGED journal /\ nextServer' = nextServer + 1
    BY <1>1, <1>7 DEF CreateServer, Recorded, Command
  <2>2. s.id = nextServer
    OBVIOUS
  <2> HIDE DEF g, s
  <2>3. /\ run'.entry.created = run.entry.created \cup {s} /\ run'.index = run.index
        /\ run'.entry.sweeps = run.entry.sweeps /\ run'.sweep = run.sweep
    BY <1>1, <2>1 DEF Command, Entry
  <2>4. \A i \in DOMAIN journal : Before(journal[i].sweeps, nextServer')
    <3> SUFFICES ASSUME NEW i \in DOMAIN journal PROVE Before(journal[i].sweeps, nextServer')
      OBVIOUS
    <3>1. journal[i] \in Entry
      BY <1>1
    <3>2. journal[i].sweeps \in Seq(Sweep)
      BY <3>1 DEF Entry
    <3>3. QED
      BY <1>1, <2>1, <3>2, BeforeToo DEF IdsInv
  <2>5. run.entry.sweeps \in Seq(Sweep) /\ run.sweep.server \in Nat
    BY <1>1 DEF Command, Entry, Sweep
  <2>6. Before(run'.entry.sweeps, nextServer') /\ run'.sweep.server < nextServer'
    BY <1>1, <2>1, <2>3, <2>5, BeforeToo DEF IdsInv
  <2>7. \A i \in DOMAIN journal : i < run.index =>
          \A c \in run'.entry.created : Before(journal[i].sweeps, c.id)
    BY <2>2, <2>3 DEF IdsInv
  <2>8. QED
    BY <2>1, <2>3, <2>4, <2>6, <2>7 DEF IdsInv
<1>8. CASE StartBackfill
  <2>1. /\ UNCHANGED <<journal, nextServer>>
        /\ run'.entry = NewEntry /\ run'.sweep = NewSweep(0, {})
    BY <1>1, <1>8, StartBackfillIs DEF db
  <2>2. /\ run'.entry.created = {} /\ run'.sweep.server = 0 /\ run'.entry.sweeps = <<>>
    BY <2>1 DEF NewEntry, NewSweep
  <2>3. run'.sweep.server < nextServer /\ Before(run'.entry.sweeps, nextServer)
    BY <1>1, <2>2, BeforeToo
  <2>4. QED
    BY <2>1, <2>2, <2>3 DEF IdsInv
<1>9. CASE StartRollback
  <2>1. /\ UNCHANGED <<journal, nextServer>>
        /\ run'.index \in DOMAIN journal /\ run'.entry = journal[run'.index]
        /\ run'.sweep = NewSweep(0, {})
    BY <1>1, <1>9, StartRollbackIs DEF db, Applied
  <2>2. run'.sweep.server < nextServer
    BY <1>1, <2>1 DEF NewSweep
  <2>3. QED
    BY <2>1, <2>2 DEF IdsInv
<1>10. CASE Unwinding
  <2>1. /\ UNCHANGED <<journal, nextServer>> /\ run'.index = run.index
        /\ run'.sweep = run.sweep /\ Part(run'.entry, run.entry)
    BY <1>1, <1>10, UnwindingIs
  <2>2. Before(run'.entry.sweeps, nextServer) /\ run'.entry.created \subseteq run.entry.created
    BY <1>1, <2>1, BeforeToo DEF IdsInv, Part
  <2>3. QED
    BY <2>1, <2>2 DEF IdsInv
<1>11. CASE UNCHANGED <<run, journal, nextServer>>
  BY <1>11 DEF IdsInv
<1>12. QED
  BY <1>4, <1>5, <1>6, <1>7, <1>8, <1>9, <1>10, <1>11
     DEF Next, Backfilling, RollingBack, Working, Unwinding, Resting, StartPush,
         LandOnServer, ReconcileServer, LandOnMonitor, ReconcileMonitor, Detach, vars, db

\* The servers a backfill counts on are there, and only a late push has samples
\* or incidents of one that is not.
LEMMA LateStep ==
  ASSUME BackInv, BackInv', ServedInv, RecordInv, LateInv, [Next]_vars
  PROVE  LateInv'
<1>1. /\ TypeInv /\ TypeInv' /\ run \in Command /\ run' \in Command
  BY DEF BackInv, TypeInv
<1>2. Backfills \cap Restoring = {} /\ "idle" \notin Backfills /\ Idle.pc = "idle"
  BY IdleTellsNothing DEF Backfills, Restoring
<1>3. servers \subseteq servers' => \A id : Exists(id) => Exists(id)'
  BY DEF Exists
<1>4. "late" \in mishaps => "late" \in mishaps'
  BY MishapsGrow
<1>5. CASE Working
  <2>1. run.pc \in Backfills /\ UNCHANGED hot
    BY <1>1, <1>5, WorkingIs
  <2>2. /\ servers \subseteq servers'
        /\ CreateServer => \A id : id = nextServer => Exists(id)'
    <3>1. CASE CreateServer
      <4> DEFINE new == [id |-> nextServer, token |-> First(run.live).token]
      <4>1. servers' = servers \cup {new}
        BY <3>1 DEF CreateServer
      <4>2. new \in servers' /\ new.id = nextServer
        BY <4>1
      <4> HIDE DEF new
      <4>3. QED
        BY <4>1, <4>2 DEF Exists
    <3>2. CASE ~CreateServer
      BY <1>1, <1>5, <3>2, WorkingDoes
    <3>3. QED
      BY <3>1, <3>2
  <2>3. \A id \in Ahead(run) : Exists(id)'
    BY <1>3, <2>1, <2>2 DEF LateInv
  <2>4. \A id \in Ahead(run') : Exists(id)'
    <3>1. CASE UseServer
      <4>1. run.pc = "servers" /\ run.live # {} /\ First(run.live).existing # 0
        BY <3>1 DEF UseServer
      <4>2. First(run.live) \in run.live
        BY <1>1, <4>1, FirstExists DEF Command, TypeInv, WhereInv
      <4>3. Serving(servers, First(run.live).existing, First(run.live).token)
        BY <2>1, <4>1, <4>2 DEF ServedInv, GroupsInv
      <4>4. \A id : id = First(run.live).existing => Exists(id)
        BY <4>3 DEF Serving, Exists
      <4>5. \A id \in Ahead(run') : id \in Ahead(run) \/ id = First(run.live).existing
        BY <1>1, <1>5, <3>1, WorkingDoes DEF UseServer, CreateServer
      <4>6. QED
        BY <1>3, <2>2, <2>3, <4>4, <4>5
    <3>2. CASE ~UseServer
      BY <1>1, <1>5, <2>2, <2>3, <3>2, WorkingDoes
    <3>3. QED
      BY <3>1, <3>2
  <2>5. Phase(run') = "batch" => \A id : id = run'.sweep.server => Exists(id)'
    <3>1. Phase(run') = "batch" =>
            \/ Phase(run) = "batch" /\ run'.sweep.server = run.sweep.server
            \/ run'.sweep.server \in Ahead(run)
      BY <1>1, <1>5, WorkingDoes
    <3>2. Phase(run) = "batch" => \A id : id = run.sweep.server => Exists(id)'
      BY <1>3, <2>1, <2>2 DEF LateInv
    <3>3. QED
      BY <2>3, <3>1, <3>2
  <2>6. \A y \in samples' : y \in samples \/ Exists(y.server)'
    <3>1. CASE SweepBatch
      <4>1. /\ samples' = samples \cup {AsSample(x, run.sweep.server) :
                                          x \in {z \in BatchRows(run.sweep, run.from) : Convertible(z)}}
            /\ run.pc = "batch"
        BY <3>1 DEF SweepBatch
      <4>2. \A y \in samples' : y \in samples \/ y.server = run.sweep.server
        BY <4>1 DEF AsSample
      <4>3. Exists(run.sweep.server)
        BY <2>1, <4>1 DEF LateInv, Phase
      <4>4. \A id : id = run.sweep.server => Exists(id)'
        BY <1>3, <2>2, <4>3
      <4>5. QED
        BY <4>2, <4>4
    <3>2. CASE ~SweepBatch
      BY <1>1, <1>5, <3>2, WorkingDoes
    <3>3. QED
      BY <3>1, <3>2
  <2>7. "late" \notin mishaps' =>
          (\A id \in hot' : Exists(id)') /\ \A y \in samples' : Exists(y.server)'
    BY <1>3, <1>4, <2>1, <2>2, <2>6 DEF LateInv
  <2>8. QED
    BY <2>4, <2>5, <2>7 DEF LateInv
<1>6. CASE DeleteServer
  <2> DEFINE id == Created.id
  <2>1. /\ servers' = {s \in servers : s.id # id} /\ UNCHANGED <<samples, hot>>
        /\ "late" \notin mishaps' => OnServer(id) = {} /\ id \notin hot
        /\ run'.pc = "rest"
    BY <1>1, <1>6 DEF DeleteServer, Command
  <2>2. "late" \notin mishaps' => \A y \in samples : y.server # id
    BY <2>1 DEF OnServer
  <2> HIDE DEF id
  <2>3. \A i : Exists(i) /\ i # id => Exists(i)'
    BY <2>1 DEF Exists
  <2>4. run'.pc \notin Backfills
    BY <2>1 DEF Backfills
  <2>5. QED
    BY <1>4, <2>1, <2>2, <2>3, <2>4 DEF LateInv
<1>7. CASE Unwinding /\ ~DeleteServer
  <2>1. run'.pc \in Restoring
    BY <1>1, <1>7, UnwindingIs
  <2>2. UNCHANGED servers /\ hot' \subseteq hot /\ samples' \subseteq samples
    BY <1>7, RestoreSamplesIs
       DEF Unwinding, RestoreBatch, RestoreBare, RestoreRest, CloseServerIncidents,
           RestoreToken, ReopenIncident, NextRollbackPhase, db
  <2>3. QED
    BY <1>2, <1>3, <1>4, <2>1, <2>2 DEF LateInv
<1>8. CASE Flush \/ Abort \/ Resting
  <2>1. /\ UNCHANGED db
        /\ \/ run' = Idle
           \/ /\ run.pc \in Backfills /\ Phase(run') = Phase(run) /\ run'.sweep = run.sweep
              /\ run'.made = run.made /\ run'.kept = run.kept
    BY <1>1, <1>8, WrittenIs, RestingIs
  <2>2. UNCHANGED <<servers, hot, samples>>
    BY <2>1 DEF db
  <2>3. \A id : Exists(id) => Exists(id)'
    BY <1>3, <2>2
  <2>4. CASE run' = Idle
    BY <1>2, <1>4, <2>2, <2>3, <2>4 DEF LateInv
  <2>5. CASE run' # Idle
    <3>1. Ahead(run') = Ahead(run)
      BY <2>1, <2>5 DEF Ahead
    <3>2. QED
      BY <1>4, <2>1, <2>2, <2>3, <2>5, <3>1 DEF LateInv
  <2>6. QED
    BY <2>4, <2>5
<1>9. CASE StartBackfill \/ StartRollback
  <2>1. /\ UNCHANGED <<servers, hot, samples>>
        /\ \/ run'.pc = "restore"
           \/ /\ run'.pc = "flush" /\ run'.then = "servers"
              /\ run'.made = <<>> /\ run'.kept = <<>>
    BY <1>1, <1>9, StartBackfillIs, StartRollbackIs DEF db
  <2>2. run'.pc \in Backfills => Ahead(run') = {} /\ Phase(run') # "batch"
    BY <2>1 DEF Backfills, Ahead, ServerIds, Phase
  <2>3. QED
    BY <1>3, <1>4, <2>1, <2>2 DEF LateInv
<1>10. CASE LandOnServer
  <2>1. /\ samples' = samples \cup {[reading |-> push.reading, server |-> push.server]}
        /\ UNCHANGED <<run, servers, hot>>
        /\ "late" \notin mishaps' => Exists(push.server)
    BY <1>10 DEF LandOnServer, Exists
  <2>2. \A y \in samples' : y \in samples \/ y.server = push.server
    BY <2>1
  <2>3. \A id : id = push.server /\ "late" \notin mishaps' => Exists(id)'
    BY <1>3, <2>1
  <2>4. QED
    BY <1>3, <1>4, <2>1, <2>2, <2>3 DEF LateInv
<1>11. CASE Reconciles
  <2>1. /\ UNCHANGED <<run, servers, samples>>
        /\ "late" \notin mishaps' => \A id \in hot' : id \in hot \/ Exists(id)
    BY <1>1, <1>11, ReconcileIs DEF Exists
  <2>2. QED
    BY <1>3, <1>4, <2>1 DEF LateInv
<1>12. CASE UNCHANGED <<run, servers, samples, hot>>
  BY <1>3, <1>4, <1>12 DEF LateInv
<1>13. QED
  BY <1>5, <1>6, <1>7, <1>8, <1>9, <1>10, <1>11, <1>12
     DEF Next, Backfilling, RollingBack, Working, Unwinding, Resting, StartPush,
         Reconciles, LandOnMonitor, Detach, vars, db

\* A part of what is at home is at home.
LEMMA HomePart ==
  ASSUME NEW e \in Entry, NEW f \in Entry, Part(e, f), HomeAll(f.sweeps)
  PROVE  HomeAll(e.sweeps)
<1>1. e.sweeps \in Seq(Sweep) /\ f.sweeps \in Seq(Sweep)
  BY DEF Entry
<1>2. DOMAIN e.sweeps \subseteq DOMAIN f.sweeps
  BY <1>1 DEF Part
<1>3. QED
  BY <1>2 DEF Part, HomeAll

\* What is told of readings that were there at first names the monitors they
\* were on: a rollback puts them there, and nothing else moves them.
LEMMA HomeStep ==
  ASSUME BackInv, BackInv', OnceInv, RecordInv, StoryInv, IdsInv, HomeInv, [Next]_vars
  PROVE  HomeInv'
<1> SUFFICES ASSUME "unrecorded" \notin mishaps'
             PROVE  /\ \A x \in rows' : Home(x)
                    /\ \A i \in DOMAIN journal' : HomeAll(journal'[i].sweeps)
                    /\ HomeAll(run'.entry.sweeps)
                    /\ \A x \in run'.sweep.moved \cup run'.sweep.bare : Home(x)
  BY DEF HomeInv, HomeAll, Home
<1>1. /\ TypeInv /\ TypeInv' /\ run \in Command /\ run' \in Command
      /\ run.entry \in Entry /\ run'.entry \in Entry
      /\ run.entry.sweeps \in Seq(Sweep)
  BY DEF BackInv, TypeInv, Command, Entry
<1>2. "unrecorded" \notin mishaps
  BY MishapsGrow
<1>3. /\ \A x \in rows : Home(x)
      /\ \A i \in DOMAIN journal : HomeAll(journal[i].sweeps)
      /\ HomeAll(run.entry.sweeps)
      /\ \A x \in run.sweep.moved \cup run.sweep.bare : Home(x)
  BY <1>2 DEF HomeInv
<1>4. HomeAll(EntryNow(run).sweeps)
  BY <1>1, <1>3, EntryNowTells
<1>5. HomeAll(<<>>)
  BY DEF HomeAll
<1>6. CASE Working
  <2>1. UNCHANGED journal
    BY <1>1, <1>6, WorkingIs
  <2>2. HomeAll(run'.entry.sweeps)
    BY <1>1, <1>3, <1>4, <1>6, WorkingDoes
  <2>3. CASE ~SweepBatch
    BY <1>1, <1>3, <1>6, <2>1, <2>2, <2>3, WorkingDoes
  <2>4. CASE SweepBatch
    <3> DEFINE batch == BatchRows(run.sweep, run.from)
               moved == {x \in batch : Convertible(x)}
    <3>1. /\ rows' = rows \ batch
          /\ run' = [run EXCEPT !.sweep.moved = @ \cup moved,
                                !.sweep.bare = @ \cup (batch \ moved),
                                !.from = @ + Batch, !.pc = "flush", !.then = "batch"]
      BY <1>1, <2>4 DEF SweepBatch, Recorded, Command
    <3>2. batch \subseteq rows /\ moved \subseteq batch
      BY DEF BatchRows
    <3> HIDE DEF batch, moved
    <3>3. /\ run'.sweep.moved = run.sweep.moved \cup moved
          /\ run'.sweep.bare = run.sweep.bare \cup (batch \ moved)
      BY <1>1, <3>1 DEF Command, Sweep
    <3>4. QED
      BY <1>3, <2>1, <2>2, <3>1, <3>2, <3>3
  <2>5. QED
    BY <2>3, <2>4
<1>7. CASE Flush \/ Abort
  <2>1. /\ UNCHANGED rows /\ DOMAIN journal' = 1 .. run.index
        /\ \A i \in 1 .. run.index - 1 : i \in DOMAIN journal /\ journal'[i] = journal[i]
        /\ Facts(journal'[run.index]) = Facts(EntryNow(run))
        /\ \/ run' = Idle
           \/ run'.entry = run.entry /\ run'.sweep = run.sweep
    BY <1>1, <1>7, WrittenIs DEF db
  <2>2. journal'[run.index].sweeps = EntryNow(run).sweeps
    BY <2>1, SameFacts
  <2>3. \A i \in DOMAIN journal' : i = run.index \/ i \in 1 .. run.index - 1
    BY <1>1, <2>1 DEF Command
  <2>4. \A i \in DOMAIN journal' : HomeAll(journal'[i].sweeps)
    BY <1>3, <1>4, <2>1, <2>2, <2>3
  <2>5. QED
    BY <1>3, <1>5, <2>1, <2>4 DEF Idle, NewEntry, NewSweep
<1>8. CASE Resting
  <2>1. /\ UNCHANGED rows /\ run' = Idle /\ DOMAIN journal' = DOMAIN journal
        /\ \A i \in DOMAIN journal : journal'[i].sweeps = journal[i].sweeps
    BY <1>1, <1>8, RestingIs, SameFacts DEF db
  <2>2. QED
    BY <1>3, <1>5, <2>1 DEF Idle, NewEntry, NewSweep
<1>9. CASE StartBackfill \/ StartRollback
  <2>1. /\ UNCHANGED <<rows, journal>> /\ run'.sweep = NewSweep(0, {})
        /\ \/ run'.entry = NewEntry
           \/ run'.index \in DOMAIN journal /\ run'.entry = journal[run'.index]
    BY <1>1, <1>9, StartBackfillIs, StartRollbackIs DEF db, Applied
  <2>2. QED
    BY <1>3, <1>5, <2>1 DEF NewEntry, NewSweep
<1>10. CASE Unwinding
  <2>1. /\ UNCHANGED journal /\ run'.sweep = run.sweep /\ Part(run'.entry, run.entry)
        /\ run.pc \in Restoring
    BY <1>1, <1>10, UnwindingIs
  <2>2. HomeAll(run'.entry.sweeps)
    BY <1>1, <1>3, <2>1, HomePart
  <2>3. \A x \in rows' : Home(x)
    <3>1. CASE RestoreBatch
      <4> DEFINE sw == Last(run.entry.sweeps)
                 first == FirstBatch(run.todo)
                 owner == [r \in {x.reading : x \in first} |-> MonitorFor(sw, r)]
                 back == {x \in samples : x.server = sw.server /\ x.reading \in DOMAIN owner}
      <4>1. /\ rows' = rows \cup {AsRow(x, owner[x.reading]) : x \in back}
            /\ run.pc = "restore" /\ run.entry.sweeps # <<>>
        BY <3>1 DEF RestoreBatch, RestoreSamples
      <4>2. /\ sw \in Sweep /\ sw = run.entry.sweeps[Len(run.entry.sweeps)]
            /\ Len(run.entry.sweeps) \in DOMAIN run.entry.sweeps
            /\ first \subseteq sw.moved
        BY <1>1, <4>1, LastMovedType DEF TypeInv, WhereInv, FirstBatch
      <4>3. \A y \in sw.moved : Home(y)
        BY <1>3, <4>2 DEF HomeAll
      <4>4. \A x \in back : AsRow(x, owner[x.reading]).reading \in DOMAIN OwnerOf =>
              owner[x.reading] = OwnerOf[x.reading]
        <5> SUFFICES ASSUME NEW x \in back, x.reading \in DOMAIN OwnerOf
                     PROVE  owner[x.reading] = OwnerOf[x.reading]
          BY DEF AsRow
        <5>1. PICK z \in first : z.reading = x.reading
          OBVIOUS
        <5>2. owner[x.reading] = MonitorFor(sw, z.reading) /\ z \in sw.moved
          BY <4>2, <5>1
        <5>3. PICK y \in sw.moved : y.reading = z.reading /\ MonitorFor(sw, z.reading) = y.monitor
          BY <4>2, <5>2, MonitorForMoved
        <5>4. QED
          BY <4>3, <5>1, <5>2, <5>3 DEF Home
      <4>5. \A x \in back : Home(AsRow(x, owner[x.reading]))
        BY <4>4 DEF Home, AsRow
      <4> HIDE DEF owner, back, first
      <4>6. QED
        BY <1>3, <4>1, <4>5
    <3>2. CASE RestoreBare
      <4>1. rows' \subseteq rows \cup Last(run.entry.sweeps).bare /\ run.entry.sweeps # <<>>
        BY <3>2 DEF RestoreBare
      <4>2. \A x \in Last(run.entry.sweeps).bare : Home(x)
        BY <1>1, <1>3, <4>1, LastMovedType DEF HomeAll
      <4>3. QED
        BY <1>3, <4>1, <4>2
    <3>3. CASE RestoreRest
      <4> DEFINE first == FirstBatch(OnServer(Created.id))
                 owner == [r \in {x.reading : x \in first} |-> Lowest(Created.monitors)]
                 back == {x \in samples : x.server = Created.id /\ x.reading \in DOMAIN owner}
      <4>1. /\ \/ rows' = rows \cup {AsRow(x, owner[x.reading]) : x \in back}
               \/ UNCHANGED rows
            /\ run.pc = "rest" /\ run.entry.created # {}
        BY <3>3 DEF RestoreRest, RestoreSamples
      <4>2. Created \in run.entry.created /\ Created.id \in Nat
        BY <1>1, <4>1, CreatedIs
      <4>3. back \subseteq samples /\ \A x \in back : x.server = Created.id
        OBVIOUS
      <4>4. \A x : AsRow(x, owner[x.reading]).reading = x.reading
        BY DEF AsRow
      <4> HIDE DEF owner, back, first
      <4>5. ASSUME NEW x \in back, x.reading \in DOMAIN OwnerOf PROVE FALSE
        <5>1. ToldSample(x)
          BY <1>2, <4>3, <4>5 DEF StoryInv, SamplesStory
        <5>2. ~Remembers(x)
          <6>1. run.entry.sweeps = <<>> /\ EntryNow(run) = run.entry
            BY <4>1 DEF RecordInv, EntryNow, Phase, Restoring
          <6>2. QED
            BY <4>1, <6>1, IdleTellsNothing DEF Remembers
        <5>3. PICK i \in Others : Makes(journal[i].sweeps, x)
          BY <5>1, <5>2 DEF ToldSample
        <5>4. i \in DOMAIN journal /\ i <= run.index /\ i # run.index
          BY <2>1 DEF RecordInv, Others, Applied
        <5>5. i < run.index
          BY <1>1, <5>4 DEF Command, TypeInv, TypeOK
        <5>6. Before(journal[i].sweeps, Created.id)
          BY <4>2, <5>4, <5>5 DEF IdsInv
        <5>7. PICK k \in DOMAIN journal[i].sweeps : x.server = journal[i].sweeps[k].server
          BY <5>3 DEF Makes
        <5>8. Created.id < Created.id
          BY <4>3, <5>6, <5>7 DEF Before
        <5>9. QED
          BY <4>2, <5>8
      <4>6. QED
        BY <1>3, <4>1, <4>4, <4>5 DEF Home
    <3>4. CASE ~(RestoreBatch \/ RestoreBare \/ RestoreRest)
      BY <1>3, <1>10, <3>4
         DEF Unwinding, CloseServerIncidents, DeleteServer, RestoreToken, ReopenIncident,
             NextRollbackPhase, db
    <3>5. QED
      BY <3>1, <3>2, <3>3, <3>4
  <2>4. QED
    BY <1>3, <2>1, <2>2, <2>3
<1>11. CASE LandOnMonitor
  <2>1. /\ rows' = rows \cup {[reading |-> push.reading, monitor |-> push.monitor]}
        /\ UNCHANGED <<run, journal>> /\ push.pc = "legacy"
    BY <1>11 DEF LandOnMonitor
  <2>2. OwnerOf \in Seq(Monitors) /\ push.reading > Len(OwnerOf)
    BY <2>1, BackfillAssumption DEF OnceInv, Carrying
  <2>3. push.reading \notin DOMAIN OwnerOf
    BY <2>2
  <2>4. QED
    BY <1>3, <2>1, <2>3 DEF Home
<1>12. CASE UNCHANGED <<rows, run, journal>>
  BY <1>3, <1>12
<1>13. QED
  BY <1>6, <1>7, <1>8, <1>9, <1>10, <1>11, <1>12
     DEF Next, Backfilling, RollingBack, Working, Unwinding, Resting, StartPush,
         LandOnServer, ReconcileServer, ReconcileMonitor, Detach, vars, db

\* At first there is nothing to tell.
LEMMA InitReturn == Init => ReturnInv
<1> SUFFICES ASSUME Init PROVE ReturnInv
  OBVIOUS
<1>1. /\ run = Idle /\ journal = <<>> /\ samples = {} /\ servers = {} /\ hot = {}
      /\ token = TokenOf /\ legacy = LegacyOpen /\ nextServer = 1
      /\ \A r \in DOMAIN OwnerOf : AsFound(r) \in rows
      /\ \A x \in rows : Home(x)
  BY DEF Init, AsFound, Home
<1>2. /\ Idle.pc = "idle" /\ Phase(Idle) = "idle" /\ Idle.entry = NewEntry
      /\ Idle.sweep = NewSweep(0, {})
  BY DEF Idle, Phase
<1>3. HomeInv
  BY <1>1, <1>2 DEF HomeInv, HomeAll, NewEntry, NewSweep
<1>4. RecordInv
  BY <1>1, <1>2 DEF RecordInv, Backfills, Restoring, NewSweep
<1>5. StoryInv
  BY <1>1, BackfillAssumption
     DEF StoryInv, ServersStory, TokensStory, IncidentsStory, BareStory, SamplesStory
<1>6. LegacyInv
  BY <1>1, <1>2 DEF LegacyInv, AsOpened, NewEntry
<1>7. IdsInv
  BY <1>1, <1>2 DEF IdsInv, Before, NewEntry, NewSweep
<1>8. LateInv
  BY <1>1, <1>2 DEF LateInv, Backfills
<1>9. QED
  BY <1>3, <1>4, <1>5, <1>6, <1>7, <1>8 DEF ReturnInv

\* Every step of either command, of an agent and of an operator goes on with the
\* story.
LEMMA ReturnStep ==
  BackInv /\ BackInv' /\ OnceInv /\ ServedInv /\ ReturnInv /\ [Next]_vars => ReturnInv'
<1> SUFFICES ASSUME BackInv, BackInv', OnceInv, ServedInv, ReturnInv, [Next]_vars
             PROVE  ReturnInv'
  OBVIOUS
<1>1. TypeInv /\ TypeInv'
  BY DEF BackInv
<1>2. HomeInv'
  BY HomeStep DEF ReturnInv
<1>3. RecordInv'
  BY <1>1, RecordStep DEF ReturnInv
<1>4. StoryInv'
  BY StoryStep DEF ReturnInv
<1>5. LegacyInv'
  BY <1>1, LegacyStep DEF ReturnInv
<1>6. IdsInv'
  BY IdsStep DEF ReturnInv
<1>7. LateInv'
  BY LateStep DEF ReturnInv
<1>8. QED
  BY <1>2, <1>3, <1>4, <1>5, <1>6, <1>7 DEF ReturnInv

\* When nothing is told any more, there is nothing left to tell.
LEMMA NothingTold ==
  ASSUME BackInv, OnceInv, ServedInv, ReturnInv, AtRest, Applied = {},
         mishaps \cap {"unrecorded", "late"} = {}
  PROVE  /\ \A r \in DOMAIN OwnerOf : RowsOf(r) = {AsFound(r)}
         /\ samples = {} /\ servers = {} /\ hot = {}
         /\ token = TokenOf /\ ("pushed" \notin mishaps => legacy = LegacyOpen)
         /\ \A m \in Monitors : attached[m] = 0
<1>1. /\ TypeInv /\ run = Idle /\ Others = {}
      /\ "unrecorded" \notin mishaps /\ "late" \notin mishaps
  BY DEF BackInv, ReturnInv, RecordInv, AtRest, Others
<1>2. /\ \A id : ~ToldServer(id)
      /\ \A m : ~ToldDrop(m)
      /\ \A m : ~ToldIncident(m)
      /\ \A x : ~ToldBare(x)
  BY <1>1, IdleTellsNothing DEF ToldServer, Names, ToldDrop, ToldIncident, Unnoted, ToldBare
<1>3. /\ ServersStory /\ TokensStory /\ IncidentsStory /\ BareStory
      /\ LateInv /\ LegacyInv /\ HomeInv
  BY <1>1 DEF ReturnInv, StoryInv
<1>4. servers = {}
  BY <1>2, <1>3 DEF ServersStory
<1>5. hot = {} /\ samples = {}
  BY <1>1, <1>3, <1>4 DEF LateInv, Exists
<1>6. token = TokenOf
  <2>1. \A m \in Monitors : token[m] = TokenOf[m]
    BY <1>2, <1>3 DEF TokensStory
  <2>2. /\ token \in [Monitors -> Tokens \cup {NoToken}]
        /\ TokenOf \in [Monitors -> Tokens]
    BY <1>1, BackfillAssumption DEF TypeInv, TypeOK
  <2>3. QED
    BY <2>1, <2>2
<1>7. ASSUME "pushed" \notin mishaps PROVE legacy = LegacyOpen
  BY <1>2, <1>3, <1>7 DEF IncidentsStory, LegacyInv, AsOpened
<1>8. \A m \in Monitors : attached[m] = 0
  BY <1>4 DEF ServedInv, Serving
<1>9. ASSUME NEW r \in DOMAIN OwnerOf PROVE RowsOf(r) = {AsFound(r)}
  <2>1. \A x \in rows : x.reading = r => x = AsFound(r)
    <3> SUFFICES ASSUME NEW x \in rows, x.reading = r PROVE x = AsFound(r)
      OBVIOUS
    <3>1. x \in Row /\ x.monitor = OwnerOf[r]
      BY <1>1, <1>3 DEF HomeInv, Home, TypeInv, TypeOK
    <3>2. QED
      BY <3>1 DEF Row, AsFound
  <2>2. AsFound(r) \in rows
    <3>1. CASE r \in Bare
      BY <1>2, <1>3, <3>1 DEF BareStory
    <3>2. CASE r \notin Bare
      <4>1. OwnerOf \in Seq(Monitors) /\ source \in Seq(Tokens)
        BY <1>1, BackfillAssumption DEF TypeInv, TypeOK
      <4>2. r \in DOMAIN source /\ r # 0
        BY <4>1 DEF OnceInv
      <4>3. r # push.reading
        BY <4>2 DEF OnceInv, AtRest, Carrying
      <4>4. \E x \in rows : x.reading = r
        BY <1>5, <3>2, <4>2, <4>3 DEF OnceInv
      <4>5. QED
        BY <2>1, <4>4
    <3>3. QED
      BY <3>1, <3>2
  <2>3. AsFound(r).reading = r
    BY DEF AsFound
  <2>4. QED
    BY <2>1, <2>2, <2>3 DEF RowsOf
<1>10. QED
  BY <1>4, <1>5, <1>6, <1>7, <1>8, <1>9

\* A rollback of everything restores what the first run found
\* (runServersRollback, src/app/Commands/BackfillServers.ts), whatever ran
\* twice, aborted or died, unless a write went unrecorded or a push wrote a sample
\* or an incident to a server between the last look at it and its deletion, or
\* later; of the old incidents, the ones no agent moved since.
THEOREM RollbackRestoresAll == Spec => []RoundTrip
<1>1. BackInv /\ OnceInv /\ ServedInv /\ ReturnInv => RoundTrip
  BY NothingTold DEF RoundTrip, AsFound
<1>2. Init => OnceInv /\ ServedInv /\ ReturnInv
  BY InitOnce, InitReturn DEF Init, ServedInv, Idle, Backfills
<1>3. BackInv /\ BackInv' /\ OnceInv /\ ServedInv /\ ReturnInv /\ [Next]_vars
        => OnceInv' /\ ServedInv' /\ ReturnInv'
  BY OnceStep, ServedStep, ReturnStep
<1>4. Spec => [](OnceInv /\ ServedInv /\ ReturnInv)
  BY <1>2, <1>3, BackAlways, PTL DEF Spec
<1>5. QED
  BY <1>1, <1>4, BackAlways, PTL
=============================================================================
