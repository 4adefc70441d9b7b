------------------------------- MODULE Backfill -------------------------------
(***************************************************************************)
(* servers:backfill and servers:rollback: the one-off move of host metrics *)
(* from monitors (check_results rows of region 'agent') to servers         *)
(* (server_metric_samples), and its inverse, driven by a journal file.     *)
(*                                                                         *)
(*   - One command runs at a time, against a live system: agents push while*)
(*     it runs, by the old path or the new one, and an operator may detach *)
(*     a monitor from its server.                                          *)
(*   - Every write and the flush of the journal that follows it are two    *)
(*     actions.  The command may die at either, or stop with an exception, *)
(*     which flushes the entry as 'aborted'.                               *)
(*   - Both commands may be run again, after a death too.                  *)
(*                                                                         *)
(* A reading keeps one number for its life: the id of its row, the id of   *)
(* its sample and, being taken in order, its time.                         *)
(***************************************************************************)
EXTENDS Integers, Sequences, FiniteSets, SequencesExt, FiniteSetsExt

CONSTANTS
  Monitors,    \* monitors.id
  TokenOf,     \* monitors.metrics_token before the first run
  OwnerOf,     \* the monitor of each agent row before the first run
  Bare,        \* readings without cpuPercent or ramPercent
  LegacyOpen,  \* monitors with an open server_metrics incident
  Batch,       \* rows per sweep batch
  Budget       \* bound: how often each command and environment event happens

NoToken == "none"
Tokens == {TokenOf[m] : m \in Monitors}
Events == {"backfill", "rollback", "abort", "die", "push", "detach"}

ASSUME BackfillAssumption ==
  /\ Monitors \subseteq Nat \ {0}
  /\ TokenOf \in [Monitors -> Tokens]
  /\ NoToken \notin Tokens
  /\ OwnerOf \in Seq(Monitors)
  /\ Bare \subseteq DOMAIN OwnerOf
  /\ LegacyOpen \subseteq Monitors
  /\ Batch \in Nat \ {0}
  /\ Budget \in [Events -> Nat]

VARIABLES
  rows,       \* check_results, region 'agent': [reading, monitor]
  samples,    \* server_metric_samples: [reading, server]
  servers,    \* [id, token]
  nextServer, \* servers.id AUTOINCREMENT
  token,      \* monitors.metrics_token
  attached,   \* monitors.server_id, 0 for NULL
  legacy,     \* monitors with an open server_metrics incident
  hot,        \* ids of servers with an open incident
  source,     \* the token each reading came with; its length is the clock
  journal,    \* storage/framework/servers-backfill.json
  run,        \* the command that runs, if any
  push,       \* the agent request in flight, if any
  mishaps,    \* what went wrong in a way the journal cannot tell
  left        \* how many of each event may still happen

db == <<rows, samples, servers, nextServer, token, attached, legacy, hot>>
world == <<source, push>>
vars == <<db, world, journal, run, mishaps, left>>

Row == [reading: Nat, monitor: Monitors]
Sample == [reading: Nat, server: Nat]
Sweep == [server: Nat, monitors: SUBSET Monitors,
          moved: SUBSET Row, bare: SUBSET Row]
Entry == [outcome: {"running", "complete", "aborted"},
          created: SUBSET [id: Nat, token: Tokens, monitors: SUBSET Monitors],
          sweeps: Seq(Sweep),
          dropped: SUBSET [monitor: Monitors, token: Tokens],
          resolved: SUBSET Monitors, finished: Nat, rolledBack: BOOLEAN]

NewSweep(server, monitors) ==
  [server |-> server, monitors |-> monitors, moved |-> {}, bare |-> {}]
NewEntry == [outcome |-> "running", created |-> {}, sweeps |-> <<>>,
             dropped |-> {}, resolved |-> {}, finished |-> 0,
             rolledBack |-> FALSE]

\* entry: in memory, ahead of the file by at most one write; index: its place
\* in the file; live, orphans: the token groups read at the start that are still
\* to do, which go in the order of their first monitors; made, kept: servers to
\* sweep into; todo: what the current phase still has to do.
Idle == [pc |-> "idle", then |-> "idle", entry |-> NewEntry, index |-> 0,
         live |-> {}, orphans |-> {}, made |-> <<>>, kept |-> <<>>,
         sweep |-> NewSweep(0, {}), from |-> 0, hi |-> 0, todo |-> {}]
NoPush == [pc |-> "idle", reading |-> 0, server |-> 0, monitor |-> 0]

Spend(e) == left[e] > 0 /\ left' = [left EXCEPT ![e] = @ - 1]
Keep == UNCHANGED <<world, mishaps, left>>
Goto(pc) == run' = [run EXCEPT !.pc = pc]

Lowest(S) == Min(S)
\* ORDER BY id LIMIT BATCH.
FirstBatch(S) == {x \in S : Cardinality({y \in S : y.reading < x.reading}) < Batch}
ServersWith(t) == {s.id : s \in {u \in servers : u.token = t}}

-----------------------------------------------------------------------------
(* The journal                                                             *)

\* The sweep under way joins the entry with its first committed row.
EntryNow(st) ==
  IF st.sweep.moved = {} /\ st.sweep.bare = {} THEN st.entry
  ELSE [st.entry EXCEPT !.sweeps = Append(@, st.sweep)]

WriteEntry(st, outcome) ==
  journal' = Append(SubSeq(journal, 1, st.index - 1),
                    [EntryNow(st) EXCEPT !.outcome = outcome,
                                         !.finished = Len(source)])

Flush ==
  /\ run.pc = "flush"
  /\ WriteEntry(run, run.entry.outcome)
  /\ run' = IF run.then = "idle" THEN Idle ELSE [run EXCEPT !.pc = run.then]
  /\ UNCHANGED <<db>> /\ Keep

\* st is flushed next; the phase goes on at pc.
Recorded(st, pc) == [st EXCEPT !.pc = "flush", !.then = pc]

-----------------------------------------------------------------------------
(* servers:backfill                                                        *)

\* tokenGroups: monitors by token, with the server already holding it.
Group(t) ==
  LET monitors == {m \in Monitors : token[m] = t}
  IN  [token |-> t, monitors |-> monitors,
       existing |-> IF ServersWith(t) = {} THEN 0 ELSE Min(ServersWith(t)),
       attach |-> \E m \in monitors : attached[m] = 0]

IsLive(g) == g.existing # 0 \/ \E x \in rows : x.monitor \in g.monitors
First(groups) ==
  CHOOSE g \in groups : \A h \in groups : Min(g.monitors) <= Min(h.monitors)

StartBackfill ==
  /\ run.pc = "idle"
  /\ Spend("backfill")
  /\ LET groups == {Group(t) : t \in {token[m] : m \in Monitors} \ {NoToken}}
         live == {g \in groups : IsLive(g)}
     IN  run' = Recorded([Idle EXCEPT !.index = Len(journal) + 1,
                                      !.live = live,
                                      !.orphans = groups \ live], "servers")
  /\ UNCHANGED <<db, world, journal, mishaps>>

\* Monitors that carry the token now and have no server.
AttachAll(t, id) ==
  [m \in Monitors |-> IF token[m] = t /\ attached[m] = 0 THEN id ELSE attached[m]]

\* Phase A.  The insert and the attachment are one transaction.
CreateServer ==
  /\ run.pc = "servers" /\ run.live # {} /\ First(run.live).existing = 0
  /\ LET g == First(run.live)
         s == [id |-> nextServer, token |-> g.token, monitors |-> g.monitors]
     IN  /\ servers' = servers \cup {[id |-> nextServer, token |-> g.token]}
         /\ nextServer' = nextServer + 1
         /\ attached' = AttachAll(g.token, nextServer)
         /\ run' = Recorded([run EXCEPT !.entry.created = @ \cup {s},
                                        !.live = @ \ {g},
                                        !.made = Append(@, s)], "servers")
  /\ UNCHANGED <<rows, samples, token, legacy, hot, journal>> /\ Keep

\* Mutant: creation skipped, and the attachment with it.
AttachmentSkipped(g) == attached

Attachment(g) == IF g.attach THEN AttachAll(g.token, g.existing) ELSE attached

\* A server that exists takes the monitors left over.  Not journaled.
UseServer ==
  /\ run.pc = "servers" /\ run.live # {} /\ First(run.live).existing # 0
  /\ LET g == First(run.live)
         s == [id |-> g.existing, token |-> g.token, monitors |-> g.monitors]
     IN  /\ attached' = Attachment(g)
         /\ run' = [run EXCEPT !.live = @ \ {g}, !.kept = Append(@, s)]
  /\ UNCHANGED <<rows, samples, servers, nextServer, token, legacy, hot, journal>>
  /\ Keep

\* Phase B.
DropOrphan ==
  /\ run.pc = "orphans" /\ run.orphans # {}
  /\ LET g == First(run.orphans)
     IN  /\ token' = [m \in Monitors |-> IF m \in g.monitors THEN NoToken ELSE token[m]]
         /\ run' = Recorded([run EXCEPT
              !.entry.dropped = @ \cup {[monitor |-> m, token |-> g.token] : m \in g.monitors},
              !.orphans = @ \ {g}], "orphans")
  /\ UNCHANGED <<rows, samples, servers, nextServer, attached, legacy, hot, journal>>
  /\ Keep

\* Phase C.  The incident and its timeline note are two writes; the entry names
\* the incident after both.
ResolveIncident ==
  /\ run.pc = "incidents" /\ run.todo # {}
  /\ legacy' = legacy \ {Min(run.todo)}
  /\ Goto("note")
  /\ UNCHANGED <<rows, samples, servers, nextServer, token, attached, hot, journal>>
  /\ Keep

NoteIncident ==
  /\ run.pc = "note"
  /\ run' = Recorded([run EXCEPT !.entry.resolved = @ \cup {Min(run.todo)},
                                 !.todo = @ \ {Min(run.todo)}], "incidents")
  /\ UNCHANGED <<db, journal>> /\ Keep

\* Phase D.  The range is fixed when the sweep of a server starts.
StartSweep ==
  /\ run.pc = "sweeps" /\ run.made # <<>>
  /\ LET s == Head(run.made)
         ids == {x.reading : x \in {y \in rows : y.monitor \in s.monitors}}
     IN  run' = [run EXCEPT !.pc = IF ids = {} THEN "sweeps" ELSE "batch",
                            !.made = Tail(@), !.sweep = NewSweep(s.id, s.monitors),
                            !.from = IF ids = {} THEN 0 ELSE Min(ids),
                            !.hi = IF ids = {} THEN 0 ELSE Max(ids)]
  /\ UNCHANGED <<db, journal>> /\ Keep

\* A row without cpuPercent or ramPercent has no sample to become.
Convertible(x) == x.reading \notin Bare
AsSample(x, server) == [reading |-> x.reading, server |-> server]
AsRow(x, monitor) == [reading |-> x.reading, monitor |-> monitor]

\* Mutant: the batch is not restricted to the server's monitors.
BatchRowsOfAll(sw, from) == {x \in rows : x.reading \in from .. from + Batch - 1}

BatchRows(sw, from) ==
  {x \in rows : x.monitor \in sw.monitors /\ x.reading \in from .. from + Batch - 1}

\* One transaction: samples in, the same rows out.
SweepBatch ==
  /\ run.pc = "batch" /\ run.from <= run.hi
  /\ LET sw == run.sweep
         batch == BatchRows(sw, run.from)
         moved == {x \in batch : Convertible(x)}
     IN  /\ rows' = rows \ batch
         /\ samples' = samples \cup {AsSample(x, sw.server) : x \in moved}
         /\ run' = Recorded([run EXCEPT !.sweep.moved = @ \cup moved,
                                        !.sweep.bare = @ \cup (batch \ moved),
                                        !.from = @ + Batch], "batch")
  /\ UNCHANGED <<servers, nextServer, token, attached, legacy, hot, journal>>
  /\ Keep

EndSweep ==
  /\ run.pc = "batch" /\ run.from > run.hi
  /\ run' = [run EXCEPT !.pc = "sweeps", !.entry = EntryNow(run),
                        !.sweep = NewSweep(0, {})]
  /\ UNCHANGED <<db, journal>> /\ Keep

\* A phase with nothing left to do gives way to the next one.
NextPhase ==
  /\ \/ run.pc = "servers" /\ run.live = {} /\ Goto("orphans")
     \/ /\ run.pc = "orphans" /\ run.orphans = {}
        /\ run' = [run EXCEPT !.pc = "incidents", !.todo = legacy]
     \/ /\ run.pc = "incidents" /\ run.todo = {}
        /\ run' = [run EXCEPT !.pc = "sweeps", !.made = run.made \o run.kept]
     \/ /\ run.pc = "sweeps" /\ run.made = <<>>
        /\ run' = Recorded([run EXCEPT !.entry.outcome = "complete"], "idle")
  /\ UNCHANGED <<db, journal>> /\ Keep

\* An exception of any write: the batch assertion, a lock held too long.  Thrown
\* by a note, it leaves an incident resolved that the entry does not name.
Abort ==
  /\ run.pc \in {"servers", "orphans", "incidents", "note", "sweeps", "batch"}
  /\ Spend("abort")
  /\ WriteEntry(run, "aborted")
  /\ run' = Idle
  /\ mishaps' = IF run.pc = "note" THEN mishaps \cup {"unrecorded"} ELSE mishaps
  /\ UNCHANGED <<db, world>>

-----------------------------------------------------------------------------
(* servers:rollback                                                        *)

Applied == {i \in DOMAIN journal : ~journal[i].rolledBack}

\* Samples a server this entry created has taken in since.
NewerSamples(e) ==
  {x \in samples : x.reading > e.finished /\ \E c \in e.created : x.server = c.id}

LastMoved(sweeps) == IF sweeps = <<>> THEN {} ELSE Last(sweeps).moved

StartRollback ==
  /\ run.pc = "idle" /\ Applied # {}
  /\ NewerSamples(journal[Max(Applied)]) = {}
  /\ Spend("rollback")
  /\ LET e == journal[Max(Applied)]
     IN  run' = [Idle EXCEPT !.pc = "restore", !.entry = e, !.index = Max(Applied),
                             !.todo = LastMoved(e.sweeps)]
  /\ UNCHANGED <<db, world, journal, mishaps>>

\* Mutant: every reading goes back to the lowest monitor of its server.
MonitorForLowest(sw, r) == Lowest(sw.monitors)

MonitorFor(sw, r) ==
  IF \E x \in sw.moved : x.reading = r
  THEN (CHOOSE x \in sw.moved : x.reading = r).monitor
  ELSE Lowest(sw.monitors)

\* Mutant: restored, and left where it was.
SamplesKept(back) == samples

SamplesWithout(back) == samples \ back

\* restoreSamplesBatch: of the readings owner maps to a monitor, the samples
\* still on the server, in one transaction.
RestoreSamples(owner, server) ==
  LET back == {x \in samples : x.server = server /\ x.reading \in DOMAIN owner}
  IN  /\ rows' = rows \cup {AsRow(x, owner[x.reading]) : x \in back}
      /\ samples' = SamplesWithout(back)

RestoreBatch ==
  /\ run.pc = "restore" /\ run.entry.sweeps # <<>> /\ run.todo # {}
  /\ LET sw == Last(run.entry.sweeps)
     IN  RestoreSamples([r \in {x.reading : x \in FirstBatch(run.todo)} |-> MonitorFor(sw, r)],
                        sw.server)
  /\ run' = [run EXCEPT !.todo = @ \ FirstBatch(@)]
  /\ UNCHANGED <<servers, nextServer, token, attached, legacy, hot, journal>>
  /\ Keep

\* The rows come back with the uuid they had, which is unique: a second try
\* throws before it changes anything.
RestoreBare ==
  /\ run.pc = "restore" /\ run.entry.sweeps # <<>> /\ run.todo = {}
  /\ LET bare == Last(run.entry.sweeps).bare
         rest == Front(run.entry.sweeps)
     IN  IF bare \cap rows # {}
         THEN /\ run' = Idle
              /\ UNCHANGED rows
         ELSE /\ rows' = rows \cup bare
              /\ run' = [run EXCEPT !.entry.sweeps = rest, !.todo = LastMoved(rest)]
  /\ UNCHANGED <<samples, servers, nextServer, token, attached, legacy, hot, journal>>
  /\ Keep

Created == CHOOSE c \in run.entry.created : \A d \in run.entry.created : c.id <= d.id
OnServer(id) == {x \in samples : x.server = id}

\* What the agents pushed meanwhile goes to the lowest monitor, batch by batch.
RestoreRest ==
  /\ run.pc = "rest" /\ run.entry.created # {}
  /\ IF OnServer(Created.id) # {}
     THEN /\ RestoreSamples([r \in {x.reading : x \in FirstBatch(OnServer(Created.id))} |->
                               Lowest(Created.monitors)], Created.id)
          /\ UNCHANGED run
     ELSE Goto("close") /\ UNCHANGED <<rows, samples>>
  /\ UNCHANGED <<servers, nextServer, token, attached, legacy, hot, journal>>
  /\ Keep

CloseServerIncidents ==
  /\ run.pc = "close"
  /\ hot' = hot \ {Created.id}
  /\ Goto("delete")
  /\ UNCHANGED <<rows, samples, servers, nextServer, token, attached, legacy, journal>>
  /\ Keep

\* A push that landed since the rest was read stays behind with no server.
DeleteServer ==
  /\ run.pc = "delete"
  /\ LET id == Created.id
     IN  /\ attached' = [m \in Monitors |-> IF attached[m] = id THEN 0 ELSE attached[m]]
         /\ servers' = {s \in servers : s.id # id}
         /\ mishaps' = IF OnServer(id) = {} /\ id \notin hot THEN mishaps
                       ELSE mishaps \cup {"late"}
         /\ run' = [run EXCEPT !.pc = "rest", !.entry.created = @ \ {Created}]
  /\ UNCHANGED <<rows, samples, nextServer, token, legacy, hot, world, journal, left>>

RestoreToken ==
  /\ run.pc = "rest" /\ run.entry.created = {} /\ run.entry.dropped # {}
  /\ LET d == CHOOSE d \in run.entry.dropped : \A e \in run.entry.dropped : d.monitor <= e.monitor
     IN  /\ token' = [token EXCEPT ![d.monitor] = d.token]
         /\ run' = [run EXCEPT !.entry.dropped = @ \ {d}]
  /\ UNCHANGED <<rows, samples, servers, nextServer, attached, legacy, hot, journal>>
  /\ Keep

ReopenIncident ==
  /\ run.pc = "reopen" /\ run.entry.resolved # {}
  /\ legacy' = legacy \cup {Min(run.entry.resolved)}
  /\ run' = [run EXCEPT !.entry.resolved = @ \ {Min(@)}]
  /\ UNCHANGED <<rows, samples, servers, nextServer, token, attached, hot, journal>>
  /\ Keep

NextRollbackPhase ==
  /\ \/ run.pc = "restore" /\ run.entry.sweeps = <<>> /\ Goto("rest")
     \/ /\ run.pc = "rest" /\ run.entry.created = {} /\ run.entry.dropped = {}
        /\ Goto("reopen")
  /\ UNCHANGED <<db, journal>> /\ Keep

MarkRolledBack ==
  /\ run.pc = "reopen" /\ run.entry.resolved = {}
  /\ journal' = [journal EXCEPT ![run.index].rolledBack = TRUE]
  /\ run' = Idle
  /\ UNCHANGED <<db>> /\ Keep

-----------------------------------------------------------------------------
(* The environment                                                         *)

\* What the file says of the entry under way.
Written(st) == IF st.index \in DOMAIN journal THEN journal[st.index] ELSE NewEntry
Facts(e) == <<e.created, e.sweeps, e.dropped, e.resolved>>

\* A write has landed that the file does not name.
Unwritten ==
  run.pc = "note" \/ (run.pc = "flush" /\ Facts(EntryNow(run)) # Facts(Written(run)))

\* The process is killed.  Between a write and its flush the write is unrecorded.
Die ==
  /\ run.pc # "idle"
  /\ Spend("die")
  /\ run' = Idle
  /\ mishaps' = IF Unwritten THEN mishaps \cup {"unrecorded"} ELSE mishaps
  /\ UNCHANGED <<db, world, journal>>

\* ReceiveMetricsAction: the token is looked up among servers, then monitors.
StartPush(t) ==
  /\ push.pc = "idle"
  /\ Spend("push")
  /\ LET holders == {m \in Monitors : token[m] = t}
         r == Len(source) + 1
     IN  /\ ServersWith(t) # {} \/ holders # {}
         /\ push' = IF ServersWith(t) # {}
                    THEN [pc |-> "server", reading |-> r,
                          server |-> Min(ServersWith(t)), monitor |-> 0]
                    ELSE [pc |-> "legacy", reading |-> r, server |-> 0,
                          monitor |-> Lowest(holders)]
         /\ source' = Append(source, t)
  /\ UNCHANGED <<db, journal, run, mishaps>>

\* The sample is committed whatever has become of the server.
LandOnServer ==
  /\ push.pc = "server"
  /\ samples' = samples \cup {[reading |-> push.reading, server |-> push.server]}
  /\ mishaps' = IF \E s \in servers : s.id = push.server THEN mishaps
                ELSE mishaps \cup {"late"}
  /\ push' = [NoPush EXCEPT !.pc = "incident", !.server = push.server]
  /\ UNCHANGED <<rows, servers, nextServer, token, attached, legacy, hot, source,
                 journal, run, left>>

\* The incidents follow the commit, for the server that was read at the start:
\* a breach leaves one open, a healthy fleet none.
ReconcileServer(breach) ==
  /\ push.pc = "incident"
  /\ hot' = IF breach THEN hot \cup {push.server} ELSE hot \ {push.server}
  /\ mishaps' = IF ~breach \/ \E s \in servers : s.id = push.server THEN mishaps
                ELSE mishaps \cup {"late"}
  /\ push' = NoPush
  /\ UNCHANGED <<rows, samples, servers, nextServer, token, attached, legacy, source,
                 journal, run, left>>

LandOnMonitor ==
  /\ push.pc = "legacy"
  /\ rows' = rows \cup {[reading |-> push.reading, monitor |-> push.monitor]}
  /\ push' = [NoPush EXCEPT !.pc = "edge", !.monitor = push.monitor]
  /\ UNCHANGED <<samples, servers, nextServer, token, attached, legacy, hot, source,
                 journal, run, mishaps, left>>

\* On the edge to 'degraded' the old path opens an incident, on recovery it
\* resolves one: agents move what the rollback is to bring back.
ReconcileMonitor(open) ==
  /\ push.pc = "edge"
  /\ legacy' = IF open THEN legacy \cup {push.monitor} ELSE legacy \ {push.monitor}
  /\ mishaps' = IF legacy' = legacy THEN mishaps ELSE mishaps \cup {"pushed"}
  /\ push' = NoPush
  /\ UNCHANGED <<rows, samples, servers, nextServer, token, attached, hot, source,
                 journal, run, left>>

\* DashboardAttachServerAction with an empty server_id.
Detach(m) ==
  /\ attached[m] # 0
  /\ Spend("detach")
  /\ attached' = [attached EXCEPT ![m] = 0]
  /\ mishaps' = IF run.pc = "idle" THEN mishaps ELSE mishaps \cup {"detached"}
  /\ UNCHANGED <<rows, samples, servers, nextServer, token, legacy, hot, world, journal, run>>

Init ==
  /\ rows = {[reading |-> r, monitor |-> OwnerOf[r]] : r \in DOMAIN OwnerOf}
  /\ samples = {} /\ servers = {} /\ nextServer = 1
  /\ token = TokenOf
  /\ attached = [m \in Monitors |-> 0]
  /\ legacy = LegacyOpen
  /\ hot = {}
  /\ source = [r \in DOMAIN OwnerOf |-> TokenOf[OwnerOf[r]]]
  /\ journal = <<>>
  /\ run = Idle /\ push = NoPush
  /\ mishaps = {}
  /\ left = Budget

Backfilling ==
  \/ StartBackfill \/ Flush \/ CreateServer \/ UseServer \/ DropOrphan
  \/ ResolveIncident \/ NoteIncident \/ StartSweep \/ SweepBatch \/ EndSweep
  \/ NextPhase \/ Abort
RollingBack ==
  \/ StartRollback \/ RestoreBatch \/ RestoreBare \/ RestoreRest
  \/ CloseServerIncidents \/ DeleteServer \/ RestoreToken \/ ReopenIncident
  \/ NextRollbackPhase \/ MarkRolledBack

Next ==
  \/ Backfilling \/ RollingBack \/ Die
  \/ \E t \in Tokens : StartPush(t)
  \/ LandOnServer \/ \E breach \in BOOLEAN : ReconcileServer(breach)
  \/ LandOnMonitor \/ \E open \in BOOLEAN : ReconcileMonitor(open)
  \/ \E m \in Monitors : Detach(m)

Spec == Init /\ [][Next]_vars

-----------------------------------------------------------------------------
(* Properties                                                              *)

\* The types of the variables.
TypeOK ==
  /\ rows \in SUBSET Row
  /\ samples \in SUBSET Sample
  /\ servers \in SUBSET [id: Nat, token: Tokens]
  /\ nextServer \in Nat
  /\ token \in [Monitors -> Tokens \cup {NoToken}]
  /\ attached \in [Monitors -> Nat]
  /\ legacy \subseteq Monitors
  /\ hot \subseteq Nat
  /\ source \in Seq(Tokens)
  /\ journal \in Seq(Entry)
  /\ run.entry \in Entry /\ run.sweep \in Sweep
  /\ mishaps \subseteq {"unrecorded", "late", "pushed", "detached"}
  /\ left \in [Events -> Nat]

AtRest == run.pc = "idle" /\ push.pc = "idle"
Landed == {r \in DOMAIN source : r # push.reading}
RowsOf(r) == {x \in rows : x.reading = r}
SamplesOf(r) == {x \in samples : x.reading = r}

\* A reading an agent was told is recorded is a row or a sample, one of the two
\* and only once, whatever was moved, restored, repeated or killed half-way.
ReadingsKeptOnce ==
  \A r \in Landed \ Bare : Cardinality(RowsOf(r)) + Cardinality(SamplesOf(r)) = 1

\* Boxes never mix: a reading stays with monitors and servers of the token it
\* came with, on the way there and on the way back.
BoxesNeverMix ==
  /\ \A x \in rows : TokenOf[x.monitor] = source[x.reading]
  /\ \A x \in samples, s \in servers : x.server = s.id => s.token = source[x.reading]

\* A rollback of everything restores what the first run found: every reading
\* on the monitor it had, the tokens, no server, no server incident, and the
\* metric incidents no agent moved since, whatever ran twice, aborted or died,
\* provided no write went unrecorded and no push wrote to a server, sample or
\* incident, between the last look at it and its deletion or later.
RoundTrip ==
  AtRest /\ journal # <<>> /\ Applied = {} /\ mishaps \cap {"unrecorded", "late"} = {} =>
    /\ \A r \in DOMAIN OwnerOf : RowsOf(r) = {[reading |-> r, monitor |-> OwnerOf[r]]}
    /\ samples = {} /\ servers = {} /\ hot = {}
    /\ token = TokenOf /\ ("pushed" \notin mishaps => legacy = LegacyOpen)
    /\ \A m \in Monitors : attached[m] = 0

\* A run that is recorded complete leaves no monitor with a token and without
\* the server of that token, servers of earlier runs included.
CompleteMeansServed ==
  run.pc = "flush" /\ run.then = "idle" /\ "detached" \notin mishaps =>
    \A m \in Monitors : token[m] # NoToken =>
      \E s \in servers : s.id = attached[m] /\ s.token = token[m]
=============================================================================
