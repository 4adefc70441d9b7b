----------------------------- MODULE AlertingProofs -----------------------------
(***************************************************************************)
(* Proofs about Alerting, and about the maintenance window under it, for   *)
(* every set of schedules, subscribers and channels and every budget.      *)
(***************************************************************************)
EXTENDS Alerting, WellFoundedInduction, TLAPS

(***************************************************************************)
(* The invariants.                                                         *)
(***************************************************************************)
Instants == 0..MaxTime
Incident == [status : {"investigating", "identified", "resolved"}, severity : Severities,
             started : Instants, since : Instants]
Event == [kind : {"created", "updated"}, id : Ids,
          status : {"investigating", "identified", "resolved"}, severity : Severities,
          started : Instants]
Job == [to : Channels, notice : Notices, id : Ids, try : 1..Tries]

\* A bag of members of S.
BagOf(S, b) == DOMAIN b \subseteq S /\ \A x \in DOMAIN b : b[x] \in Nat \ {0}

\* The types of the window and of the two jobs; the clock has not outrun
\* its budget.
WindowInv ==
  /\ now \in Nat /\ now + left["tick"] <= MaxTime
  /\ window \in Rows /\ attached \in BOOLEAN
  /\ (window.status # "none" => window.plan \in Schedules)
  /\ intent \in [status : Statuses \cup {"none"}, at : Never..MaxTime] /\ intent.at <= now
  /\ sync \in [row : Rows, at : Never..MaxTime]
  /\ announce \in [start : Starts \cup {Never}, todo : SUBSET Subscribers]
  /\ (announce # Silent => announce.start \in Starts)
  /\ mailed \in [Subscribers -> [Starts -> Nat]]
  /\ left \in [Events -> Nat] /\ spent \in [Events -> Nat]

\* The types of the incidents, and of what is on its way about them.
IncidentsOK ==
  /\ incidents \in Seq(Incident) /\ Len(incidents) <= MaxIncidents
  /\ \A i \in 1..Len(incidents) :
       incidents[i].started <= incidents[i].since /\ incidents[i].since <= now

EventsOK ==
  /\ BagOf(Event, events)
  /\ \A e \in DOMAIN events :
       e.id \in 1..Len(incidents) /\ e.started = incidents[e.id].started
       /\ (e.kind = "created" => e.status = "investigating")

JobsOK ==
  /\ BagOf(Job, jobs)
  /\ \A j \in DOMAIN jobs : j.id \in 1..Len(incidents)

HeardOK ==
  /\ heard \in [Channels -> [Notices -> [Ids -> Nat]]]
  /\ \A c \in Channels, n \in Notices, i \in Ids :
       heard[c][n][i] > 0 => i \in 1..Len(incidents)

AlertInv ==
  /\ failing \in BOOLEAN /\ look \in Never..MaxTime /\ look <= now
  /\ IncidentsOK /\ EventsOK /\ JobsOK /\ HeardOK
  /\ route \in [Channels -> Routes] /\ enabled \in [Channels -> BOOLEAN]

\* No occurrence of the plan that is still to come begins before s.
NoneBefore(s) == \A o \in Occurrences(window.plan) : o.start < now \/ o.start >= s

\* The occurrence the row's stamp names, or is about to.
Named == IF announce = Silent THEN window.notified ELSE announce.start

\* The occurrence s cannot be announced again as things are.
Barred(s) ==
  \/ ~Exists
  \/ \A o \in Occurrences(window.plan) : o.start # s
  \/ s < now
  \/ s = Named /\ NoneBefore(s)

\* What may still be added to the mails of u about s without another crash
\* or save: the mail of the run in flight, and those of one more run.
InHand(u, s) == IF u \in announce.todo /\ announce.start = s THEN 1 ELSE 0
InReach(s) == IF Barred(s) THEN 0 ELSE 1

MailInv ==
  /\ left["create"] <= 1
  /\ left["create"] > 0 =>
       ~Exists /\ announce = Silent /\ \A u \in Subscribers, s \in Starts : mailed[u][s] = 0
  /\ \A u \in Subscribers, s \in Starts :
       mailed[u][s] + InHand(u, s) + InReach(s) <= 1 + spent["crash"] + spent["save"]

\* What the operator left in force is in force, whatever the status job
\* writes: it never cancels a window and never brings one back.
ForceInv ==
  /\ intent.status \notin {"none", "cancelled"} => window.status \notin {"none", "cancelled"}
  /\ sync # Resting => sync.row.status \in {"scheduled", "active"}

\* The incident began inside a window left alone since before it did.
Planned(i) ==
  /\ intent.status \notin {"none", "cancelled"}
  /\ attached /\ intent.at < incidents[i].started
  /\ Covers(window.plan, incidents[i].started)

QuietInv ==
  \A i \in 1..Len(incidents) :
    Planned(i) =>
      /\ \A c \in Channels : heard[c]["opened"][i] = 0
      /\ \A j \in DOMAIN jobs : ~(j.notice = "opened" /\ j.id = i)

\* The news of incident i that starts notices of kind n, and the job that
\* carries one.
News(n, i, sev) ==
  [kind |-> IF n = "opened" THEN "created" ELSE "updated", id |-> i,
   status |-> IF n = "opened" THEN "investigating" ELSE "resolved",
   severity |-> sev, started |-> incidents[i].started]
Attempt(c, n, i, t) == [to |-> c, notice |-> n, id |-> i, try |-> t]

Copies(b, x) == IF x \in DOMAIN b THEN b[x] ELSE 0

\* How often c has been told, or will be by what is on its way.
Unread(n, i) == Copies(events, News(n, i, "down")) + Copies(events, News(n, i, "issue"))
Queued(c, n, i) == Copies(jobs, Attempt(c, n, i, 1)) + Copies(jobs, Attempt(c, n, i, 2))
                   + Copies(jobs, Attempt(c, n, i, 3))
Tally(c, n, i) == Unread(n, i) + Queued(c, n, i) + heard[c][n][i]

\* An incident opens once; a failed attempt may add a notice, a patch a
\* recovery, and an incident that is not resolved still has one to come.
Allowed(n, i) ==
  IF n = "opened" THEN 1 + spent["fail"]
  ELSE spent["fail"] + spent["patch"] + (IF incidents[i].status = "resolved" THEN 1 ELSE 0)

TallyInv ==
  \A i \in 1..Len(incidents), c \in Channels, n \in Notices :
    Tally(c, n, i) <= Allowed(n, i)

\* Of an incident that is not resolved no recovery has been told, or is on
\* its way, if nobody patched one.
StandingInv ==
  \A i \in 1..Len(incidents) :
    spent["patch"] = 0 /\ incidents[i].status # "resolved" =>
      /\ \A c \in Channels : heard[c]["resolved"][i] = 0
      /\ \A j \in DOMAIN jobs : ~(j.notice = "resolved" /\ j.id = i)
      /\ \A e \in DOMAIN events :
           ~(e.kind = "updated" /\ e.status = "resolved" /\ e.id = i)

(***************************************************************************)
(* Bags.                                                                   *)
(***************************************************************************)
\* Adding a set to a bag adds one copy of each of its members.
LEMMA AddedToBag ==
  ASSUME NEW S, NEW b, BagOf(S, b), NEW T \in SUBSET S
  PROVE  /\ BagOf(S, b (+) SetToBag(T))
         /\ DOMAIN (b (+) SetToBag(T)) = DOMAIN b \cup T
         /\ \A x : Copies(b (+) SetToBag(T), x) = Copies(b, x) + (IF x \in T THEN 1 ELSE 0)
<1> DEFINE more == [x \in T |-> 1]
           sum == [x \in DOMAIN b \cup T |->
                     (IF x \in DOMAIN b THEN b[x] ELSE 0) + (IF x \in T THEN more[x] ELSE 0)]
<1>1. SetToBag(T) = more /\ DOMAIN more = T
  BY DEF SetToBag
<1>2. b (+) SetToBag(T) = sum
  BY <1>1 DEF (+)
<1>3. \A x \in T : more[x] = 1
  OBVIOUS
<1>4. /\ DOMAIN sum = DOMAIN b \cup T
      /\ \A x \in DOMAIN b \cup T :
           sum[x] = (IF x \in DOMAIN b THEN b[x] ELSE 0) + (IF x \in T THEN 1 ELSE 0)
  BY <1>3
<1> HIDE DEF sum, more
<1>5. \A x \in DOMAIN b : b[x] \in Nat \ {0}
  BY DEF BagOf
<1>6. QED
  BY <1>2, <1>4, <1>5 DEF BagOf, Copies

\* Taking a member out of a bag takes one copy of it.
LEMMA TakenFromBag ==
  ASSUME NEW S, NEW b, BagOf(S, b), NEW y \in DOMAIN b
  PROVE  /\ BagOf(S, b (-) SetToBag({y}))
         /\ DOMAIN (b (-) SetToBag({y})) \subseteq DOMAIN b
         /\ \A x : Copies(b (-) SetToBag({y}), x) = Copies(b, x) - (IF x = y THEN 1 ELSE 0)
<1> DEFINE one == [x \in {y} |-> 1]
           minus == [x \in DOMAIN b |-> IF x \in {y} THEN b[x] - one[x] ELSE b[x]]
           rest == [x \in {z \in DOMAIN b : minus[z] > 0} |-> minus[x]]
<1>1. SetToBag({y}) = one /\ DOMAIN one = {y}
  BY DEF SetToBag
<1>2. b (-) SetToBag({y}) = rest
  BY <1>1 DEF (-)
<1>3. \A x \in DOMAIN b : b[x] \in Nat \ {0}
  BY DEF BagOf
<1>4. ASSUME NEW x \in DOMAIN b PROVE minus[x] = b[x] - (IF x = y THEN 1 ELSE 0)
  BY <1>3
<1> HIDE DEF minus
<1>5. /\ DOMAIN rest = {z \in DOMAIN b : minus[z] > 0}
      /\ \A x \in DOMAIN rest : rest[x] = minus[x]
  OBVIOUS
<1> HIDE DEF rest
<1>6. \A x \in DOMAIN rest : x \in DOMAIN b /\ rest[x] \in Nat \ {0}
  BY <1>3, <1>4, <1>5
<1>7. \A x : Copies(rest, x) = Copies(b, x) - (IF x = y THEN 1 ELSE 0)
  BY <1>3, <1>4, <1>5 DEF Copies
<1>8. QED
  BY <1>2, <1>6, <1>7 DEF BagOf

\* The empty bag.
LEMMA NothingInBag ==
  ASSUME NEW S
  PROVE  BagOf(S, EmptyBag) /\ DOMAIN EmptyBag = {} /\ \A x : Copies(EmptyBag, x) = 0
BY DEF EmptyBag, SetToBag, BagOf, Copies

\* Copies are counted in natural numbers, and there is one of every member.
LEMMA CopiesCount ==
  ASSUME NEW S, NEW b, BagOf(S, b), NEW x
  PROVE  /\ Copies(b, x) \in Nat
         /\ x \in DOMAIN b <=> Copies(b, x) > 0
BY DEF BagOf, Copies

(***************************************************************************)
(* Occurrences and budgets.                                                *)
(***************************************************************************)
\* Every occurrence of a schedule begins at one of the instants the mails
\* are counted by.
LEMMA PlanStarts ==
  ASSUME NEW p \in Schedules, NEW o \in Occurrences(p)
  PROVE  o.start \in Starts /\ o.start \in Nat
BY MaintenanceAssumption DEF Occurrences, Starts

\* Starts are instants.
LEMMA StartsAreInstants == \A s \in Starts : s \in Nat
BY MaintenanceAssumption DEF Starts

\* A nonempty set of natural numbers has a least one.
LEMMA LeastExists ==
  ASSUME NEW S \in SUBSET Nat, S # {}
  PROVE  Min(S) \in S /\ \A x \in S : Min(S) <= x
<1> DEFINE less == {ss \in Nat \X Nat : ss[1] < ss[2]}
<1>1. IsWellFoundedOn(less, Nat)
  BY NatLessThanWellFounded DEF OpToRel
<1>2. PICK m \in S : \A x \in S : ~ (<<x, m>> \in less)
  <2> HIDE DEF less
  <2>1. QED
    BY <1>1, WFMin
<1>3. ASSUME NEW x \in S PROVE m <= x
  <2>1. m \in Nat /\ x \in Nat
    OBVIOUS
  <2>2. x < m => <<x, m>> \in less
    BY <2>1
  <2>3. QED
    BY <1>2, <2>1, <2>2
<1>4. QED
  BY <1>2, <1>3 DEF Min

\* What is announced: the first occurrence still to come, within the lead,
\* and not the one the row's stamp names.
LEMMA FreshIs ==
  ASSUME window.plan \in Schedules, now \in Nat, NEW s \in Fresh(now)
  PROVE  /\ s \in Starts /\ s >= now /\ s # window.notified
         /\ \E o \in Occurrences(window.plan) : o.start = s
         /\ \A o \in Occurrences(window.plan) : o.start < now \/ o.start >= s
<1> DEFINE soon == Upcoming(window.plan, now)
<1>1. \A x \in soon : \E o \in Occurrences(window.plan) :
        x = o.start /\ now <= o.start /\ o.start <= now + Lead
  BY DEF Upcoming
<1>2. \A o \in Occurrences(window.plan) :
        now <= o.start /\ o.start <= now + Lead => o.start \in soon
  BY DEF Upcoming
<1>3. s = Min(soon) /\ soon # {} /\ s # window.notified
  BY DEF Fresh
<1> HIDE DEF soon
<1>4. soon \in SUBSET Nat
  BY <1>1, PlanStarts
<1>5. s \in soon /\ \A x \in soon : s <= x
  BY <1>3, <1>4, LeastExists
<1>6. PICK o \in Occurrences(window.plan) : s = o.start /\ now <= s /\ s <= now + Lead
  BY <1>1, <1>5
<1>7. ASSUME NEW q \in Occurrences(window.plan), ~(q.start < now)
      PROVE  q.start >= s
  <2>1. q.start \in Nat /\ s \in Nat /\ Lead \in Nat
    BY <1>6, PlanStarts, MaintenanceAssumption
  <2>2. CASE q.start <= now + Lead
    BY <2>1, <2>2, <1>2, <1>5, <1>7
  <2>3. CASE q.start > now + Lead
    BY <2>1, <2>3, <1>6
  <2>4. QED
    BY <2>1, <2>2, <2>3
<1>8. s >= now /\ s \in Starts
  BY <1>6, PlanStarts
<1>9. QED
  BY <1>3, <1>6, <1>7, <1>8

\* An event that is charged lowers its budget and raises its count.
LEMMA Charged ==
  ASSUME left \in [Events -> Nat], spent \in [Events -> Nat], NEW e \in Events, Spend(e)
  PROVE  /\ left' \in [Events -> Nat] /\ spent' \in [Events -> Nat]
         /\ \A f \in Events : left'[f] <= left[f] /\ spent'[f] >= spent[f]
         /\ left'[e] < left[e] /\ spent'[e] = spent[e] + 1
         /\ \A f \in Events : f # e => spent'[f] = spent[f]
<1>1. left[e] > 0 /\ left["any"] > 0 /\ "any" \in Events
  BY DEF Spend, Events
<1>2. \A f \in Events : left'[f] = left[f] \/ (left'[f] = left[f] - 1 /\ left[f] > 0)
  BY <1>1 DEF Spend
<1>3. left'[e] = left[e] - 1
  BY <1>1 DEF Spend
<1>4. \A f \in Events : left'[f] \in Nat
  BY <1>2
<1>5. left' = [f \in Events |-> left'[f]]
  BY <1>1 DEF Spend
<1>6. left' \in [Events -> Nat]
  BY <1>4, <1>5
<1>7. spent' = [spent EXCEPT ![e] = @ + 1]
  BY DEF Spend
<1>8. QED
  BY <1>1, <1>2, <1>3, <1>6, <1>7

(***************************************************************************)
(* The steps of Alerting that are not the window's.                        *)
(***************************************************************************)
AlertNext ==
  \/ Change \/ CheckLook \/ CheckOpen \/ CheckPass \/ CrashListening
  \/ \E s \in Severities : CreateIncident(s)
  \/ \E i \in Ids : Acknowledge(i)
  \/ \E i \in Ids, st \in {"investigating", "identified", "resolved"}, s \in Severities :
       UpdateIncident(i, st, s)
  \/ \E e \in BagToSet(events) : Listen(e)
  \/ \E r \in [Channels -> Routes] : SaveRouting(r)
  \/ \E c \in Channels : Enable(c)
  \/ \E j \in BagToSet(jobs) : Send(j) \/ SendFails(j)

\* A step is the window's, another one's, or none.
LEMMA StepKinds ==
  ASSUME [Next]_vars
  PROVE  \/ MaintenanceNext /\ UNCHANGED alerting
         \/ AlertNext
         \/ UNCHANGED vars
BY Zenon DEF Next, AlertNext

\* Budgets only fall, counts only rise, and both keep their types.
BoundsStep ==
  /\ left' \in [Events -> Nat] /\ spent' \in [Events -> Nat]
  /\ \A f \in Events : left'[f] <= left[f] /\ spent'[f] >= spent[f]

\* Nothing spent is such a step too.
LEMMA NothingSpent ==
  ASSUME left \in [Events -> Nat], spent \in [Events -> Nat], UNCHANGED bounds
  PROVE  BoundsStep
BY DEF BoundsStep, bounds

\* The rest of the system leaves the window and its jobs alone.
LEMMA AsideOfTheWindow ==
  ASSUME left \in [Events -> Nat], spent \in [Events -> Nat], AlertNext
  PROVE  UNCHANGED maintenance /\ BoundsStep
<1>1. ASSUME NEW e \in {"change", "manual", "ack", "patch", "route", "fail", "crash"}, Spend(e)
      PROVE  BoundsStep
  <2>1. e \in Events
    BY DEF Events
  <2>2. QED
    BY <1>1, <2>1, Charged DEF BoundsStep
<1>2. CASE Change
  BY <1>1, <1>2 DEF Change
<1>3. CASE CheckLook \/ CheckOpen \/ CheckPass
  BY <1>3, NothingSpent DEF CheckLook, CheckOpen, CheckPass
<1>4. CASE CrashListening
  BY <1>1, <1>4 DEF CrashListening
<1>5. ASSUME NEW s \in Severities, CreateIncident(s) PROVE UNCHANGED maintenance /\ BoundsStep
  BY <1>1, <1>5 DEF CreateIncident
<1>6. ASSUME NEW i \in Ids, Acknowledge(i) PROVE UNCHANGED maintenance /\ BoundsStep
  BY <1>1, <1>6 DEF Acknowledge
<1>7. ASSUME NEW i \in Ids, NEW st, NEW s \in Severities, UpdateIncident(i, st, s)
      PROVE  UNCHANGED maintenance /\ BoundsStep
  BY <1>1, <1>7 DEF UpdateIncident
<1>8. ASSUME NEW e, Listen(e) PROVE UNCHANGED maintenance /\ BoundsStep
  BY <1>8, NothingSpent DEF Listen
<1>9. ASSUME NEW r, SaveRouting(r) PROVE UNCHANGED maintenance /\ BoundsStep
  BY <1>1, <1>9 DEF SaveRouting
<1>10. ASSUME NEW c, Enable(c) PROVE UNCHANGED maintenance /\ BoundsStep
  BY <1>1, <1>10 DEF Enable
<1>11. ASSUME NEW j, Send(j) PROVE UNCHANGED maintenance /\ BoundsStep
  BY <1>11, NothingSpent DEF Send
<1>12. ASSUME NEW j, SendFails(j) PROVE UNCHANGED maintenance /\ BoundsStep
  BY <1>1, <1>12 DEF SendFails
<1>13. QED
  BY <1>2, <1>3, <1>4, <1>5, <1>6, <1>7, <1>8, <1>9, <1>10, <1>11, <1>12, Zenon DEF AlertNext

(***************************************************************************)
(* Types of the window.                                                    *)
(***************************************************************************)
\* The status job leaves a status the code knows: never "none", and
\* "cancelled" only where it found it.
LEMMA DesiredType ==
  ASSUME NEW row \in Rows, row.status \in {"scheduled", "active"}, NEW t
  PROVE  Desired(row, t) \in {"scheduled", "active", "completed"}
BY DEF Desired

\* The types hold at first ...
LEMMA WindowInitially == Init => WindowInv
<1> SUFFICES ASSUME Init PROVE WindowInv
  OBVIOUS
<1> USE DEF Init, MaintenanceInit
<1>1. PICK b \in Budgets : left = b
  OBVIOUS
<1>2. left \in [Events -> Nat] /\ left["tick"] <= MaxTime /\ spent \in [Events -> Nat]
  BY <1>1, MaintenanceAssumption
<1>3. mailed \in [Subscribers -> [Starts -> Nat]]
  BY Zenon, 0 \in Nat
<1>4. left["tick"] \in Nat /\ MaxTime \in Nat
  BY <1>2, MaintenanceAssumption DEF Events
<1>5. window \in Rows /\ sync \in [row : Rows, at : Never..MaxTime]
  BY <1>4 DEF NoWindow, Rows, NoPlan, Resting, Never
<1>6. window.status = "none" /\ announce = Silent /\ Never = -1
  BY DEF NoWindow, Never
<1>7. /\ intent \in [status : Statuses \cup {"none"}, at : Never..MaxTime] /\ intent.at = -1
      /\ announce \in [start : Starts \cup {Never}, todo : SUBSET Subscribers]
  BY <1>4 DEF Silent, Never
<1>8. now = 0 /\ attached \in BOOLEAN
  OBVIOUS
<1> QED
  BY <1>2, <1>3, <1>4, <1>5, <1>6, <1>7, <1>8 DEF WindowInv

\* ... and every step keeps them.
LEMMA WindowKept == WindowInv /\ ForceInv /\ [Next]_vars => WindowInv' /\ BoundsStep
<1> SUFFICES ASSUME WindowInv, ForceInv, [Next]_vars PROVE WindowInv' /\ BoundsStep
  OBVIOUS
<1>1. left \in [Events -> Nat] /\ spent \in [Events -> Nat]
  BY DEF WindowInv
<1>2. "tick" \in Events /\ left["tick"] \in Nat /\ MaxTime \in Nat /\ now \in Never..MaxTime
      /\ now \in Nat
  BY <1>1, MaintenanceAssumption DEF Events, WindowInv, Never
<1>3. CASE UNCHANGED maintenance /\ BoundsStep
  <2>1. left'["tick"] <= left["tick"] /\ left'["tick"] \in Nat
    BY <1>2, <1>3 DEF BoundsStep
  <2>2. QED
    BY <1>2, <1>3, <2>1 DEF maintenance, job, WindowInv, BoundsStep
<1>4. CASE UNCHANGED vars
  BY <1>1, <1>3, <1>4, NothingSpent DEF vars
<1>5. CASE AlertNext
  BY <1>1, <1>3, <1>5, AsideOfTheWindow
<1>6. ASSUME NEW e \in Events, Spend(e) PROVE BoundsStep /\ left'["tick"] <= left["tick"]
                                              /\ left'["tick"] \in Nat
  BY <1>1, <1>2, <1>6, Charged DEF BoundsStep
<1>7. \A e \in {"create", "save", "attach", "delete", "announce", "crash"} : e \in Events
  BY DEF Events
<1>8. CASE Tick
  <2>1. left' \in [Events -> Nat] /\ left'["tick"] = left["tick"] - 1
        /\ \A f \in Events : left'[f] <= left[f]
    BY <1>1, <1>2, <1>8 DEF Tick
  <2>2. QED
    BY <1>1, <1>2, <1>8, <2>1 DEF Tick, BoundsStep, WindowInv, job
<1>9. ASSUME NEW p \in Schedules, NEW s \in Statuses, Create(p, s)
      PROVE  WindowInv' /\ BoundsStep
  <2>1. BoundsStep /\ left'["tick"] <= left["tick"] /\ left'["tick"] \in Nat
    BY <1>6, <1>7, <1>9 DEF Create
  <2>2. window' \in Rows /\ window'.plan = p
    BY <1>9 DEF Create, Rows
  <2>3. intent' \in [status : Statuses \cup {"none"}, at : Never..MaxTime] /\ intent'.at = now
    BY <1>2, <1>9 DEF Create, Intends
  <2>4. QED
    BY <1>2, <1>9, <2>1, <2>2, <2>3 DEF Create, WindowInv, BoundsStep, job
<1>10. ASSUME NEW p \in Schedules, NEW s \in Statuses, Save(p, s)
       PROVE  WindowInv' /\ BoundsStep
  <2>1. BoundsStep /\ left'["tick"] <= left["tick"] /\ left'["tick"] \in Nat
    BY <1>6, <1>7, <1>10 DEF Save
  <2>2. window' \in Rows /\ window'.plan = p
    BY <1>10 DEF Save, Rows, WindowInv
  <2>3. intent' \in [status : Statuses \cup {"none"}, at : Never..MaxTime] /\ intent'.at = now
    BY <1>2, <1>10 DEF Save, Intends
  <2>4. QED
    BY <1>2, <1>10, <2>1, <2>2, <2>3 DEF Save, WindowInv, BoundsStep, job
<1>11. CASE Attach \/ Remove
  <2>1. BoundsStep /\ left'["tick"] <= left["tick"] /\ left'["tick"] \in Nat
    BY <1>6, <1>7, <1>11 DEF Attach, Remove
  <2>2. intent' \in [status : Statuses \cup {"none"}, at : Never..MaxTime] /\ intent'.at = now
    BY <1>2, <1>11 DEF Attach, Remove, Intends, WindowInv
  <2>3. UNCHANGED <<now, window, sync, announce, mailed>> /\ attached' \in BOOLEAN
    BY <1>11 DEF Attach, Remove, job
  <2>4. QED
    BY <1>2, <2>1, <2>2, <2>3 DEF WindowInv, BoundsStep
<1>12. CASE Delete
  <2>1. BoundsStep /\ left'["tick"] <= left["tick"] /\ left'["tick"] \in Nat
    BY <1>6, <1>7, <1>12 DEF Delete
  <2>2. window' \in Rows /\ window'.status = "none"
    BY <1>12 DEF Delete, NoWindow, Rows, NoPlan
  <2>3. intent' \in [status : Statuses \cup {"none"}, at : Never..MaxTime] /\ intent'.at = now
    BY <1>2, <1>12 DEF Delete, Intends
  <2>4. UNCHANGED <<now, sync, announce, mailed>> /\ attached' \in BOOLEAN
    BY <1>12 DEF Delete, job
  <2>5. QED
    BY <1>2, <2>1, <2>2, <2>3, <2>4 DEF WindowInv, BoundsStep
<1>13. CASE SyncRead
  <2>1. sync' \in [row : Rows, at : Never..MaxTime]
    BY <1>2, <1>13 DEF SyncRead, WindowInv
  <2>2. UNCHANGED <<now, window, attached, intent, announce, mailed, left, spent>>
    BY <1>13 DEF SyncRead, bounds
  <2>3. QED
    BY <1>1, <2>1, <2>2, NothingSpent DEF WindowInv, bounds
<1>14. CASE SyncWrite
  <2>1. sync.row \in Rows /\ sync.row.status \in {"scheduled", "active"}
    BY <1>14 DEF SyncWrite, WindowInv, ForceInv
  <2>2. Desired(sync.row, sync.at) \in Statuses
    BY <2>1, DesiredType DEF Statuses
  <2>3. window' \in Rows /\ window'.plan = window.plan
        /\ (window'.status # "none" => window.status # "none")
    BY <1>14, <2>2 DEF SyncWrite, Rows, WindowInv, Exists
  <2>4. sync' \in [row : Rows, at : Never..MaxTime]
    BY <1>2, <1>14 DEF SyncWrite, Resting, NoWindow, Rows, NoPlan, Never
  <2>5. UNCHANGED <<now, attached, intent, announce, mailed, left, spent>>
    BY <1>14 DEF SyncWrite, bounds
  <2>6. QED
    BY <1>1, <2>3, <2>4, <2>5, NothingSpent DEF WindowInv, bounds
<1>15. CASE AnnounceRead
  <2>1. BoundsStep /\ left'["tick"] <= left["tick"] /\ left'["tick"] \in Nat
    BY <1>6, <1>7, <1>15 DEF AnnounceRead
  <2>2. PICK s \in Fresh(now) :
          announce' = [start |-> s, todo |-> IF attached THEN Subscribers ELSE {}]
    BY <1>15 DEF AnnounceRead
  <2>3. s \in Starts
    BY <1>2, <1>15, FreshIs DEF AnnounceRead, Exists, WindowInv
  <2>4. announce' \in [start : Starts \cup {Never}, todo : SUBSET Subscribers]
        /\ announce'.start \in Starts
    BY <2>2, <2>3
  <2>5. QED
    BY <1>2, <1>15, <2>1, <2>4 DEF AnnounceRead, WindowInv, BoundsStep
<1>16. ASSUME NEW u \in Subscribers, Mail(u) PROVE WindowInv' /\ BoundsStep
  <2>1. announce.start \in Starts
    BY <1>16 DEF Mail, WindowInv, Silent
  <2>2. mailed' \in [Subscribers -> [Starts -> Nat]]
    <3>1. mailed \in [Subscribers -> [Starts -> Nat]] /\ mailed[u][announce.start] \in Nat
      BY <2>1 DEF WindowInv
    <3>2. mailed' = mailed \/ mailed' = [mailed EXCEPT ![u][announce.start] = @ + 1]
      BY <1>16 DEF Mail
    <3>3. [mailed[u] EXCEPT ![announce.start] = @ + 1] \in [Starts -> Nat]
      BY <2>1, <3>1
    <3>4. QED
      BY <3>1, <3>2, <3>3
  <2>3. announce' \in [start : Starts \cup {Never}, todo : SUBSET Subscribers]
        /\ announce'.start = announce.start
    BY <1>16 DEF Mail, WindowInv
  <2>4. QED
    BY <1>1, <1>16, <2>1, <2>2, <2>3, NothingSpent DEF Mail, WindowInv, bounds
<1>17. CASE Stamp
  <2>1. announce' \in [start : Starts \cup {Never}, todo : SUBSET Subscribers]
    BY <1>17 DEF Stamp, Silent
  <2>2. announce.start \in Starts
    BY <1>17 DEF Stamp, WindowInv
  <2>3. window' \in Rows /\ window'.plan = window.plan /\ window'.status = window.status
    BY <1>17, <2>2 DEF Stamp, WindowInv, Rows
  <2>4. QED
    BY <1>1, <1>17, <2>1, <2>3, NothingSpent DEF Stamp, WindowInv, bounds
<1>18. CASE CrashJobs
  <2>1. BoundsStep /\ left'["tick"] <= left["tick"] /\ left'["tick"] \in Nat
    BY <1>6, <1>7, <1>18 DEF CrashJobs
  <2>2. /\ announce' \in [start : Starts \cup {Never}, todo : SUBSET Subscribers]
        /\ sync' \in [row : Rows, at : Never..MaxTime] /\ announce' = Silent
    BY <1>2, <1>18 DEF CrashJobs, Resting, NoWindow, Rows, NoPlan, Never, Silent
  <2>3. QED
    BY <1>2, <1>18, <2>1, <2>2 DEF CrashJobs, WindowInv, BoundsStep
<1>19. CASE MaintenanceNext
  BY <1>8, <1>9, <1>10, <1>11, <1>12, <1>13, <1>14, <1>15, <1>16, <1>17, <1>18, <1>19, Zenon
     DEF MaintenanceNext
<1>20. QED
  BY <1>4, <1>5, <1>19, StepKinds

(***************************************************************************)
(* What is in force.                                                       *)
(***************************************************************************)
\* The status job never cancels a window nor brings one back, so that what
\* an operator left in force stays in force.
LEMMA ForceKept == WindowInv /\ ForceInv /\ [Next]_vars => ForceInv'
<1> SUFFICES ASSUME WindowInv, ForceInv, [Next]_vars PROVE ForceInv'
  OBVIOUS
<1>1. left \in [Events -> Nat] /\ spent \in [Events -> Nat]
  BY DEF WindowInv
<1>2. CASE UNCHANGED <<window, intent, sync>>
  BY <1>2 DEF ForceInv
<1>3. CASE UNCHANGED vars
  BY <1>2, <1>3 DEF vars, maintenance, job
<1>4. CASE AlertNext
  BY <1>1, <1>2, <1>4, AsideOfTheWindow DEF maintenance, job
<1>5. ASSUME NEW p, NEW s, Create(p, s) \/ Save(p, s) PROVE ForceInv'
  <2>1. intent'.status = s /\ sync' = sync
    BY <1>5 DEF Create, Save, Intends, job
  <2>2. CASE Create(p, s)
    <3>1. window'.status = s
      BY <2>2 DEF Create
    <3>2. QED
      BY <2>1, <3>1 DEF ForceInv
  <2>3. CASE Save(p, s)
    <3>1. window'.status = s
      BY <2>3 DEF Save, WindowInv, Rows
    <3>2. QED
      BY <2>1, <3>1 DEF ForceInv
  <2>4. QED
    BY <1>5, <2>2, <2>3
<1>6. CASE Attach \/ Remove
  BY <1>6 DEF Attach, Remove, Intends, ForceInv, job
<1>7. CASE Delete
  BY <1>7 DEF Delete, Intends, ForceInv, job
<1>8. CASE SyncRead
  BY <1>8 DEF SyncRead, ForceInv
<1>9. CASE SyncWrite
  <2>1. Desired(sync.row, sync.at) \in {"scheduled", "active", "completed"}
    BY <1>9, DesiredType DEF SyncWrite, WindowInv, ForceInv
  <2>2. window'.status = window.status \/ window'.status \in {"scheduled", "active", "completed"}
    BY <1>9, <2>1 DEF SyncWrite, WindowInv, Rows
  <2>3. intent' = intent /\ sync' = Resting
    BY <1>9 DEF SyncWrite
  <2>4. QED
    BY <2>2, <2>3 DEF ForceInv
<1>10. CASE Tick \/ AnnounceRead \/ \E u \in Subscribers : Mail(u)
  BY <1>2, <1>10, Zenon DEF Tick, AnnounceRead, Mail, job
<1>11. CASE Stamp
  <2>1. window'.status = window.status /\ intent' = intent /\ sync' = sync
    BY <1>11 DEF Stamp, WindowInv, Rows
  <2>2. QED
    BY <2>1 DEF ForceInv
<1>12. CASE CrashJobs
  BY <1>12 DEF CrashJobs, ForceInv
<1>13. CASE MaintenanceNext
  BY <1>5, <1>6, <1>7, <1>8, <1>9, <1>10, <1>11, <1>12, <1>13, Zenon DEF MaintenanceNext
<1>14. QED
  BY <1>3, <1>4, <1>13, StepKinds

\* The window's types, and what is in force, throughout.
THEOREM WindowThroughout == Spec => [](WindowInv /\ ForceInv)
<1>1. Init => ForceInv
  BY DEF Init, MaintenanceInit, ForceInv
<1>2. QED
  BY <1>1, WindowInitially, WindowKept, ForceKept, PTL DEF Spec

(***************************************************************************)
(* The mails.                                                              *)
(***************************************************************************)
\* What is left to come is counted in ones and zeros.
LEMMA InHandInReach ==
  ASSUME NEW u, NEW s
  PROVE  InHand(u, s) \in 0..1 /\ InReach(s) \in 0..1
BY DEF InHand, InReach

\* No window is left to create once there was one, or a run of the job.
LEMMA NoneToCreate ==
  ASSUME WindowInv, MailInv, Exists \/ announce # Silent
  PROVE  left["create"] = 0
<1>1. left["create"] \in Nat
  BY DEF WindowInv, Events
<1>2. QED
  BY <1>1 DEF MailInv

\* The count of mails survives a step in which neither the mails sent nor
\* those to come are more.
LEMMA MailsNoMore ==
  ASSUME WindowInv, MailInv, BoundsStep, UNCHANGED mailed,
         left["create"] = 0 \/ (~Exists' /\ announce' = Silent),
         \A u \in Subscribers, s \in Starts :
           InHand(u, s)' <= InHand(u, s) /\ InReach(s)' <= InReach(s)
  PROVE  MailInv'
<1>1. /\ left'["create"] \in Nat /\ left'["create"] <= left["create"] /\ left["create"] \in Nat
      /\ spent["crash"] \in Nat /\ spent["save"] \in Nat
      /\ spent'["crash"] \in Nat /\ spent'["save"] \in Nat
      /\ spent'["crash"] >= spent["crash"] /\ spent'["save"] >= spent["save"]
  BY DEF WindowInv, BoundsStep, Events
<1>2. ASSUME NEW u \in Subscribers, NEW s \in Starts
      PROVE  mailed'[u][s] + InHand(u, s)' + InReach(s)' <= 1 + spent'["crash"] + spent'["save"]
  <2>1. mailed[u][s] \in Nat /\ mailed'[u][s] = mailed[u][s]
    BY DEF WindowInv
  <2>2. /\ InHand(u, s)' <= InHand(u, s) /\ InReach(s)' <= InReach(s)
        /\ mailed[u][s] + InHand(u, s) + InReach(s) <= 1 + spent["crash"] + spent["save"]
    BY DEF MailInv
  <2>3. InHand(u, s) \in 0..1 /\ InReach(s) \in 0..1
    BY InHandInReach
  <2>4. InHand(u, s)' \in 0..1 /\ InReach(s)' \in 0..1
    BY DEF InHand, InReach
  <2>5. QED
    BY <1>1, <2>1, <2>2, <2>3, <2>4
<1>3. left'["create"] > 0 =>
        ~Exists' /\ announce' = Silent /\ \A u \in Subscribers, s \in Starts : mailed'[u][s] = 0
  BY <1>1 DEF MailInv
<1>4. QED
  BY <1>1, <1>2, <1>3 DEF MailInv

\* Nor if a crash or a save is charged and no mail is in hand that was not.
LEMMA MailsForgiven ==
  ASSUME WindowInv, MailInv, BoundsStep, UNCHANGED mailed,
         left["create"] = 0 \/ (~Exists' /\ announce' = Silent),
         NEW e \in {"crash", "save"}, Spend(e),
         \A u \in Subscribers, s \in Starts : InHand(u, s)' <= InHand(u, s)
  PROVE  MailInv'
<1>1. /\ left'["create"] \in Nat /\ left'["create"] <= left["create"] /\ left["create"] \in Nat
      /\ spent["crash"] \in Nat /\ spent["save"] \in Nat
      /\ spent'["crash"] \in Nat /\ spent'["save"] \in Nat
      /\ spent'["crash"] + spent'["save"] >= spent["crash"] + spent["save"] + 1
  <2>1. "crash" \in Events /\ "save" \in Events /\ "create" \in Events
    BY DEF Events
  <2>2. spent'[e] = spent[e] + 1
    BY <2>1, Charged DEF WindowInv
  <2>3. QED
    BY <2>1, <2>2 DEF WindowInv, BoundsStep
<1>2. ASSUME NEW u \in Subscribers, NEW s \in Starts
      PROVE  mailed'[u][s] + InHand(u, s)' + InReach(s)' <= 1 + spent'["crash"] + spent'["save"]
  <2>1. mailed[u][s] \in Nat /\ mailed'[u][s] = mailed[u][s]
    BY DEF WindowInv
  <2>2. /\ InHand(u, s)' <= InHand(u, s)
        /\ mailed[u][s] + InHand(u, s) + InReach(s) <= 1 + spent["crash"] + spent["save"]
    BY DEF MailInv
  <2>3. InHand(u, s) \in 0..1 /\ InReach(s) \in 0..1
    BY InHandInReach
  <2>4. InHand(u, s)' \in 0..1 /\ InReach(s)' \in 0..1
    BY DEF InHand, InReach
  <2>5. QED
    BY <1>1, <2>1, <2>2, <2>3, <2>4
<1>3. left'["create"] > 0 =>
        ~Exists' /\ announce' = Silent /\ \A u \in Subscribers, s \in Starts : mailed'[u][s] = 0
  BY <1>1 DEF MailInv
<1>4. QED
  BY <1>1, <1>2, <1>3 DEF MailInv

\* The job takes up the first occurrence it may: it was within reach, is no
\* longer, and nothing else has come within reach.
LEMMA AnnounceKeepsMails ==
  ASSUME WindowInv, MailInv, AnnounceRead, BoundsStep
  PROVE  MailInv'
<1>1. PICK s0 \in Fresh(now) :
        announce' = [start |-> s0, todo |-> IF attached THEN Subscribers ELSE {}]
  BY DEF AnnounceRead
<1>2. /\ s0 \in Starts /\ s0 >= now /\ s0 # window.notified
      /\ \E o \in Occurrences(window.plan) : o.start = s0
      /\ \A o \in Occurrences(window.plan) : o.start < now \/ o.start >= s0
  BY FreshIs DEF WindowInv, AnnounceRead, Exists
<1>3. /\ Exists /\ announce = Silent /\ UNCHANGED <<now, window, mailed>>
      /\ announce'.start = s0 /\ announce' # Silent /\ now \in Nat /\ s0 \in Nat
      /\ window.plan \in Schedules
  BY <1>1, <1>2, StartsAreInstants DEF AnnounceRead, Silent, Never, WindowInv, Exists
<1>4. left["create"] = 0
  BY <1>3, NoneToCreate
<1>5. ASSUME NEW u \in Subscribers, NEW s \in Starts
      PROVE  InHand(u, s)' + InReach(s)' <= InHand(u, s) + InReach(s)
  <2>1. InHand(u, s) = 0
    BY <1>3 DEF InHand, Silent
  <2>2. CASE s = s0
    <3>1. ~Barred(s)
      BY <1>2, <1>3, <2>2 DEF Barred, Named
    <3>2. Barred(s)'
      BY <1>2, <1>3, <2>2 DEF Barred, Named, NoneBefore
    <3>3. QED
      BY <2>1, <3>1, <3>2 DEF InHand, InReach
  <2>3. CASE s # s0
    <3>1. InHand(u, s)' = 0
      BY <1>3, <2>3 DEF InHand
    <3>2. ASSUME Barred(s) PROVE Barred(s)'
      <4>1. CASE ~Exists \/ (\A o \in Occurrences(window.plan) : o.start # s) \/ s < now
        BY <1>3, <4>1 DEF Barred, Exists
      <4>2. CASE NoneBefore(s) /\ \E o \in Occurrences(window.plan) : o.start = s
        <5>1. s0 >= s /\ s \in Nat
          BY <1>2, <1>3, <4>2, StartsAreInstants DEF NoneBefore
        <5>2. s < now \/ s >= s0
          BY <1>2, <4>2
        <5>3. s < now
          BY <1>3, <2>3, <5>1, <5>2
        <5>4. QED
          BY <1>3, <5>3 DEF Barred
      <4>3. QED
        BY <3>2, <4>1, <4>2 DEF Barred
    <3>3. QED
      BY <2>1, <3>1, <3>2 DEF InReach
  <2>4. QED
    BY <2>2, <2>3
<1>6. /\ left'["create"] \in Nat /\ left'["create"] <= left["create"]
      /\ spent["crash"] \in Nat /\ spent["save"] \in Nat
      /\ spent'["crash"] \in Nat /\ spent'["save"] \in Nat
      /\ spent'["crash"] >= spent["crash"] /\ spent'["save"] >= spent["save"]
  BY DEF WindowInv, BoundsStep, Events
<1>7. ASSUME NEW u \in Subscribers, NEW s \in Starts
      PROVE  mailed'[u][s] + InHand(u, s)' + InReach(s)' <= 1 + spent'["crash"] + spent'["save"]
  <2>1. mailed[u][s] \in Nat /\ mailed'[u][s] = mailed[u][s]
    BY <1>3 DEF WindowInv
  <2>2. mailed[u][s] + InHand(u, s) + InReach(s) <= 1 + spent["crash"] + spent["save"]
    BY DEF MailInv
  <2>3. InHand(u, s) \in 0..1 /\ InReach(s) \in 0..1
    BY InHandInReach
  <2>4. InHand(u, s)' \in 0..1 /\ InReach(s)' \in 0..1
    BY DEF InHand, InReach
  <2>5. QED
    BY <1>5, <1>6, <2>1, <2>2, <2>3, <2>4
<1>8. QED
  BY <1>4, <1>6, <1>7 DEF MailInv

\* A mail that is sent was in hand.
LEMMA MailKeepsMails ==
  ASSUME WindowInv, MailInv, NEW v \in Subscribers, Mail(v), BoundsStep
  PROVE  MailInv'
<1>1. /\ v \in announce.todo /\ announce.todo \subseteq Subscribers
      /\ announce' = [announce EXCEPT !.todo = @ \ {v}]
      /\ UNCHANGED <<now, window, left, spent>>
      /\ announce \in [start : Starts \cup {Never}, todo : SUBSET Subscribers]
  BY DEF Mail, WindowInv, bounds
<1>2. announce # Silent /\ announce.start \in Starts /\ announce.start # Never
  BY <1>1, StartsAreInstants DEF WindowInv, Silent, Never
<1>3. announce'.start = announce.start /\ announce'.todo = announce.todo \ {v}
      /\ announce' # Silent
  BY <1>1, <1>2 DEF Silent
<1>4. left["create"] = 0
  BY <1>2, NoneToCreate
<1>5. ASSUME NEW u \in Subscribers, NEW s \in Starts
      PROVE  mailed'[u][s] + InHand(u, s)' + InReach(s)' <= 1 + spent'["crash"] + spent'["save"]
  <2>1. Barred(s)' <=> Barred(s)
    BY <1>1, <1>2, <1>3 DEF Barred, Named, NoneBefore, Exists
  <2>2. InReach(s)' = InReach(s)
    BY <2>1 DEF InReach
  <2>3. mailed[u][s] \in Nat /\ mailed[v][announce.start] \in Nat
        /\ mailed \in [Subscribers -> [Starts -> Nat]]
    BY <1>2 DEF WindowInv
  <2>4. mailed[u][s] + InHand(u, s) + InReach(s) <= 1 + spent["crash"] + spent["save"]
    BY DEF MailInv
  <2>5. InHand(u, s) \in 0..1 /\ InReach(s) \in 0..1
    BY InHandInReach
  <2>6. mailed' = mailed \/ mailed' = [mailed EXCEPT ![v][announce.start] = @ + 1]
    BY DEF Mail
  <2>7. CASE u = v /\ s = announce.start
    <3>1. mailed'[u][s] <= mailed[u][s] + 1 /\ mailed'[u][s] \in Nat
      BY <1>2, <2>3, <2>6, <2>7
    <3>2. InHand(u, s) = 1 /\ InHand(u, s)' = 0
      BY <1>1, <1>3, <2>7 DEF InHand
    <3>3. QED
      BY <1>1, <2>2, <2>3, <2>4, <2>5, <3>1, <3>2 DEF WindowInv, Events
  <2>8. CASE ~(u = v /\ s = announce.start)
    <3>1. mailed'[u][s] = mailed[u][s]
      BY <1>2, <2>3, <2>6, <2>8
    <3>2. InHand(u, s)' = InHand(u, s)
      BY <1>3, <2>8 DEF InHand
    <3>3. QED
      BY <1>1, <2>2, <2>4, <3>1, <3>2
  <2>9. QED
    BY <2>7, <2>8
<1>6. QED
  BY <1>1, <1>4, <1>5 DEF MailInv

\* Every step keeps the count of mails.
LEMMA MailsKept == WindowInv /\ ForceInv /\ MailInv /\ [Next]_vars => MailInv'
<1> SUFFICES ASSUME WindowInv, ForceInv, MailInv, [Next]_vars PROVE MailInv'
  OBVIOUS
<1>1. left \in [Events -> Nat] /\ spent \in [Events -> Nat] /\ BoundsStep
      /\ left["create"] \in Nat /\ now \in Nat
  BY WindowKept DEF WindowInv, Events
<1>2. left["create"] = 0 \/ (~Exists /\ announce = Silent)
  BY <1>1 DEF MailInv
<1>3. CASE UNCHANGED <<now, window, announce, mailed>>
  <2>1. \A u \in Subscribers, s \in Starts :
          InHand(u, s)' <= InHand(u, s) /\ InReach(s)' <= InReach(s)
    BY <1>3 DEF InHand, InReach, Barred, Named, NoneBefore, Exists
  <2>2. QED
    BY <1>1, <1>2, <1>3, <2>1, MailsNoMore DEF Exists
<1>4. CASE UNCHANGED vars
  BY <1>3, <1>4 DEF vars, maintenance, job
<1>5. CASE AlertNext
  BY <1>1, <1>3, <1>5, AsideOfTheWindow DEF maintenance, job
<1>6. CASE Tick
  <2>1. now' = now + 1 /\ UNCHANGED <<window, announce, mailed>>
    BY <1>6 DEF Tick, job
  <2>2. ASSUME NEW s \in Starts, Barred(s) PROVE Barred(s)'
    <3>1. s \in Nat
      BY StartsAreInstants
    <3>2. CASE ~Exists \/ (\A o \in Occurrences(window.plan) : o.start # s) \/ s < now
      BY <1>1, <2>1, <3>1, <3>2 DEF Barred, Exists
    <3>3. CASE Exists /\ s = Named /\ NoneBefore(s)
      <4>1. window.plan \in Schedules
        BY <3>3 DEF WindowInv, Exists
      <4>2. \A o \in Occurrences(window.plan) : o.start < now + 1 \/ o.start >= s
        BY <1>1, <3>3, <4>1, PlanStarts DEF NoneBefore
      <4>3. QED
        BY <2>1, <3>3, <4>2 DEF Barred, Named, NoneBefore
    <3>4. QED
      BY <2>2, <3>2, <3>3 DEF Barred
  <2>3. \A u \in Subscribers, s \in Starts :
          InHand(u, s)' <= InHand(u, s) /\ InReach(s)' <= InReach(s)
    BY <2>1, <2>2 DEF InHand, InReach
  <2>4. QED
    BY <1>1, <1>2, <2>1, <2>3, MailsNoMore DEF Exists
<1>7. ASSUME NEW p, NEW s, Create(p, s) PROVE MailInv'
  <2>1. /\ Spend("create") /\ announce' = announce /\ mailed' = mailed
    BY <1>7 DEF Create, job
  <2>2. left'["create"] < left["create"] /\ left["create"] > 0 /\ "create" \in Events
    BY <1>1, <2>1, Charged DEF Events, Spend
  <2>3. left'["create"] = 0 /\ left["create"] <= 1
    BY <1>1, <2>2 DEF BoundsStep, MailInv
  <2>4. announce = Silent /\ \A u \in Subscribers, t \in Starts : mailed[u][t] = 0
    BY <2>2 DEF MailInv
  <2>5. ASSUME NEW u \in Subscribers, NEW t \in Starts
        PROVE  mailed'[u][t] + InHand(u, t)' + InReach(t)' <= 1 + spent'["crash"] + spent'["save"]
    <3>1. mailed'[u][t] = 0 /\ InHand(u, t)' = 0 /\ InReach(t)' \in 0..1
      BY <2>1, <2>4 DEF InHand, InReach, Silent
    <3>2. spent'["crash"] \in Nat /\ spent'["save"] \in Nat
      BY <1>1 DEF BoundsStep, Events
    <3>3. QED
      BY <3>1, <3>2
  <2>6. QED
    BY <2>3, <2>5 DEF MailInv
<1>8. ASSUME NEW p, NEW s, Save(p, s) PROVE MailInv'
  <2>1. Exists /\ Spend("save") /\ announce' = announce /\ mailed' = mailed
    BY <1>8 DEF Save, job
  <2>2. \A u \in Subscribers, t \in Starts : InHand(u, t)' <= InHand(u, t)
    BY <2>1 DEF InHand
  <2>3. left["create"] = 0
    BY <2>1, NoneToCreate
  <2>4. QED
    BY <1>1, <2>1, <2>2, <2>3, MailsForgiven
<1>9. CASE Attach \/ Remove
  BY <1>3, <1>9 DEF Attach, Remove, job
<1>10. CASE Delete
  <2>1. Exists /\ window'.status = "none" /\ announce' = announce /\ mailed' = mailed
    BY <1>10 DEF Delete, NoWindow, job
  <2>2. \A s \in Starts : InReach(s)' = 0
    BY <2>1 DEF InReach, Barred, Exists
  <2>3. \A u \in Subscribers, s \in Starts :
          InHand(u, s)' <= InHand(u, s) /\ InReach(s)' <= InReach(s)
    BY <2>1, <2>2 DEF InHand, InReach
  <2>4. QED
    BY <1>1, <2>1, <2>3, NoneToCreate, MailsNoMore
<1>11. CASE SyncRead
  BY <1>3, <1>11 DEF SyncRead
<1>12. CASE SyncWrite
  <2>1. Desired(sync.row, sync.at) # "none"
    BY <1>12, DesiredType DEF SyncWrite, WindowInv, ForceInv
  <2>2. /\ window'.plan = window.plan /\ window'.notified = window.notified
        /\ Exists' <=> Exists
        /\ UNCHANGED <<now, announce, mailed>>
    BY <1>12, <2>1 DEF SyncWrite, WindowInv, Rows, Exists
  <2>3. \A u \in Subscribers, s \in Starts :
          InHand(u, s)' <= InHand(u, s) /\ InReach(s)' <= InReach(s)
    BY <2>2 DEF InHand, InReach, Barred, Named, NoneBefore
  <2>4. QED
    BY <1>1, <1>2, <2>2, <2>3, MailsNoMore
<1>13. CASE AnnounceRead
  BY <1>1, <1>13, AnnounceKeepsMails
<1>14. ASSUME NEW u \in Subscribers, Mail(u) PROVE MailInv'
  BY <1>1, <1>14, MailKeepsMails
<1>15. CASE Stamp
  <2>1. /\ announce # Silent /\ announce.todo = {} /\ announce' = Silent
        /\ UNCHANGED <<now, mailed>>
    BY <1>15 DEF Stamp
  <2>2. /\ window'.plan = window.plan /\ (Exists' <=> Exists)
        /\ Exists => window'.notified = announce.start
    BY <1>15 DEF Stamp, WindowInv, Rows, Exists
  <2>3. \A s \in Starts : Barred(s) => Barred(s)'
    BY <2>1, <2>2 DEF Barred, Named, NoneBefore
  <2>4. \A u \in Subscribers, s \in Starts :
          InHand(u, s)' <= InHand(u, s) /\ InReach(s)' <= InReach(s)
    BY <2>1, <2>3 DEF InHand, InReach, Silent
  <2>5. QED
    BY <1>1, <2>1, <2>4, NoneToCreate, MailsNoMore
<1>16. CASE CrashJobs
  <2>1. Spend("crash") /\ announce' = Silent /\ mailed' = mailed
    BY <1>16 DEF CrashJobs
  <2>2. \A u \in Subscribers, s \in Starts : InHand(u, s)' = 0
    BY <2>1 DEF InHand, Silent
  <2>3. \A u \in Subscribers, s \in Starts : InHand(u, s)' <= InHand(u, s)
    BY <2>2 DEF InHand
  <2>4. left["create"] = 0 \/ (~Exists' /\ announce' = Silent)
    BY <1>2, <1>16, <2>1 DEF CrashJobs, Exists
  <2>5. QED
    BY <1>1, <2>1, <2>3, <2>4, MailsForgiven
<1>17. CASE MaintenanceNext
  BY <1>6, <1>7, <1>8, <1>9, <1>10, <1>11, <1>12, <1>13, <1>14, <1>15, <1>16, <1>17, Zenon
     DEF MaintenanceNext
<1>18. QED
  BY <1>4, <1>5, <1>17, StepKinds

(***************************************************************************)
(* A subscriber hears of an occurrence once: again only after a crash of   *)
(* the job or a save of the window, and once more for each.                *)
(***************************************************************************)
THEOREM MailsAreCounted == Spec => []MailedOnce
<1>1. Init => MailInv
  <2> SUFFICES ASSUME Init PROVE MailInv
    OBVIOUS
  <2>1. PICK b \in Budgets : left = b
    BY DEF Init, MaintenanceInit
  <2>2. left["create"] <= 1
    BY <2>1, MaintenanceAssumption
  <2>3. /\ ~Exists /\ announce = Silent
        /\ \A u \in Subscribers, s \in Starts : mailed[u][s] = 0
        /\ spent["crash"] = 0 /\ spent["save"] = 0
    BY DEF Init, MaintenanceInit, Exists, NoWindow, Events
  <2>4. \A u \in Subscribers, s \in Starts : InHand(u, s) = 0 /\ InReach(s) = 0
    BY <2>3 DEF InHand, InReach, Barred, Silent
  <2>5. QED
    BY <2>2, <2>3, <2>4 DEF MailInv
<1>2. WindowInv /\ MailInv => MailedOnce
  <2> SUFFICES ASSUME WindowInv, MailInv, NEW u \in Subscribers, NEW s \in Starts
               PROVE  mailed[u][s] <= 1 + spent["crash"] + spent["save"]
    BY DEF MailedOnce
  <2>1. mailed[u][s] + InHand(u, s) + InReach(s) <= 1 + spent["crash"] + spent["save"]
    BY DEF MailInv
  <2>2. mailed[u][s] \in Nat /\ spent["crash"] \in Nat /\ spent["save"] \in Nat
    BY DEF WindowInv, Events
  <2>3. QED
    BY <2>1, <2>2, InHandInReach
<1>3. QED
  BY <1>1, <1>2, MailsKept, WindowThroughout, PTL DEF Spec

(***************************************************************************)
(* Types of the incidents and of what is on its way about them.            *)
(***************************************************************************)
EventOf(kind, i, row) ==
  [kind |-> kind, id |-> i, status |-> row.status, severity |-> row.severity,
   started |-> row.started]
Row(status, severity, started) ==
  [status |-> status, severity |-> severity, started |-> started, since |-> now]

\* The bag b has become c: one copy more of x.
OneMore(b, c, x) ==
  /\ DOMAIN c = DOMAIN b \cup {x}
  /\ \A y : Copies(c, y) = Copies(b, y) + (IF y = x THEN 1 ELSE 0)

\* The clock is within its bound.
LEMMA NowIsAnInstant == WindowInv => now \in Instants
<1>1. left \in [Events -> Nat] => left["tick"] \in Nat
  BY DEF Events
<1>2. QED
  BY <1>1, MaintenanceAssumption DEF WindowInv, Instants

\* An event adds one copy of itself.
LEMMA EmitAdds ==
  ASSUME BagOf(Event, events), NEW kind \in {"created", "updated"}, NEW i \in Ids,
         NEW row \in Incident, Emit(kind, i, row)
  PROVE  /\ EventOf(kind, i, row) \in Event
         /\ BagOf(Event, events')
         /\ OneMore(events, events', EventOf(kind, i, row))
<1>1. EventOf(kind, i, row) \in Event
  BY DEF EventOf, Event, Incident
<1>2. events' = events (+) SetToBag({EventOf(kind, i, row)})
  BY DEF Emit, EventOf
<1>3. {EventOf(kind, i, row)} \in SUBSET Event
  BY <1>1
<1>4. QED
  BY <1>1, <1>2, <1>3, AddedToBag DEF OneMore

\* No incident disappears, nor does the instant it began at change.
Lasting ==
  /\ Len(incidents') >= Len(incidents) /\ Len(incidents') \in Nat
  /\ \A i \in 1..Len(incidents) : incidents'[i].started = incidents[i].started

\* A new incident comes last, with its event.
LEMMA AddIs ==
  ASSUME WindowInv, AlertInv, NEW sev \in Severities, NEW t \in Instants, t <= now,
         now' = now, Add(sev, t)
  PROVE  /\ IncidentsOK' /\ EventsOK' /\ Lasting
         /\ Len(incidents') = Len(incidents) + 1
         /\ \A i \in 1..Len(incidents) : incidents'[i] = incidents[i]
         /\ incidents'[Len(incidents) + 1] = Row("investigating", sev, t)
         /\ OneMore(events, events',
                    EventOf("created", Len(incidents) + 1, Row("investigating", sev, t)))
<1> DEFINE row == Row("investigating", sev, t)
           n == Len(incidents) + 1
<1>1. incidents \in Seq(Incident) /\ Len(incidents) < MaxIncidents /\ Len(incidents) \in Nat
  BY DEF AlertInv, IncidentsOK, Add
<1>2. now \in Instants
  BY NowIsAnInstant
<1>3. row \in Incident /\ row.started = t /\ row.since = now /\ row.status = "investigating"
  BY <1>2 DEF Row, Incident, Instants
<1>4. incidents' = Append(incidents, row) /\ Emit("created", n, row)
  BY DEF Add, Row
<1> HIDE DEF row
<1>5. /\ incidents' \in Seq(Incident) /\ Len(incidents') = n
      /\ \A i \in 1..Len(incidents) : incidents'[i] = incidents[i]
      /\ incidents'[n] = row
  BY <1>1, <1>3, <1>4
<1>6. n \in Ids
  BY <1>1, AlertingAssumption DEF Ids
<1>7. /\ BagOf(Event, events') /\ OneMore(events, events', EventOf("created", n, row))
  BY <1>3, <1>4, <1>6, EmitAdds DEF AlertInv, EventsOK
<1>8. \A i \in 1..Len(incidents') : i \in 1..Len(incidents) \/ i = n
  BY <1>1, <1>5
<1>9. IncidentsOK'
  <2>1. Len(incidents') <= MaxIncidents
    BY <1>1, <1>5, AlertingAssumption
  <2>2. ASSUME NEW i \in 1..Len(incidents')
        PROVE  incidents'[i].started <= incidents'[i].since /\ incidents'[i].since <= now'
    BY <1>2, <1>3, <1>5, <1>8 DEF AlertInv, IncidentsOK, Instants
  <2>3. QED
    BY <1>5, <2>1, <2>2 DEF IncidentsOK
<1>10. EventsOK'
  <2>1. ASSUME NEW e \in DOMAIN events'
        PROVE  e.id \in 1..Len(incidents') /\ e.started = incidents'[e.id].started
               /\ (e.kind = "created" => e.status = "investigating")
    <3>1. CASE e \in DOMAIN events
      BY <1>1, <1>5, <3>1 DEF AlertInv, EventsOK
    <3>2. CASE e = EventOf("created", n, row)
      BY <1>1, <1>3, <1>5, <3>2 DEF EventOf
    <3>3. QED
      BY <1>7, <2>1, <3>1, <3>2 DEF OneMore
  <2>2. QED
    BY <1>7, <2>1 DEF EventsOK
<1>11. QED
  BY <1>1, <1>5, <1>7, <1>9, <1>10 DEF Lasting, row

\* A row written over keeps the instant it began at.
LEMMA Rewritten ==
  ASSUME NEW r \in Incident, NEW st, NEW sev, NEW t
  PROVE  [r EXCEPT !.status = st, !.severity = sev, !.since = t]
           = [status |-> st, severity |-> sev, started |-> r.started, since |-> t]
<1> DEFINE x == [r EXCEPT !.status = st, !.severity = sev, !.since = t]
<1>1. x \in [status : {st}, severity : {sev}, started : {r.started}, since : {t}]
  BY DEF Incident
<1> HIDE DEF x
<1>2. x = [status |-> st, severity |-> sev, started |-> r.started, since |-> t]
  BY <1>1
<1>3. QED
  BY <1>2 DEF x

\* A write changes one row and emits its event.
LEMMA PutIs ==
  ASSUME WindowInv, AlertInv, NEW i \in 1..Len(incidents), NEW sev \in Severities,
         NEW st \in {"investigating", "identified", "resolved"}, now' = now, Put(i, st, sev)
  PROVE  /\ IncidentsOK' /\ EventsOK' /\ Lasting
         /\ Len(incidents') = Len(incidents)
         /\ \A k \in 1..Len(incidents) : k # i => incidents'[k] = incidents[k]
         /\ incidents'[i] = Row(st, sev, incidents[i].started)
         /\ OneMore(events, events',
                    EventOf("updated", i, Row(st, sev, incidents[i].started)))
<1> DEFINE row == Row(st, sev, incidents[i].started)
<1>1. /\ incidents \in Seq(Incident) /\ Len(incidents) <= MaxIncidents /\ Len(incidents) \in Nat
      /\ incidents[i] \in Incident
      /\ incidents[i].started <= incidents[i].since /\ incidents[i].since <= now
  BY DEF AlertInv, IncidentsOK
<1>2. now \in Instants
  BY NowIsAnInstant
<1>3. /\ row \in Incident /\ row.started = incidents[i].started /\ row.since = now
      /\ row.status = st
  BY <1>1, <1>2 DEF Row, Incident
<1>4. row = [incidents[i] EXCEPT !.status = st, !.severity = sev, !.since = now]
  BY ZenonT(60), <1>1, Rewritten DEF Row
<1>5. incidents' = [incidents EXCEPT ![i] = row] /\ Emit("updated", i, row)
  BY <1>4 DEF Put
<1> HIDE DEF row
<1>6. /\ incidents' \in Seq(Incident) /\ Len(incidents') = Len(incidents)
      /\ \A k \in 1..Len(incidents) : k # i => incidents'[k] = incidents[k]
      /\ incidents'[i] = row
  BY <1>1, <1>3, <1>5
<1>7. i \in Ids
  BY <1>1, AlertingAssumption DEF Ids
<1>8. BagOf(Event, events') /\ OneMore(events, events', EventOf("updated", i, row))
  BY <1>3, <1>5, <1>7, EmitAdds DEF AlertInv, EventsOK
<1>9. \A k \in 1..Len(incidents) : incidents'[k].started = incidents[k].started
  BY <1>3, <1>6
<1>10. IncidentsOK'
  <2>1. ASSUME NEW k \in 1..Len(incidents')
        PROVE  incidents'[k].started <= incidents'[k].since /\ incidents'[k].since <= now'
    <3>1. CASE k = i
      <4>1. incidents[i].started \in Int /\ incidents[i].since \in Int /\ now \in Int
        BY <1>1, <1>2 DEF Incident, Instants
      <4>2. QED
        BY <1>1, <1>3, <1>6, <3>1, <4>1
    <3>2. CASE k # i
      BY <1>6, <2>1, <3>2 DEF AlertInv, IncidentsOK
    <3>3. QED
      BY <3>1, <3>2
  <2>2. QED
    BY <1>1, <1>6, <2>1 DEF IncidentsOK
<1>11. EventsOK'
  <2>1. ASSUME NEW e \in DOMAIN events'
        PROVE  e.id \in 1..Len(incidents') /\ e.started = incidents'[e.id].started
               /\ (e.kind = "created" => e.status = "investigating")
    <3>1. CASE e \in DOMAIN events
      BY <1>6, <1>9, <3>1 DEF AlertInv, EventsOK
    <3>2. CASE e = EventOf("updated", i, row)
      BY <1>3, <1>6, <3>2 DEF EventOf
    <3>3. QED
      BY <1>8, <2>1, <3>1, <3>2 DEF OneMore
  <2>2. QED
    BY <1>8, <2>1 DEF EventsOK
<1>12. QED
  BY <1>1, <1>6, <1>8, <1>9, <1>10, <1>11 DEF Lasting, row

\* The jobs an event starts for the channels that are told.
NewJobs(e, told) == {Attempt(c, NoticeOf(e), e.id, 1) : c \in told}

\* They join the queue, one copy of each.
LEMMA DispatchIs ==
  ASSUME EventsOK, JobsOK, NEW e \in DOMAIN events, NEW told \in SUBSET Channels,
         Dispatch(e, told)
  PROVE  /\ BagOf(Job, jobs')
         /\ \A j \in DOMAIN jobs' : j.id \in 1..Len(incidents)
         /\ DOMAIN jobs' = DOMAIN jobs \cup NewJobs(e, told)
         /\ \A x : Copies(jobs', x) = Copies(jobs, x) + (IF x \in NewJobs(e, told) THEN 1 ELSE 0)
<1>1. e \in Event /\ e.id \in 1..Len(incidents) /\ e.id \in Ids
  BY DEF EventsOK, BagOf, Event
<1>2. NewJobs(e, told) \in SUBSET Job
  BY <1>1 DEF NewJobs, Attempt, Job, NoticeOf, Notices, Tries
<1>3. \A j \in NewJobs(e, told) : j.id = e.id
  BY DEF NewJobs, Attempt
<1> DEFINE sum == jobs (+) SetToBag(NewJobs(e, told))
<1>4. jobs' = sum
  BY DEF Dispatch, NewJobs, Attempt
<1>5. BagOf(Job, jobs)
  BY DEF JobsOK
<1>6. /\ BagOf(Job, sum) /\ DOMAIN sum = DOMAIN jobs \cup NewJobs(e, told)
      /\ \A x : Copies(sum, x) = Copies(jobs, x) + (IF x \in NewJobs(e, told) THEN 1 ELSE 0)
  BY <1>2, <1>5, AddedToBag
<1> HIDE DEF sum
<1>7. \A j \in DOMAIN sum : j.id \in 1..Len(incidents)
  BY <1>1, <1>3, <1>6 DEF JobsOK
<1>8. QED
  BY <1>4, <1>6, <1>7

\* The attempt after j.
Retry(j) == Attempt(j.to, j.notice, j.id, j.try + 1)
Concerns(j, c, n, i) == j.to = c /\ j.notice = n /\ j.id = i

\* A job that is taken and not tried again leaves the queue ...
LEMMA TakenIs ==
  ASSUME JobsOK, NEW j \in DOMAIN jobs, jobs' = Taken(j)
  PROVE  /\ BagOf(Job, jobs') /\ DOMAIN jobs' \subseteq DOMAIN jobs
         /\ \A c \in Channels, n \in Notices, i \in Ids :
              Queued(c, n, i)' = Queued(c, n, i) - (IF Concerns(j, c, n, i) THEN 1 ELSE 0)
<1>1. BagOf(Job, jobs) /\ j \in Job
  BY DEF JobsOK, BagOf
<1>2. /\ BagOf(Job, jobs') /\ DOMAIN jobs' \subseteq DOMAIN jobs
      /\ \A x : Copies(jobs', x) = Copies(jobs, x) - (IF x = j THEN 1 ELSE 0)
  BY <1>1, TakenFromBag DEF Taken
<1>3. ASSUME NEW c \in Channels, NEW n \in Notices, NEW i \in Ids
      PROVE  Queued(c, n, i)' = Queued(c, n, i) - (IF Concerns(j, c, n, i) THEN 1 ELSE 0)
  <2>1. \A t \in 1..3 : Attempt(c, n, i, t) = j <=> Concerns(j, c, n, i) /\ j.try = t
    BY <1>1 DEF Attempt, Concerns, Job
  <2>2. j.try \in 1..3
    BY <1>1 DEF Job, Tries
  <2>3. \A t \in 1..3 : Copies(jobs, Attempt(c, n, i, t)) \in Nat
    BY <1>1, CopiesCount
  <2>4. \A t \in 1..3 : Copies(jobs', Attempt(c, n, i, t))
           = Copies(jobs, Attempt(c, n, i, t))
             - (IF Concerns(j, c, n, i) /\ j.try = t THEN 1 ELSE 0)
    BY <1>2, <2>1
  <2>5. 1 \in 1..3 /\ 2 \in 1..3 /\ 3 \in 1..3
    OBVIOUS
  <2>6. /\ Queued(c, n, i) = Copies(jobs, Attempt(c, n, i, 1)) + Copies(jobs, Attempt(c, n, i, 2))
                             + Copies(jobs, Attempt(c, n, i, 3))
        /\ Queued(c, n, i)' = Copies(jobs', Attempt(c, n, i, 1))
                              + Copies(jobs', Attempt(c, n, i, 2))
                              + Copies(jobs', Attempt(c, n, i, 3))
    BY DEF Queued
  <2>7. QED
    BY <2>2, <2>3, <2>4, <2>5, <2>6
<1>4. QED
  BY <1>2, <1>3

\* ... and one that is tried again keeps its place there.
LEMMA RetriedIs ==
  ASSUME JobsOK, NEW j \in DOMAIN jobs, Again(j),
         jobs' = Taken(j) (+) SetToBag({[j EXCEPT !.try = @ + 1]})
  PROVE  /\ BagOf(Job, jobs') /\ DOMAIN jobs' \subseteq DOMAIN jobs \cup {Retry(j)}
         /\ \A c \in Channels, n \in Notices, i \in Ids : Queued(c, n, i)' = Queued(c, n, i)
<1>1. BagOf(Job, jobs) /\ j \in Job
  BY DEF JobsOK, BagOf
<1>2. [j EXCEPT !.try = @ + 1] = Retry(j)
  <2> DEFINE x == [j EXCEPT !.try = @ + 1]
  <2>1. x \in [to : {j.to}, notice : {j.notice}, id : {j.id}, try : {j.try + 1}]
    BY <1>1 DEF Job
  <2> HIDE DEF x
  <2>2. x = [to |-> j.to, notice |-> j.notice, id |-> j.id, try |-> j.try + 1]
    BY <2>1
  <2>3. QED
    BY <2>2 DEF x, Retry, Attempt
<1>3. Retry(j) \in Job
  BY <1>1 DEF Retry, Attempt, Job, Again, Tries
<1>4. /\ BagOf(Job, Taken(j)) /\ DOMAIN Taken(j) \subseteq DOMAIN jobs
      /\ \A x : Copies(Taken(j), x) = Copies(jobs, x) - (IF x = j THEN 1 ELSE 0)
  BY <1>1, TakenFromBag DEF Taken
<1> DEFINE rest == Taken(j)
           more == {Retry(j)}
           sum == rest (+) SetToBag(more)
<1>5. {Retry(j)} \in SUBSET Job /\ jobs' = sum
  BY <1>2, <1>3
<1> HIDE DEF rest
<1>6. /\ BagOf(Job, sum) /\ DOMAIN sum = DOMAIN rest \cup {Retry(j)}
      /\ \A x : Copies(sum, x) = Copies(rest, x) + (IF x \in {Retry(j)} THEN 1 ELSE 0)
  <2>1. BagOf(Job, rest) /\ more \in SUBSET Job
    BY <1>4, <1>5 DEF rest
  <2> HIDE DEF more
  <2>2. /\ BagOf(Job, sum) /\ DOMAIN sum = DOMAIN rest \cup more
        /\ \A x : Copies(sum, x) = Copies(rest, x) + (IF x \in more THEN 1 ELSE 0)
    BY ZenonT(120), <2>1, AddedToBag
  <2> HIDE DEF sum
  <2>3. QED
    BY <2>2 DEF more
<1> HIDE DEF sum
<1>7. ASSUME NEW c \in Channels, NEW n \in Notices, NEW i \in Ids
      PROVE  Queued(c, n, i)' = Queued(c, n, i)
  <2>1. \A t \in 1..3 :
          /\ Attempt(c, n, i, t) = j <=> Concerns(j, c, n, i) /\ j.try = t
          /\ Attempt(c, n, i, t) = Retry(j) <=> Concerns(j, c, n, i) /\ j.try + 1 = t
    BY <1>1 DEF Attempt, Concerns, Job, Retry
  <2>2. j.try \in 1..2
    BY <1>1 DEF Job, Again, Tries
  <2>3. \A t \in 1..3 : Copies(jobs, Attempt(c, n, i, t)) \in Nat
    BY <1>1, CopiesCount
  <2>4. \A t \in 1..3 : Copies(jobs', Attempt(c, n, i, t))
           = Copies(jobs, Attempt(c, n, i, t))
             - (IF Concerns(j, c, n, i) /\ j.try = t THEN 1 ELSE 0)
             + (IF Concerns(j, c, n, i) /\ j.try + 1 = t THEN 1 ELSE 0)
    BY <1>4, <1>5, <1>6, <2>1 DEF rest
  <2>5. 1 \in 1..3 /\ 2 \in 1..3 /\ 3 \in 1..3
    OBVIOUS
  <2>6. /\ Queued(c, n, i) = Copies(jobs, Attempt(c, n, i, 1)) + Copies(jobs, Attempt(c, n, i, 2))
                             + Copies(jobs, Attempt(c, n, i, 3))
        /\ Queued(c, n, i)' = Copies(jobs', Attempt(c, n, i, 1))
                              + Copies(jobs', Attempt(c, n, i, 2))
                              + Copies(jobs', Attempt(c, n, i, 3))
    BY DEF Queued
  <2>7. QED
    BY <2>2, <2>3, <2>4, <2>5, <2>6
<1>8. QED
  BY <1>4, <1>5, <1>6, <1>7 DEF rest

\* What is heard is one notice more.
LEMMA HearIs ==
  ASSUME HeardOK, NEW j \in Job, Hear(j)
  PROVE  /\ heard' \in [Channels -> [Notices -> [Ids -> Nat]]]
         /\ \A c \in Channels, n \in Notices, i \in Ids :
              heard'[c][n][i] = heard[c][n][i] + (IF Concerns(j, c, n, i) THEN 1 ELSE 0)
<1>1. j.to \in Channels /\ j.notice \in Notices /\ j.id \in Ids
  BY DEF Job
<1>2. heard \in [Channels -> [Notices -> [Ids -> Nat]]]
  BY DEF HeardOK
<1> DEFINE row == [heard[j.to][j.notice] EXCEPT ![j.id] = @ + 1]
           page == [heard[j.to] EXCEPT ![j.notice] = row]
<1>3. heard' = [heard EXCEPT ![j.to] = page]
  BY <1>1, <1>2 DEF Hear
<1>4. /\ row \in [Ids -> Nat]
      /\ \A i \in Ids : row[i] = heard[j.to][j.notice][i] + (IF j.id = i THEN 1 ELSE 0)
  BY <1>1, <1>2
<1> HIDE DEF row
<1>5. /\ page \in [Notices -> [Ids -> Nat]]
      /\ \A n \in Notices : page[n] = IF n = j.notice THEN row ELSE heard[j.to][n]
  BY <1>1, <1>2, <1>4
<1> HIDE DEF page
<1>6. /\ heard' \in [Channels -> [Notices -> [Ids -> Nat]]]
      /\ \A c \in Channels : heard'[c] = IF c = j.to THEN page ELSE heard[c]
  BY <1>1, <1>2, <1>3, <1>5
<1>7. \A c \in Channels, n \in Notices, i \in Ids : heard[c][n][i] \in Nat
  BY <1>2
<1>8. QED
  BY <1>1, <1>4, <1>5, <1>6, <1>7 DEF Concerns

\* An event that is listened to is used up.
LEMMA ListenIs ==
  ASSUME EventsOK, NEW e, Listen(e)
  PROVE  /\ e \in DOMAIN events /\ Dispatch(e, Told(e)) /\ Told(e) \in SUBSET Channels
         /\ UNCHANGED <<maintenance, bounds, failing, look, incidents, route, enabled, heard>>
         /\ BagOf(Event, events') /\ DOMAIN events' \subseteq DOMAIN events
         /\ \A x : Copies(events', x) = Copies(events, x) - (IF x = e THEN 1 ELSE 0)
<1>1. e \in DOMAIN events /\ BagOf(Event, events)
  BY DEF Listen, BagIn, BagToSet, EventsOK
<1>2. Told(e) \in SUBSET Channels
  BY DEF Told, Fanout
<1>3. /\ Dispatch(e, Told(e)) /\ events' = events (-) SetToBag({e})
      /\ UNCHANGED <<maintenance, bounds, failing, look, incidents, route, enabled, heard>>
  BY DEF Listen
<1>4. QED
  BY <1>1, <1>2, <1>3, TakenFromBag

\* A crash loses the events, and one of them may be fanned out in part.
LEMMA CrashIs ==
  ASSUME EventsOK, CrashListening
  PROVE  /\ DOMAIN events' = {} /\ BagOf(Event, events') /\ (\A x : Copies(events', x) = 0)
         /\ Spend("crash") /\ look' = Never
         /\ UNCHANGED <<maintenance, failing, incidents, route, enabled, heard>>
         /\ \/ jobs' = jobs
            \/ \E e \in DOMAIN events : \E part \in SUBSET Told(e) :
                 Dispatch(e, part) /\ part \in SUBSET Channels
<1>1. /\ events' = EmptyBag /\ Spend("crash") /\ look' = Never
      /\ UNCHANGED <<maintenance, failing, incidents, route, enabled, heard>>
      /\ \/ jobs' = jobs
         \/ \E e \in DOMAIN events : \E part \in SUBSET Told(e) : Dispatch(e, part)
  BY DEF CrashListening, BagToSet
<1>2. \A e : Told(e) \in SUBSET Channels
  BY DEF Told, Fanout
<1>3. /\ DOMAIN events' = {} /\ BagOf(Event, events') /\ (\A x : Copies(events', x) = 0)
  BY <1>1, NothingInBag
<1>4. QED
  BY <1>1, <1>2, <1>3

\* A job that is sent leaves the queue, and a channel that is not disabled
\* hears of it; one that fails may stay and may have been heard.
LEMMA SendIs ==
  ASSUME JobsOK, HeardOK, NEW j, Send(j) \/ SendFails(j)
  PROVE  /\ j \in DOMAIN jobs /\ j \in Job
         /\ UNCHANGED <<maintenance, failing, look, incidents, events, route, enabled>>
         /\ BagOf(Job, jobs') /\ DOMAIN jobs' \subseteq DOMAIN jobs \cup {Retry(j)}
         /\ heard' \in [Channels -> [Notices -> [Ids -> Nat]]]
         /\ \A c \in Channels, n \in Notices, i \in Ids :
              \/ heard'[c][n][i] = heard[c][n][i]
              \/ Concerns(j, c, n, i) /\ heard'[c][n][i] = heard[c][n][i] + 1
         /\ \/ /\ Send(j) /\ UNCHANGED bounds
               /\ \A c \in Channels, n \in Notices, i \in Ids :
                    Queued(c, n, i)' = Queued(c, n, i) - (IF Concerns(j, c, n, i) THEN 1 ELSE 0)
            \/ /\ SendFails(j) /\ Spend("fail")
               /\ \A c \in Channels, n \in Notices, i \in Ids :
                    Queued(c, n, i)' <= Queued(c, n, i)
<1>1. j \in DOMAIN jobs /\ j \in Job
  BY DEF Send, SendFails, BagIn, BagToSet, JobsOK, BagOf
<1>2. UNCHANGED <<maintenance, failing, look, incidents, events, route, enabled>>
  BY DEF Send, SendFails
<1>3. heard' = heard \/ Hear(j)
  BY DEF Send, SendFails
<1>4. /\ heard' \in [Channels -> [Notices -> [Ids -> Nat]]]
      /\ \A c \in Channels, n \in Notices, i \in Ids :
           \/ heard'[c][n][i] = heard[c][n][i]
           \/ Concerns(j, c, n, i) /\ heard'[c][n][i] = heard[c][n][i] + 1
  <2>1. CASE heard' = heard
    BY <2>1 DEF HeardOK
  <2>2. CASE Hear(j)
    <3>1. \A c \in Channels, n \in Notices, i \in Ids : heard[c][n][i] \in Nat
      BY DEF HeardOK
    <3>2. QED
      BY <1>1, <2>2, <3>1, HearIs
  <2>3. QED
    BY <1>3, <2>1, <2>2
<1>5. \A c \in Channels, n \in Notices, i \in Ids : Queued(c, n, i) \in Nat
  <2>1. \A x : Copies(jobs, x) \in Nat
    BY CopiesCount DEF JobsOK
  <2>2. QED
    BY <2>1 DEF Queued
<1>6. CASE Send(j)
  BY <1>1, <1>2, <1>4, <1>6, TakenIs DEF Send
<1>7. CASE SendFails(j)
  <2>1. CASE Again(j)
    <3>1. jobs' = Taken(j) (+) SetToBag({[j EXCEPT !.try = @ + 1]}) /\ Spend("fail")
      BY <1>7, <2>1 DEF SendFails
    <3>2. /\ BagOf(Job, jobs') /\ DOMAIN jobs' \subseteq DOMAIN jobs \cup {Retry(j)}
          /\ \A c \in Channels, n \in Notices, i \in Ids : Queued(c, n, i)' = Queued(c, n, i)
      BY <1>1, <2>1, <3>1, RetriedIs, Zenon
    <3>3. \A c \in Channels, n \in Notices, i \in Ids : Queued(c, n, i)' <= Queued(c, n, i)
      BY <1>5, <3>2
    <3>4. QED
      BY <1>1, <1>2, <1>4, <1>7, <3>1, <3>2, <3>3, Zenon
  <2>2. CASE ~Again(j)
    <3>1. jobs' = Taken(j) /\ Spend("fail")
      BY <1>7, <2>2 DEF SendFails
    <3>2. QED
      BY <1>1, <1>2, <1>4, <1>5, <1>7, <3>1, TakenIs
  <2>3. QED
    BY <2>1, <2>2
<1>8. QED
  BY <1>6, <1>7

\* What was put on record of incidents that last stays well formed.
LEMMA RecordsLast ==
  ASSUME AlertInv, Lasting
  PROVE  /\ UNCHANGED jobs => JobsOK'
         /\ UNCHANGED heard => HeardOK'
<1>1. \A i \in 1..Len(incidents) : i \in 1..Len(incidents')
  BY DEF Lasting, AlertInv, IncidentsOK
<1>2. QED
  BY <1>1 DEF AlertInv, JobsOK, HeardOK

\* What an incident holds.
LEMMA IncidentFields ==
  ASSUME IncidentsOK, NEW i \in 1..Len(incidents)
  PROVE  /\ incidents[i] \in Incident /\ i \in Ids
         /\ incidents[i].severity \in Severities
         /\ incidents[i].started \in Nat /\ incidents[i].since \in Nat
<1>1. incidents[i] \in Incident /\ Len(incidents) \in Nat /\ Len(incidents) <= MaxIncidents
  BY DEF IncidentsOK
<1>2. i \in Ids
  BY <1>1, AlertingAssumption DEF Ids
<1>3. QED
  BY <1>1, <1>2 DEF Incident, Instants

\* Incidents that are not touched last.
LEMMA UntouchedLasts == AlertInv /\ UNCHANGED incidents => Lasting
BY DEF AlertInv, IncidentsOK, Lasting

\* The clock only moves on.
LEMMA ClockMovesOn == WindowInv /\ [Next]_vars => now' \in {now, now + 1}
<1> SUFFICES ASSUME WindowInv, [Next]_vars PROVE now' \in {now, now + 1}
  OBVIOUS
<1>1. CASE UNCHANGED vars
  BY <1>1 DEF vars, maintenance
<1>2. CASE AlertNext
  BY <1>2, AsideOfTheWindow DEF maintenance, WindowInv
<1>3. CASE MaintenanceNext
  BY <1>3, Zenon
     DEF MaintenanceNext, Tick, Create, Save, Attach, Remove, Delete, SyncRead, SyncWrite,
         AnnounceRead, Mail, Stamp, CrashJobs
<1>4. QED
  BY <1>1, <1>2, <1>3, StepKinds

\* Every step keeps the types, and no incident is lost.
LEMMA AlertKept == WindowInv /\ AlertInv /\ [Next]_vars => AlertInv' /\ Lasting
<1> SUFFICES ASSUME WindowInv, AlertInv, [Next]_vars PROVE AlertInv' /\ Lasting
  OBVIOUS
<1>1. now \in Instants /\ now' \in {now, now + 1} /\ MaxTime \in Nat
  BY NowIsAnInstant, ClockMovesOn, MaintenanceAssumption
<1>2. CASE UNCHANGED alerting
  <2>1. UNCHANGED <<failing, look, incidents, events, route, enabled, jobs, heard>>
    BY <1>2 DEF alerting
  <2>2. Lasting
    BY <2>1, UntouchedLasts
  <2>3. IncidentsOK' /\ look' <= now'
    <3>1. \A i \in 1..Len(incidents) : incidents[i].since \in Int
      BY IncidentFields DEF AlertInv
    <3>2. look \in Int
      BY <1>1 DEF AlertInv, Never
    <3>3. QED
      BY <1>1, <2>1, <3>1, <3>2 DEF AlertInv, IncidentsOK, Instants
  <2>4. EventsOK' /\ JobsOK' /\ HeardOK'
    BY <2>1 DEF AlertInv, EventsOK, JobsOK, HeardOK
  <2>5. QED
    BY <2>1, <2>2, <2>3, <2>4 DEF AlertInv
<1>3. CASE UNCHANGED vars
  BY <1>2, <1>3 DEF vars, alerting
<1>4. ASSUME AlertNext PROVE now' = now
  BY <1>4, AsideOfTheWindow DEF maintenance, WindowInv
<1>5. ASSUME AlertNext, UNCHANGED <<incidents, events, jobs, heard>>,
             failing' \in BOOLEAN, look' \in {look, now, Never},
             route' \in [Channels -> Routes], enabled' \in [Channels -> BOOLEAN]
      PROVE  AlertInv' /\ Lasting
  <2>1. Lasting
    BY <1>5, UntouchedLasts
  <2>2. look' \in Never..MaxTime /\ look' <= now'
    BY <1>1, <1>4, <1>5 DEF AlertInv, Never, Instants
  <2>3. IncidentsOK' /\ EventsOK' /\ JobsOK' /\ HeardOK'
    BY <1>4, <1>5 DEF AlertInv, IncidentsOK, EventsOK, JobsOK, HeardOK
  <2>4. QED
    BY <1>5, <2>1, <2>2, <2>3 DEF AlertInv
<1>6. ASSUME AlertNext, IncidentsOK', EventsOK', Lasting,
             UNCHANGED <<failing, jobs, heard, route, enabled>>, look' \in {look, Never}
      PROVE  AlertInv' /\ Lasting
  <2>1. look' \in Never..MaxTime /\ look' <= now'
    BY <1>1, <1>4, <1>6 DEF AlertInv, Never, Instants
  <2>2. QED
    BY <1>6, <2>1, RecordsLast DEF AlertInv
<1>7. CASE Change \/ CheckLook
  <2>1. AlertNext
    BY <1>7 DEF AlertNext
  <2>2. QED
    BY <1>5, <1>7, <2>1 DEF Change, CheckLook, AlertInv
<1>8. CASE CheckOpen
  <2>1. AlertNext
    BY <1>8 DEF AlertNext
  <2>2. CASE UNCHANGED <<incidents, events>>
    BY <1>5, <1>8, <2>1, <2>2 DEF CheckOpen, AlertInv
  <2>3. CASE Add(Kind, look)
    <3>1. look \in Instants /\ look <= now
      BY <1>8 DEF CheckOpen, AlertInv, Never, Instants
    <3>2. IncidentsOK' /\ EventsOK' /\ Lasting
      BY <1>4, <2>1, <2>3, <3>1, AddIs, AlertingAssumption
    <3>3. QED
      BY <1>6, <1>8, <2>1, <3>2 DEF CheckOpen
  <2>4. QED
    BY <1>8, <2>2, <2>3 DEF CheckOpen
<1>9. CASE CheckPass
  <2>1. AlertNext
    BY <1>9 DEF AlertNext
  <2>2. PICK i \in Ids : Open(i) /\ Put(i, "resolved", incidents[i].severity)
    BY <1>9 DEF CheckPass
  <2>3. i \in 1..Len(incidents) /\ incidents[i].severity \in Severities
    BY <2>2, IncidentFields DEF Open, AlertInv, IncidentsOK
  <2>4. IncidentsOK' /\ EventsOK' /\ Lasting
    BY <1>4, <2>1, <2>2, <2>3, PutIs
  <2>5. QED
    BY <1>6, <1>9, <2>1, <2>4 DEF CheckPass
<1>10. ASSUME NEW s \in Severities, CreateIncident(s) PROVE AlertInv' /\ Lasting
  <2>1. AlertNext
    BY <1>10 DEF AlertNext
  <2>2. Add(s, now)
    BY <1>10 DEF CreateIncident
  <2>3. now <= now
    BY <1>1 DEF Instants
  <2>4. IncidentsOK' /\ EventsOK' /\ Lasting
    BY <1>1, <1>4, <2>1, <2>2, <2>3, AddIs
  <2>5. QED
    BY <1>6, <1>10, <2>1, <2>4 DEF CreateIncident
<1>11. ASSUME NEW i \in Ids, Acknowledge(i) PROVE AlertInv' /\ Lasting
  <2>1. AlertNext
    BY <1>11 DEF AlertNext
  <2>2. i \in 1..Len(incidents) /\ incidents[i].severity \in Severities
    BY <1>11, IncidentFields DEF Acknowledge, AlertInv, IncidentsOK
  <2>3. Put(i, "identified", incidents[i].severity)
    BY <1>11 DEF Acknowledge
  <2>4. IncidentsOK' /\ EventsOK' /\ Lasting
    BY <1>4, <2>1, <2>2, <2>3, PutIs
  <2>5. QED
    BY <1>6, <1>11, <2>1, <2>4 DEF Acknowledge
<1>12. ASSUME NEW i \in Ids, NEW st \in {"investigating", "identified", "resolved"},
              NEW s \in Severities, UpdateIncident(i, st, s)
       PROVE  AlertInv' /\ Lasting
  <2>1. AlertNext
    BY <1>12 DEF AlertNext
  <2>2. i \in 1..Len(incidents) /\ Put(i, st, s)
    BY <1>12 DEF UpdateIncident, AlertInv, IncidentsOK
  <2>3. IncidentsOK' /\ EventsOK' /\ Lasting
    BY <1>4, <2>1, <2>2, PutIs
  <2>4. QED
    BY <1>6, <1>12, <2>1, <2>3 DEF UpdateIncident
<1>13. ASSUME AlertNext, IncidentsOK', EventsOK', JobsOK', HeardOK',
              UNCHANGED <<failing, incidents, route, enabled>>, look' \in {look, Never}
       PROVE  AlertInv' /\ Lasting
  <2>1. Lasting
    BY <1>13, UntouchedLasts
  <2>2. look' \in Never..MaxTime /\ look' <= now'
    BY <1>1, <1>4, <1>13 DEF AlertInv, Never, Instants
  <2>3. QED
    BY <1>13, <2>1, <2>2 DEF AlertInv
<1>14. ASSUME NEW e \in BagToSet(events), Listen(e) PROVE AlertInv' /\ Lasting
  <2>1. AlertNext
    BY <1>14 DEF AlertNext
  <2>2. /\ UNCHANGED <<failing, look, incidents, route, enabled, heard>>
        /\ e \in DOMAIN events /\ Dispatch(e, Told(e)) /\ Told(e) \in SUBSET Channels
        /\ BagOf(Event, events') /\ DOMAIN events' \subseteq DOMAIN events
    BY <1>14, ListenIs DEF AlertInv
  <2>3. BagOf(Job, jobs') /\ \A j \in DOMAIN jobs' : j.id \in 1..Len(incidents)
    BY <2>2, DispatchIs DEF AlertInv
  <2>4. IncidentsOK' /\ EventsOK' /\ JobsOK' /\ HeardOK'
    BY <1>4, <2>1, <2>2, <2>3 DEF AlertInv, IncidentsOK, EventsOK, JobsOK, HeardOK
  <2>5. QED
    BY <1>13, <2>1, <2>2, <2>4
<1>15. CASE CrashListening
  <2>1. AlertNext
    BY <1>15 DEF AlertNext
  <2>2. /\ UNCHANGED <<failing, incidents, route, enabled, heard>> /\ look' = Never
        /\ DOMAIN events' = {} /\ BagOf(Event, events')
    BY <1>15, CrashIs DEF AlertInv
  <2>3. BagOf(Job, jobs') /\ \A j \in DOMAIN jobs' : j.id \in 1..Len(incidents)
    <3>1. CASE jobs' = jobs
      BY <3>1 DEF AlertInv, JobsOK
    <3>2. ASSUME NEW e \in DOMAIN events, NEW part \in SUBSET Told(e),
                 Dispatch(e, part), part \in SUBSET Channels
          PROVE  BagOf(Job, jobs') /\ \A j \in DOMAIN jobs' : j.id \in 1..Len(incidents)
      BY <3>2, DispatchIs DEF AlertInv
    <3>3. QED
      BY <1>15, <3>1, <3>2, CrashIs DEF AlertInv
  <2>4. IncidentsOK' /\ EventsOK' /\ JobsOK' /\ HeardOK'
    BY <1>4, <2>1, <2>2, <2>3 DEF AlertInv, IncidentsOK, EventsOK, JobsOK, HeardOK
  <2>5. QED
    BY <1>13, <2>1, <2>2, <2>4
<1>16. ASSUME NEW r \in [Channels -> Routes], SaveRouting(r) PROVE AlertInv' /\ Lasting
  <2>1. AlertNext
    BY <1>16 DEF AlertNext
  <2>2. QED
    BY <1>5, <1>16, <2>1 DEF SaveRouting, AlertInv
<1>17. ASSUME NEW c \in Channels, Enable(c) PROVE AlertInv' /\ Lasting
  <2>1. AlertNext
    BY <1>17 DEF AlertNext
  <2>2. enabled' \in [Channels -> BOOLEAN]
    BY <1>17 DEF Enable, AlertInv
  <2>3. QED
    BY <1>5, <1>17, <2>1, <2>2 DEF Enable, AlertInv
<1>18. ASSUME NEW j \in BagToSet(jobs), Send(j) \/ SendFails(j) PROVE AlertInv' /\ Lasting
  <2>1. AlertNext
    BY <1>18 DEF AlertNext
  <2>2. /\ j \in DOMAIN jobs /\ j \in Job
        /\ UNCHANGED <<failing, look, incidents, events, route, enabled>>
        /\ BagOf(Job, jobs') /\ DOMAIN jobs' \subseteq DOMAIN jobs \cup {Retry(j)}
        /\ heard' \in [Channels -> [Notices -> [Ids -> Nat]]]
        /\ \A c \in Channels, n \in Notices, i \in Ids :
             heard'[c][n][i] = heard[c][n][i] \/ Concerns(j, c, n, i)
    BY <1>18, SendIs DEF AlertInv
  <2>3. j.id \in 1..Len(incidents) /\ Retry(j).id = j.id
    BY <2>2 DEF AlertInv, JobsOK, Retry, Attempt
  <2>4. JobsOK'
    BY <2>2, <2>3 DEF AlertInv, JobsOK
  <2>5. HeardOK'
    <3>1. ASSUME NEW c \in Channels, NEW n \in Notices, NEW i \in Ids, heard'[c][n][i] > 0
          PROVE  i \in 1..Len(incidents')
      <4>1. CASE heard'[c][n][i] = heard[c][n][i]
        BY <2>2, <3>1, <4>1 DEF AlertInv, HeardOK
      <4>2. CASE Concerns(j, c, n, i)
        BY <2>2, <2>3, <4>2 DEF Concerns
      <4>3. QED
        BY <2>2, <4>1, <4>2
    <3>2. QED
      BY <2>2, <3>1 DEF HeardOK
  <2>6. IncidentsOK' /\ EventsOK'
    BY <1>4, <2>1, <2>2 DEF AlertInv, IncidentsOK, EventsOK
  <2>7. QED
    BY <1>13, <2>1, <2>2, <2>4, <2>5, <2>6
<1>19. CASE AlertNext
  BY <1>7, <1>8, <1>9, <1>10, <1>11, <1>12, <1>14, <1>15, <1>16, <1>17, <1>18, <1>19, Zenon
     DEF AlertNext
<1>20. QED
  BY <1>2, <1>3, <1>19, StepKinds

\* The types of the incidents hold at first ...
LEMMA AlertInitially == Init => AlertInv
<1> SUFFICES ASSUME Init PROVE AlertInv
  OBVIOUS
<1>1. /\ incidents = <<>> /\ events = EmptyBag /\ jobs = EmptyBag
      /\ failing = FALSE /\ look = Never /\ now = 0
      /\ route \in [Channels -> Routes]
      /\ enabled \in [Channels -> BOOLEAN]
      /\ heard = [c \in Channels |-> [n \in Notices |-> [i \in Ids |-> 0]]]
  BY AlertingAssumption DEF Init, MaintenanceInit
<1>2. /\ BagOf(Event, events) /\ DOMAIN events = {} /\ BagOf(Job, jobs) /\ DOMAIN jobs = {}
  BY <1>1, NothingInBag
<1>3. IncidentsOK /\ EventsOK /\ JobsOK
  <2>1. Len(incidents) = 0 /\ incidents \in Seq(Incident)
    BY <1>1
  <2>2. QED
    BY <1>2, <2>1, AlertingAssumption DEF IncidentsOK, EventsOK, JobsOK
<1>4. HeardOK
  <2>1. \A c \in Channels, n \in Notices, i \in Ids : heard[c][n][i] = 0
    BY <1>1
  <2>2. heard \in [Channels -> [Notices -> [Ids -> Nat]]]
    <3>1. [i \in Ids |-> 0] \in [Ids -> Nat]
      OBVIOUS
    <3>2. QED
      BY <1>1, <3>1
  <2>3. QED
    BY <2>1, <2>2 DEF HeardOK
<1>5. look \in Never..MaxTime /\ look <= now
  BY <1>1, MaintenanceAssumption DEF Never
<1>6. failing \in BOOLEAN
  BY <1>1
<1>7. QED
  BY <1>1, <1>3, <1>4, <1>5, <1>6 DEF AlertInv

\* ... and throughout.
THEOREM AlertThroughout == Spec => []AlertInv
BY AlertInitially, AlertKept, WindowThroughout, PTL DEF Spec

(***************************************************************************)
(* The variables keep their types, for every budget.                       *)
(***************************************************************************)
THEOREM TypeCorrect == Spec => []TypeOK
<1>1. WindowInv /\ AlertInv => TypeOK
  <2> SUFFICES ASSUME WindowInv, AlertInv PROVE TypeOK
    OBVIOUS
  <2>1. now \in 0..MaxTime
    BY NowIsAnInstant DEF Instants
  <2>2. WindowTypeOK
    BY <2>1 DEF WindowInv, WindowTypeOK
  <2>3. /\ \A i \in DOMAIN incidents :
             incidents[i].started <= incidents[i].since /\ incidents[i].since <= now
        /\ Len(incidents) <= MaxIncidents
    BY DEF AlertInv, IncidentsOK
  <2>4. DOMAIN incidents = 1..Len(incidents)
    BY DEF AlertInv, IncidentsOK
  <2>5. \A e \in BagToSet(events) : e.id \in DOMAIN incidents
    BY <2>4 DEF AlertInv, EventsOK, BagToSet
  <2>6. \A j \in BagToSet(jobs) : j \in Job /\ j.id \in DOMAIN incidents
    BY <2>4 DEF AlertInv, JobsOK, BagOf, BagToSet
  <2>7. QED
    BY <2>2, <2>3, <2>5, <2>6 DEF AlertInv, TypeOK, Job
<1>2. QED
  BY <1>1, AlertThroughout, WindowThroughout, PTL

(***************************************************************************)
(* No page for planned work.                                               *)
(***************************************************************************)
\* An incident that lasts does not come to lie in planned work: whoever
\* touches the window afterwards does so after it began.
LEMMA PlannedBefore ==
  ASSUME WindowInv, AlertInv, ForceInv, [Next]_vars, Lasting,
         NEW i \in 1..Len(incidents), Planned(i)'
  PROVE  Planned(i)
<1>1. incidents'[i].started = incidents[i].started
  BY DEF Lasting
<1>2. CASE UNCHANGED <<intent, attached>> /\ window'.plan = window.plan
  BY <1>1, <1>2 DEF Planned
<1>3. incidents[i].started <= now /\ incidents[i].started \in Nat /\ now \in Nat
  <2>1. incidents[i].started \in Nat /\ incidents[i].since \in Nat
        /\ incidents[i].started <= incidents[i].since /\ incidents[i].since <= now
    BY IncidentFields DEF AlertInv, IncidentsOK
  <2>2. now \in Nat
    BY DEF WindowInv
  <2>3. QED
    BY <2>1, <2>2
<1>4. ~(intent'.at = now \/ intent'.status = "none")
  BY <1>1, <1>3 DEF Planned
<1>5. CASE UNCHANGED vars
  BY <1>2, <1>5 DEF vars, maintenance
<1>6. CASE AlertNext
  BY <1>2, <1>6, AsideOfTheWindow DEF maintenance, WindowInv
<1>7. ASSUME NEW p, NEW s, Create(p, s) \/ Save(p, s) PROVE FALSE
  BY <1>4, <1>7 DEF Create, Save, Intends
<1>8. CASE Attach \/ Remove \/ Delete
  BY <1>4, <1>8 DEF Attach, Remove, Delete, Intends
<1>9. CASE Tick \/ SyncRead \/ AnnounceRead \/ CrashJobs \/ \E u \in Subscribers : Mail(u)
  BY <1>2, <1>9, Zenon DEF Tick, SyncRead, AnnounceRead, CrashJobs, Mail
<1>10. CASE SyncWrite
  <2>1. window'.plan = window.plan /\ UNCHANGED <<intent, attached>>
    BY <1>10 DEF SyncWrite, WindowInv, Rows
  <2>2. QED
    BY <1>2, <2>1
<1>11. CASE Stamp
  <2>1. window'.plan = window.plan /\ UNCHANGED <<intent, attached>>
    BY <1>11 DEF Stamp, WindowInv, Rows
  <2>2. QED
    BY <1>2, <2>1
<1>12. CASE MaintenanceNext
  BY <1>7, <1>8, <1>9, <1>10, <1>11, <1>12, Zenon DEF MaintenanceNext
<1>13. QED
  BY <1>5, <1>6, <1>12, StepKinds

\* The news of an incident that began in planned work is told to nobody.
LEMMA PlannedIsMuted ==
  ASSUME ForceInv, EventsOK, NEW e \in DOMAIN events, e.kind = "created", Planned(e.id)
  PROVE  Told(e) = {}
<1>1. Muted(e.started)
  BY DEF ForceInv, EventsOK, Planned, Muted, Exists
<1>2. QED
  BY <1>1 DEF Told

\* The notice of a new job says what its event is about.
LEMMA NewJobsAre ==
  ASSUME NEW e, NEW told, NEW j \in NewJobs(e, told)
  PROVE  /\ j.id = e.id /\ told # {} /\ j.to \in told /\ j.notice = NoticeOf(e)
         /\ j.notice = "opened" <=> e.kind = "created"
BY DEF NewJobs, Attempt, NoticeOf

\* What a step may put in the queue or let be heard: a job of an event that
\* was told, the retry of one that was there, a notice of one that was there.
LEMMA Deliveries ==
  ASSUME WindowInv, AlertInv, [Next]_vars
  PROVE  /\ \A j \in DOMAIN jobs' :
              \/ \E k \in DOMAIN jobs : k.notice = j.notice /\ k.id = j.id
              \/ \E e \in DOMAIN events : \E part \in SUBSET Told(e) : j \in NewJobs(e, part)
         /\ \A c \in Channels, n \in Notices, i \in Ids :
              \/ heard'[c][n][i] = heard[c][n][i]
              \/ \E k \in DOMAIN jobs : k.notice = n /\ k.id = i
<1>1. CASE UNCHANGED <<jobs, heard>>
  BY <1>1
<1>2. CASE UNCHANGED vars \/ UNCHANGED alerting
  BY <1>1, <1>2 DEF vars, alerting
<1>3. CASE Change \/ CheckLook \/ CheckOpen \/ CheckPass
  BY <1>1, <1>3 DEF Change, CheckLook, CheckOpen, CheckPass
<1>4. ASSUME NEW s, NEW i, NEW st,
             CreateIncident(s) \/ Acknowledge(i) \/ UpdateIncident(i, st, s)
             \/ SaveRouting(s) \/ Enable(s)
      PROVE  UNCHANGED <<jobs, heard>>
  BY <1>4 DEF CreateIncident, Acknowledge, UpdateIncident, SaveRouting, Enable
<1>5. ASSUME NEW e, NEW part \in SUBSET Told(e), e \in DOMAIN events, Dispatch(e, part),
             UNCHANGED heard
      PROVE  /\ \A j \in DOMAIN jobs' :
                  \/ \E k \in DOMAIN jobs : k.notice = j.notice /\ k.id = j.id
                  \/ \E f \in DOMAIN events : \E rest \in SUBSET Told(f) : j \in NewJobs(f, rest)
             /\ \A c \in Channels, n \in Notices, i \in Ids :
                  \/ heard'[c][n][i] = heard[c][n][i]
                  \/ \E k \in DOMAIN jobs : k.notice = n /\ k.id = i
  <2>1. part \in SUBSET Channels
    BY DEF Told, Fanout
  <2>2. DOMAIN jobs' = DOMAIN jobs \cup NewJobs(e, part)
    BY <1>5, <2>1, DispatchIs DEF AlertInv
  <2>3. QED
    BY <1>5, <2>2
<1>6. ASSUME NEW e \in BagToSet(events), Listen(e)
      PROVE  e \in DOMAIN events /\ Dispatch(e, Told(e)) /\ UNCHANGED heard
  BY <1>6, ListenIs DEF AlertInv
<1>7. ASSUME CrashListening
      PROVE  /\ UNCHANGED heard
             /\ \/ jobs' = jobs
                \/ \E e \in DOMAIN events : \E part \in SUBSET Told(e) : Dispatch(e, part)
  BY <1>7, CrashIs, Zenon DEF AlertInv
<1>8. ASSUME NEW j \in BagToSet(jobs), Send(j) \/ SendFails(j)
      PROVE  /\ \A l \in DOMAIN jobs' :
                  \E k \in DOMAIN jobs : k.notice = l.notice /\ k.id = l.id
             /\ \A c \in Channels, n \in Notices, i \in Ids :
                  \/ heard'[c][n][i] = heard[c][n][i]
                  \/ \E k \in DOMAIN jobs : k.notice = n /\ k.id = i
  <2>1. /\ j \in DOMAIN jobs /\ DOMAIN jobs' \subseteq DOMAIN jobs \cup {Retry(j)}
        /\ \A c \in Channels, n \in Notices, i \in Ids :
             heard'[c][n][i] = heard[c][n][i] \/ Concerns(j, c, n, i)
    BY <1>8, SendIs DEF AlertInv
  <2>2. Retry(j).notice = j.notice /\ Retry(j).id = j.id
    BY DEF Retry, Attempt
  <2>3. QED
    BY <2>1, <2>2 DEF Concerns
<1>9. CASE AlertNext
  <2>1. CASE \E s \in Severities : CreateIncident(s)
    BY <1>1, <1>4, <2>1
  <2>2. CASE \E i \in Ids : Acknowledge(i)
    BY <1>1, <1>4, <2>2
  <2>3. CASE \E i \in Ids, st \in {"investigating", "identified", "resolved"}, s \in Severities :
               UpdateIncident(i, st, s)
    BY <1>1, <1>4, <2>3
  <2>4. CASE \E r \in [Channels -> Routes] : SaveRouting(r)
    BY <1>1, <1>4, <2>4
  <2>5. CASE \E c \in Channels : Enable(c)
    BY <1>1, <1>4, <2>5
  <2>6. CASE \E e \in BagToSet(events) : Listen(e)
    <3>1. PICK e \in BagToSet(events) : Listen(e)
      BY <2>6
    <3>2. QED
      BY <1>5, <1>6, <3>1
  <2>7. CASE CrashListening
    BY <1>1, <1>5, <1>7, <2>7
  <2>8. CASE \E j \in BagToSet(jobs) : Send(j) \/ SendFails(j)
    BY <1>8, <2>8
  <2>9. QED
    BY <1>3, <1>9, <2>1, <2>2, <2>3, <2>4, <2>5, <2>6, <2>7, <2>8, Zenon DEF AlertNext
<1>10. QED
  BY <1>2, <1>9, StepKinds

\* Every step keeps it quiet.
LEMMA QuietKept ==
  WindowInv /\ AlertInv /\ ForceInv /\ QuietInv /\ [Next]_vars => QuietInv'
<1> SUFFICES ASSUME WindowInv, AlertInv, ForceInv, QuietInv, [Next]_vars,
                    NEW i \in 1..Len(incidents'), Planned(i)'
             PROVE  /\ \A c \in Channels : heard'[c]["opened"][i] = 0
                    /\ \A j \in DOMAIN jobs' : ~(j.notice = "opened" /\ j.id = i)
  BY DEF QuietInv
<1>1. AlertInv' /\ Lasting
  BY AlertKept
<1>2. i \in Ids /\ "opened" \in Notices
  <2>1. Len(incidents') \in Nat /\ Len(incidents') <= MaxIncidents
    BY <1>1 DEF AlertInv, IncidentsOK
  <2>2. QED
    BY <2>1, AlertingAssumption DEF Ids, Notices
<1>3. ASSUME NEW c \in Channels
      PROVE  \/ heard'[c]["opened"][i] = heard[c]["opened"][i]
             \/ \E k \in DOMAIN jobs : k.notice = "opened" /\ k.id = i
  BY <1>2, Deliveries
<1>4. ASSUME NEW j \in DOMAIN jobs'
      PROVE  \/ \E k \in DOMAIN jobs : k.notice = j.notice /\ k.id = j.id
             \/ \E e \in DOMAIN events : \E part \in SUBSET Told(e) : j \in NewJobs(e, part)
  BY Deliveries
<1>5. CASE i \in 1..Len(incidents)
  <2>1. Planned(i)
    BY <1>1, <1>5, PlannedBefore
  <2>2. /\ \A c \in Channels : heard[c]["opened"][i] = 0
        /\ \A j \in DOMAIN jobs : ~(j.notice = "opened" /\ j.id = i)
    BY <1>5, <2>1 DEF QuietInv
  <2>3. ASSUME NEW e \in DOMAIN events, NEW part \in SUBSET Told(e), NEW j \in NewJobs(e, part),
               j.notice = "opened", j.id = i
        PROVE  FALSE
    <3>1. e.kind = "created" /\ e.id = i /\ part # {}
      BY <2>3, NewJobsAre
    <3>2. Told(e) = {}
      BY <2>1, <3>1, PlannedIsMuted DEF AlertInv
    <3>3. QED
      BY <3>1, <3>2
  <2>4. \A c \in Channels : heard'[c]["opened"][i] = 0
    BY <1>2, <2>2, <1>3
  <2>5. \A j \in DOMAIN jobs' : ~(j.notice = "opened" /\ j.id = i)
    BY <2>2, <2>3, <1>4
  <2>6. QED
    BY <2>4, <2>5
<1>6. CASE i \notin 1..Len(incidents)
  <2>1. \A c \in Channels : heard[c]["opened"][i] = 0
    <3>1. \A c \in Channels : heard[c]["opened"][i] \in Nat
      BY <1>2 DEF AlertInv, HeardOK
    <3>2. QED
      BY <1>2, <1>6, <3>1 DEF AlertInv, HeardOK
  <2>2. \A j \in DOMAIN jobs : j.id # i
    BY <1>6 DEF AlertInv, JobsOK
  <2>3. ASSUME NEW e \in DOMAIN events, NEW part \in SUBSET Told(e), NEW j \in NewJobs(e, part)
        PROVE  j.id # i
    <3>1. j.id = e.id
      BY NewJobsAre
    <3>2. QED
      BY <1>6, <3>1 DEF AlertInv, EventsOK
  <2>4. \A c \in Channels : heard'[c]["opened"][i] = 0
    BY <1>2, <2>1, <2>2, <1>3
  <2>5. \A j \in DOMAIN jobs' : ~(j.notice = "opened" /\ j.id = i)
    BY <2>2, <2>3, <1>4
  <2>6. QED
    BY <2>4, <2>5
<1>7. QED
  BY <1>5, <1>6

(***************************************************************************)
(* Nobody has been told of an incident that began inside a window the      *)
(* operator had left alone since, however the jobs, the events and the     *)
(* clock interleave.                                                       *)
(***************************************************************************)
THEOREM NoPageForPlannedWork == Spec => []QuietInWindow
<1>1. Init => QuietInv
  BY DEF Init, QuietInv
<1>2. AlertInv /\ QuietInv => QuietInWindow
  <2>1. ASSUME AlertInv, QuietInv, NEW i \in DOMAIN incidents, NEW c \in Channels,
               heard[c]["opened"][i] > 0
        PROVE  ~Planned(i)
    BY <2>1 DEF AlertInv, IncidentsOK, QuietInv
  <2>2. QED
    BY <2>1 DEF QuietInWindow, Planned
<1>3. QED
  BY <1>1, <1>2, QuietKept, WindowThroughout, AlertThroughout, PTL DEF Spec

(***************************************************************************)
(* The notices.                                                            *)
(***************************************************************************)
\* The counts are natural numbers.
LEMMA TallyCounts ==
  ASSUME WindowInv, AlertInv, NEW c \in Channels, NEW n \in Notices, NEW i \in 1..Len(incidents)
  PROVE  /\ Unread(n, i) \in Nat /\ Queued(c, n, i) \in Nat /\ heard[c][n][i] \in Nat
         /\ spent["fail"] \in Nat /\ spent["patch"] \in Nat
<1>1. \A x : Copies(jobs, x) \in Nat /\ Copies(events, x) \in Nat
  BY CopiesCount DEF AlertInv, JobsOK, EventsOK
<1>2. i \in Ids
  BY IncidentFields DEF AlertInv
<1>3. heard[c][n][i] \in Nat
  BY <1>2 DEF AlertInv, HeardOK
<1>4. Unread(n, i) \in Nat
  BY <1>1 DEF Unread
<1>5. Queued(c, n, i) \in Nat
  BY <1>1 DEF Queued
<1>6. spent["fail"] \in Nat /\ spent["patch"] \in Nat
  BY DEF WindowInv, Events
<1>7. QED
  BY <1>3, <1>4, <1>5, <1>6

\* Failures and patches are only ever counted up.
LEMMA SpentRises ==
  ASSUME WindowInv, BoundsStep
  PROVE  /\ spent'["fail"] \in Nat /\ spent'["patch"] \in Nat
         /\ spent'["fail"] >= spent["fail"] /\ spent'["patch"] >= spent["patch"]
         /\ spent["fail"] \in Nat /\ spent["patch"] \in Nat
BY DEF WindowInv, BoundsStep, Events

\* What may be told of an incident whose status stays rises with the failures
\* charged, at least.
LEMMA AllowedRises ==
  ASSUME WindowInv, BoundsStep, NEW n, NEW i, incidents'[i].status = incidents[i].status
  PROVE  /\ Allowed(n, i) \in Nat /\ Allowed(n, i)' \in Nat
         /\ Allowed(n, i)' >= Allowed(n, i) + (spent'["fail"] - spent["fail"])
<1>1. PICK f \in Nat, g \in Nat, p \in Nat, r \in Nat :
        /\ f = spent["fail"] /\ g = spent'["fail"] /\ p = spent["patch"] /\ r = spent'["patch"]
        /\ f <= g /\ p <= r
  BY SpentRises
<1>2. f \in Nat /\ g \in Nat /\ p \in Nat /\ r \in Nat /\ f <= g /\ p <= r
  BY <1>1
<1>3. PICK one \in 0..1 : one = IF incidents[i].status = "resolved" THEN 1 ELSE 0
  OBVIOUS
<1>4. IF n = "opened" THEN Allowed(n, i) = 1 + f /\ Allowed(n, i)' = 1 + g
      ELSE Allowed(n, i) = f + p + one /\ Allowed(n, i)' = g + r + one
  BY <1>1, <1>3 DEF Allowed
<1>5. one \in Nat
  BY <1>3
<1>6. /\ 1 + f \in Nat /\ 1 + g \in Nat /\ f + p + one \in Nat /\ g + r + one \in Nat
      /\ 1 + g >= 1 + f + (g - f) /\ g + r + one >= f + p + one + (g - f)
  BY <1>2, <1>5
<1>7. spent'["fail"] - spent["fail"] = g - f
  BY <1>1
<1>8. QED
  BY <1>4, <1>6, <1>7

\* The two sorts of news of an incident differ.
LEMMA NewsDiffer ==
  ASSUME NEW n \in Notices, NEW i
  PROVE  News(n, i, "down") # News(n, i, "issue")
BY DEF News

\* An event for which somebody is told is the news of its incident.
LEMMA ToldIsNews ==
  ASSUME EventsOK, NEW e \in DOMAIN events, Told(e) # {}
  PROVE  /\ e = News(NoticeOf(e), e.id, e.severity) /\ e.severity \in {"down", "issue"}
         /\ e.kind # "created" => e.kind = "updated" /\ e.status = "resolved"
<1>1. /\ e \in Event /\ e.started = incidents[e.id].started
      /\ e.kind = "created" => e.status = "investigating"
  BY DEF EventsOK, BagOf
<1>2. e.kind = "updated" => e.status = "resolved"
  BY DEF Told
<1>3. /\ e = [kind |-> e.kind, id |-> e.id, status |-> e.status, severity |-> e.severity,
              started |-> e.started]
      /\ e.kind \in {"created", "updated"} /\ e.severity \in {"down", "issue"}
  BY <1>1 DEF Event, Severities
<1>4. QED
  BY <1>1, <1>2, <1>3 DEF News, NoticeOf

\* A fan-out queues a notice only for what it takes the news of.
LEMMA DispatchTally ==
  ASSUME WindowInv, AlertInv, UNCHANGED incidents,
         NEW e \in DOMAIN events, NEW part \in SUBSET Told(e), Dispatch(e, part),
         NEW c \in Channels, NEW n \in Notices, NEW i \in 1..Len(incidents)
  PROVE  Queued(c, n, i)' <= Queued(c, n, i)
           + (IF e = News(n, i, "down") \/ e = News(n, i, "issue") THEN 1 ELSE 0)
<1>1. part \in SUBSET Channels
  BY DEF Told, Fanout
<1>2. \A x : Copies(jobs', x) = Copies(jobs, x) + (IF x \in NewJobs(e, part) THEN 1 ELSE 0)
  BY <1>1, DispatchIs DEF AlertInv
<1>3. \A x : Copies(jobs, x) \in Nat
  BY CopiesCount DEF AlertInv, JobsOK
<1>4. Attempt(c, n, i, 2) \notin NewJobs(e, part) /\ Attempt(c, n, i, 3) \notin NewJobs(e, part)
  <2>1. \A x \in NewJobs(e, part) : x.try = 1
    BY DEF NewJobs, Attempt
  <2>2. Attempt(c, n, i, 2).try = 2 /\ Attempt(c, n, i, 3).try = 3
    BY DEF Attempt
  <2>3. QED
    BY <2>1, <2>2
<1>5. ASSUME Attempt(c, n, i, 1) \in NewJobs(e, part)
      PROVE  e = News(n, i, "down") \/ e = News(n, i, "issue")
  <2>1. NoticeOf(e) = n /\ e.id = i /\ part # {}
    BY <1>5 DEF NewJobs, Attempt
  <2>2. QED
    BY <2>1, ToldIsNews DEF AlertInv
<1>6. /\ Queued(c, n, i) = Copies(jobs, Attempt(c, n, i, 1)) + Copies(jobs, Attempt(c, n, i, 2))
                           + Copies(jobs, Attempt(c, n, i, 3))
      /\ Queued(c, n, i)' = Copies(jobs', Attempt(c, n, i, 1))
                            + Copies(jobs', Attempt(c, n, i, 2))
                            + Copies(jobs', Attempt(c, n, i, 3))
  BY DEF Queued
<1>7. QED
  BY <1>2, <1>3, <1>4, <1>5, <1>6

\* A step after which no incident changed and every count is as it was, or
\* lower, or higher by the failures charged.
LEMMA TallyNoMore ==
  ASSUME WindowInv, AlertInv, TallyInv, BoundsStep, UNCHANGED incidents,
         \A c \in Channels, n \in Notices, i \in 1..Len(incidents) :
           Tally(c, n, i)' <= Tally(c, n, i) + (spent'["fail"] - spent["fail"]),
         \A c \in Channels, n \in Notices, i \in 1..Len(incidents) :
           Tally(c, n, i)' \in Nat
  PROVE  TallyInv'
<1> SUFFICES ASSUME NEW i \in 1..Len(incidents), NEW c \in Channels, NEW n \in Notices
             PROVE  Tally(c, n, i)' <= Allowed(n, i)'
  BY DEF TallyInv
<1>1. Tally(c, n, i) <= Allowed(n, i)
  BY DEF TallyInv
<1>2. Tally(c, n, i) \in Nat
  BY TallyCounts DEF Tally
<1>3. /\ Allowed(n, i) \in Nat /\ Allowed(n, i)' \in Nat
      /\ Allowed(n, i)' >= Allowed(n, i) + (spent'["fail"] - spent["fail"])
  BY AllowedRises
<1>4. spent'["fail"] \in Nat /\ spent["fail"] \in Nat
  BY SpentRises
<1>5. QED
  BY <1>1, <1>2, <1>3, <1>4

\* A new incident has one opening to be told, and nothing else.
LEMMA AddTally ==
  ASSUME WindowInv, AlertInv, TallyInv, BoundsStep, NEW sev \in Severities,
         NEW t \in Instants, t <= now, now' = now, Add(sev, t), UNCHANGED <<jobs, heard>>
  PROVE  TallyInv'
<1> DEFINE m == Len(incidents) + 1
           ev == EventOf("created", m, Row("investigating", sev, t))
<1>1. /\ Len(incidents') = m /\ Len(incidents) \in Nat /\ m <= MaxIncidents
      /\ \A i \in 1..Len(incidents) : incidents'[i] = incidents[i]
      /\ incidents'[m] = Row("investigating", sev, t)
      /\ \A y : Copies(events', y) = Copies(events, y) + (IF y = ev THEN 1 ELSE 0)
  <2>1. Len(incidents) \in Nat /\ Len(incidents) < MaxIncidents
    BY DEF AlertInv, IncidentsOK, Add
  <2>2. m <= MaxIncidents
    BY <2>1, AlertingAssumption
  <2>3. /\ Len(incidents') = Len(incidents) + 1
        /\ \A i \in 1..Len(incidents) : incidents'[i] = incidents[i]
        /\ incidents'[Len(incidents) + 1] = Row("investigating", sev, t)
        /\ OneMore(events, events',
                   EventOf("created", Len(incidents) + 1, Row("investigating", sev, t)))
    BY AddIs
  <2>4. QED
    BY <2>1, <2>2, <2>3 DEF OneMore
<1>2. /\ ev.id = m /\ ev.kind = "created" /\ ev.severity = sev
  BY DEF EventOf, Row
<1> SUFFICES ASSUME NEW i \in 1..Len(incidents'), NEW c \in Channels, NEW n \in Notices
             PROVE  Tally(c, n, i)' <= Allowed(n, i)'
  BY DEF TallyInv
<1>3. /\ Unread(n, i)' = Copies(events', News(n, i, "down")') + Copies(events', News(n, i, "issue")')
      /\ Queued(c, n, i)' = Queued(c, n, i) /\ heard'[c][n][i] = heard[c][n][i]
      /\ Tally(c, n, i)' = Unread(n, i)' + Queued(c, n, i)' + heard'[c][n][i]
  BY DEF Unread, Queued, Tally
<1>4. News(n, i, "down")'.id = i /\ News(n, i, "issue")'.id = i
  BY DEF News
<1>5. CASE i \in 1..Len(incidents)
  <2>1. News(n, i, "down")' = News(n, i, "down") /\ News(n, i, "issue")' = News(n, i, "issue")
    BY <1>1, <1>5 DEF News
  <2>2. News(n, i, "down") # ev /\ News(n, i, "issue") # ev
    BY <1>1, <1>2, <1>4, <1>5, <2>1
  <2>3. \A x : Copies(events, x) \in Nat
    BY CopiesCount DEF AlertInv, EventsOK
  <2>4. Unread(n, i)' = Unread(n, i)
    BY <1>1, <1>3, <2>1, <2>2, <2>3 DEF Unread
  <2>5. Tally(c, n, i)' = Tally(c, n, i) /\ Tally(c, n, i) \in Nat
    BY <1>3, <1>5, <2>4, TallyCounts DEF Tally
  <2>6. Tally(c, n, i) <= Allowed(n, i)
    BY <1>5 DEF TallyInv
  <2>7. Allowed(n, i) \in Nat /\ Allowed(n, i)' \in Nat /\ Allowed(n, i) <= Allowed(n, i)'
    <3>1. incidents'[i].status = incidents[i].status
      BY <1>1, <1>5
    <3>2. /\ Allowed(n, i) \in Nat /\ Allowed(n, i)' \in Nat
          /\ Allowed(n, i)' >= Allowed(n, i) + (spent'["fail"] - spent["fail"])
      BY <3>1, AllowedRises
    <3>3. spent'["fail"] \in Nat /\ spent["fail"] \in Nat /\ spent'["fail"] >= spent["fail"]
      BY SpentRises
    <3>4. QED
      BY <3>2, <3>3
  <2>8. QED
    BY <2>5, <2>6, <2>7
<1>6. CASE i = m
  <2>1. /\ News(n, i, "down")' \notin DOMAIN events /\ News(n, i, "issue")' \notin DOMAIN events
    BY <1>1, <1>4, <1>6 DEF AlertInv, EventsOK
  <2>2. Copies(events, News(n, i, "down")') = 0 /\ Copies(events, News(n, i, "issue")') = 0
    BY <2>1 DEF Copies
  <2>3. News(n, i, "down")' # News(n, i, "issue")'
    BY DEF News
  <2>4. n = "resolved" => ev # News(n, i, "down")' /\ ev # News(n, i, "issue")'
    BY <1>2 DEF News
  <2>5. Unread(n, i)' <= (IF n = "opened" THEN 1 ELSE 0) /\ Unread(n, i)' \in Nat
    BY <1>1, <1>3, <2>2, <2>3, <2>4 DEF Notices
  <2>6. Queued(c, n, i) = 0
    <3>1. \A x : x \in DOMAIN jobs => x.id # i
      BY <1>1, <1>6 DEF AlertInv, JobsOK
    <3>2. \A try \in 1..3 : Attempt(c, n, i, try) \notin DOMAIN jobs
      BY <3>1 DEF Attempt
    <3>3. QED
      BY <3>2 DEF Queued, Copies
  <2>7. heard[c][n][i] = 0
    <3>1. i \in Ids
      BY <1>1, <1>6, AlertingAssumption DEF Ids
    <3>2. heard[c][n][i] \in Nat /\ (heard[c][n][i] > 0 => i \in 1..Len(incidents))
      BY <3>1 DEF AlertInv, HeardOK
    <3>3. QED
      BY <1>1, <1>6, <3>2
  <2>8. Allowed(n, i)' >= (IF n = "opened" THEN 1 ELSE 0) /\ Allowed(n, i)' \in Nat
    BY SpentRises DEF Allowed
  <2>9. QED
    BY <1>3, <2>5, <2>6, <2>7, <2>8
<1>7. QED
  BY <1>1, <1>5, <1>6

\* A write of a row that was not resolved, or by a patch, is one recovery to
\* be told at most.
LEMMA PutTally ==
  ASSUME WindowInv, AlertInv, TallyInv, BoundsStep, NEW k \in 1..Len(incidents),
         NEW st \in {"investigating", "identified", "resolved"}, NEW sev \in Severities,
         now' = now, Put(k, st, sev), UNCHANGED <<jobs, heard>>,
         incidents[k].status # "resolved" \/ spent'["patch"] = spent["patch"] + 1
  PROVE  TallyInv'
<1> DEFINE ev == EventOf("updated", k, Row(st, sev, incidents[k].started))
<1>1. /\ Len(incidents') = Len(incidents)
      /\ \A i \in 1..Len(incidents) : i # k => incidents'[i] = incidents[i]
      /\ incidents'[k] = Row(st, sev, incidents[k].started)
      /\ \A y : Copies(events', y) = Copies(events, y) + (IF y = ev THEN 1 ELSE 0)
  BY ZenonT(60), PutIs DEF OneMore
<1> SUFFICES ASSUME NEW i \in 1..Len(incidents), NEW c \in Channels, NEW n \in Notices
             PROVE  Tally(c, n, i)' <= Allowed(n, i)'
  BY <1>1 DEF TallyInv
<1>2. /\ Unread(n, i)' = Copies(events', News(n, i, "down")') + Copies(events', News(n, i, "issue")')
      /\ Queued(c, n, i)' = Queued(c, n, i) /\ heard'[c][n][i] = heard[c][n][i]
      /\ Tally(c, n, i)' = Unread(n, i)' + Queued(c, n, i)' + heard'[c][n][i]
      /\ Tally(c, n, i) = Unread(n, i) + Queued(c, n, i) + heard[c][n][i]
      /\ Unread(n, i) = Copies(events, News(n, i, "down")) + Copies(events, News(n, i, "issue"))
  BY DEF Unread, Queued, Tally
<1>3. incidents'[i].started = incidents[i].started
  BY <1>1 DEF Row
<1>4. News(n, i, "down")' = News(n, i, "down") /\ News(n, i, "issue")' = News(n, i, "issue")
  BY <1>3 DEF News
<1>5. \A x : Copies(events, x) \in Nat
  BY CopiesCount DEF AlertInv, EventsOK
<1>6. Tally(c, n, i) <= Allowed(n, i)
  BY DEF TallyInv
<1>7. ev = News(n, i, "down") \/ ev = News(n, i, "issue") => n = "resolved" /\ i = k /\ st = "resolved"
  <2>1. ev.kind = "updated" /\ ev.id = k /\ ev.status = st
    BY DEF EventOf, Row
  <2>2. \A s : /\ News(n, i, s).kind = (IF n = "opened" THEN "created" ELSE "updated")
               /\ News(n, i, s).id = i
               /\ News(n, i, s).status = (IF n = "opened" THEN "investigating" ELSE "resolved")
    BY DEF News
  <2>3. QED
    BY <2>1, <2>2 DEF Notices
<1>8. Unread(n, i)' <= Unread(n, i) + (IF n = "resolved" /\ i = k /\ st = "resolved" THEN 1 ELSE 0)
      /\ Unread(n, i)' \in Nat
  <2>1. News(n, i, "down") # News(n, i, "issue")
    BY NewsDiffer
  <2> HIDE DEF ev
  <2>2. QED
    BY <1>1, <1>2, <1>4, <1>5, <1>7, <2>1
<1>9. Unread(n, i) \in Nat /\ Queued(c, n, i) \in Nat /\ heard[c][n][i] \in Nat
  BY TallyCounts
<1>10. /\ spent'["fail"] \in Nat /\ spent'["patch"] \in Nat
       /\ spent'["fail"] >= spent["fail"] /\ spent'["patch"] >= spent["patch"]
       /\ spent["fail"] \in Nat /\ spent["patch"] \in Nat
  BY SpentRises
<1>11. CASE n = "opened"
  <2>1. Allowed(n, i) = 1 + spent["fail"] /\ Allowed(n, i)' = 1 + spent'["fail"]
    BY <1>11 DEF Allowed
  <2>2. Unread(n, i)' <= Unread(n, i)
    BY <1>8, <1>9, <1>11
  <2>3. Tally(c, n, i)' <= Tally(c, n, i) /\ Tally(c, n, i) \in Nat /\ Tally(c, n, i)' \in Nat
    <3>1. PICK u \in Nat, q \in Nat, h \in Nat :
            u = Unread(n, i) /\ q = Queued(c, n, i) /\ h = heard[c][n][i]
      BY <1>9
    <3>2. PICK v \in Nat : v = Unread(n, i)'
      BY <1>8
    <3>3. v <= u
      BY <2>2, <3>1, <3>2
    <3>4. Tally(c, n, i) = u + q + h /\ Tally(c, n, i)' = v + q + h
      BY <1>2, <3>1, <3>2
    <3>5. QED
      BY <3>3, <3>4
  <2>4. QED
    BY <1>6, <1>10, <2>1, <2>3
<1>12. CASE n = "resolved"
  <2>1. PICK was \in 0..1 : was = IF incidents[i].status = "resolved" THEN 1 ELSE 0
    OBVIOUS
  <2>2. PICK is \in 0..1 : is = IF incidents'[i].status = "resolved" THEN 1 ELSE 0
    OBVIOUS
  <2>3. PICK more \in 0..1 : more = IF i = k /\ st = "resolved" THEN 1 ELSE 0
    OBVIOUS
  <2>4. /\ Allowed(n, i) = spent["fail"] + spent["patch"] + was
        /\ Allowed(n, i)' = spent'["fail"] + spent'["patch"] + is
    BY <1>12, <2>1, <2>2 DEF Allowed
  <2>5. Unread(n, i)' <= Unread(n, i) + more /\ Unread(n, i)' \in Nat
    BY <1>8, <1>12, <2>3
  <2>6. was + more <= is \/ (was + more <= is + 1 /\ spent'["patch"] = spent["patch"] + 1)
    <3>1. CASE i # k
      BY <1>1, <2>1, <2>2, <2>3, <3>1
    <3>2. CASE i = k
      <4>1. incidents'[i].status = st
        BY <1>1, <3>2 DEF Row
      <4>2. QED
        BY <2>1, <2>2, <2>3, <3>2, <4>1
    <3>3. QED
      BY <3>1, <3>2
  <2>7. /\ Tally(c, n, i)' = Unread(n, i)' + Queued(c, n, i) + heard[c][n][i]
        /\ Tally(c, n, i) = Unread(n, i) + Queued(c, n, i) + heard[c][n][i]
    BY <1>2
  <2>8. Tally(c, n, i)' <= Tally(c, n, i) + more /\ Tally(c, n, i) \in Nat
        /\ Tally(c, n, i)' \in Nat
    <3>1. PICK u \in Nat, q \in Nat, h \in Nat :
            u = Unread(n, i) /\ q = Queued(c, n, i) /\ h = heard[c][n][i]
      BY <1>9
    <3>2. PICK v \in Nat : v = Unread(n, i)'
      BY <2>5
    <3>3. more \in Nat
      BY <2>3
    <3>4. v <= u + more
      BY <2>5, <3>1, <3>2
    <3>5. Tally(c, n, i) = u + q + h /\ Tally(c, n, i)' = v + q + h
      BY <2>7, <3>1, <3>2
    <3>6. u + q + h \in Nat /\ v + q + h \in Nat /\ v + q + h <= u + q + h + more
      BY <3>3, <3>4
    <3>7. QED
      BY <3>5, <3>6
  <2>9. PICK f \in Nat, g \in Nat, p \in Nat, r \in Nat :
          /\ f = spent["fail"] /\ g = spent'["fail"] /\ p = spent["patch"] /\ r = spent'["patch"]
          /\ f <= g /\ p <= r
    BY <1>10
  <2>10. PICK t \in Nat, s \in Nat : t = Tally(c, n, i) /\ s = Tally(c, n, i)' /\ s <= t + more
    BY <2>8
  <2>11. t <= f + p + was
    BY <1>6, <2>4, <2>9, <2>10
  <2>12. was + more <= is \/ (was + more <= is + 1 /\ r = p + 1)
    BY <2>6, <2>9
  <2>13. s <= g + r + is
    <3>1. was \in Int /\ is \in Int /\ more \in Int
      BY <2>1, <2>2, <2>3
    <3>2. f \in Int /\ g \in Int /\ p \in Int /\ r \in Int /\ f <= g /\ p <= r
      BY <2>9
    <3>3. s \in Int /\ t \in Int /\ s <= t + more
      BY <2>10
    <3>4. s <= f + p + was + more
      BY <2>11, <3>1, <3>2, <3>3
    <3>5. CASE was + more <= is
      BY <3>1, <3>2, <3>3, <3>4, <3>5
    <3>6. CASE was + more <= is + 1 /\ r = p + 1
      BY <3>1, <3>2, <3>3, <3>4, <3>6
    <3>7. QED
      BY <2>12, <3>5, <3>6
  <2>14. QED
    BY <2>4, <2>9, <2>10, <2>13
<1>13. QED
  BY <1>11, <1>12 DEF Notices

\* A listener turns the news into one notice per channel at most.
LEMMA ListenTally ==
  ASSUME WindowInv, AlertInv, TallyInv, BoundsStep, NEW e \in BagToSet(events), Listen(e)
  PROVE  TallyInv'
<1>1. /\ e \in DOMAIN events /\ Dispatch(e, Told(e)) /\ UNCHANGED <<incidents, heard, spent>>
      /\ \A x : Copies(events', x) = Copies(events, x) - (IF x = e THEN 1 ELSE 0)
  BY ListenIs DEF AlertInv, bounds
<1>2. Told(e) \in SUBSET Told(e) /\ spent["fail"] \in Nat
  BY DEF WindowInv, Events
<1>3. ASSUME NEW c \in Channels, NEW n \in Notices, NEW i \in 1..Len(incidents)
      PROVE  Tally(c, n, i)' <= Tally(c, n, i) /\ Tally(c, n, i)' \in Nat /\ Tally(c, n, i) \in Nat
  <2>1. PICK took \in 0..1 :
          took = IF e = News(n, i, "down") \/ e = News(n, i, "issue") THEN 1 ELSE 0
    OBVIOUS
  <2>2. Queued(c, n, i)' <= Queued(c, n, i) + took
    BY <1>1, <1>2, <2>1, DispatchTally
  <2>3. Queued(c, n, i)' \in Nat
    <3>1. \A x : Copies(jobs', x) = Copies(jobs, x) + (IF x \in NewJobs(e, Told(e)) THEN 1 ELSE 0)
      BY <1>1, ListenIs, DispatchIs DEF AlertInv
    <3>2. \A x : Copies(jobs, x) \in Nat
      BY CopiesCount DEF AlertInv, JobsOK
    <3>3. \A x : Copies(jobs', x) \in Nat
      BY <3>1, <3>2
    <3>4. Queued(c, n, i)' = Copies(jobs', Attempt(c, n, i, 1))
                             + Copies(jobs', Attempt(c, n, i, 2))
                             + Copies(jobs', Attempt(c, n, i, 3))
      BY DEF Queued
    <3>5. QED
      BY <3>3, <3>4
  <2>4. Unread(n, i)' = Unread(n, i) - took /\ Unread(n, i)' \in Nat
    <3>1. News(n, i, "down")' = News(n, i, "down") /\ News(n, i, "issue")' = News(n, i, "issue")
      BY <1>1 DEF News
    <3>2. News(n, i, "down") # News(n, i, "issue")
      BY NewsDiffer
    <3>3. /\ \A x : Copies(events, x) \in Nat
          /\ Copies(events, e) > 0
      BY <1>1, CopiesCount DEF AlertInv, EventsOK
    <3>4. /\ Unread(n, i)' = Copies(events', News(n, i, "down")) + Copies(events', News(n, i, "issue"))
          /\ Unread(n, i) = Copies(events, News(n, i, "down")) + Copies(events, News(n, i, "issue"))
      BY <3>1 DEF Unread
    <3>5. QED
      BY <1>1, <2>1, <3>2, <3>3, <3>4
  <2>5. Unread(n, i) \in Nat /\ Queued(c, n, i) \in Nat /\ heard[c][n][i] \in Nat
    BY TallyCounts
  <2>6. /\ Tally(c, n, i)' = Unread(n, i)' + Queued(c, n, i)' + heard[c][n][i]
        /\ Tally(c, n, i) = Unread(n, i) + Queued(c, n, i) + heard[c][n][i]
    BY <1>1 DEF Tally
  <2>7. QED
    <3>1. PICK u \in Nat, q \in Nat, h \in Nat :
            u = Unread(n, i) /\ q = Queued(c, n, i) /\ h = heard[c][n][i]
      BY <2>5
    <3>2. PICK v \in Nat, k \in Nat : v = Unread(n, i)' /\ k = Queued(c, n, i)'
      BY <2>3, <2>4
    <3>3. v = u - took /\ k <= q + took
      BY <2>2, <2>4, <3>1, <3>2
    <3>4. Tally(c, n, i) = u + q + h /\ Tally(c, n, i)' = v + k + h
      BY <2>6, <3>1, <3>2
    <3>5. QED
      BY <3>3, <3>4
<1>4. spent'["fail"] - spent["fail"] = 0
  BY <1>1, <1>2
<1>5. QED
  BY <1>1, <1>3, <1>4, TallyNoMore

\* A crash loses news, and may have told some of it.
LEMMA CrashTally ==
  ASSUME WindowInv, AlertInv, TallyInv, BoundsStep, CrashListening
  PROVE  TallyInv'
<1>1. /\ \A x : Copies(events', x) = 0
      /\ UNCHANGED <<incidents, heard>>
      /\ \/ jobs' = jobs
         \/ \E e \in DOMAIN events : \E part \in SUBSET Told(e) :
              Dispatch(e, part) /\ part \in SUBSET Channels
  BY CrashIs DEF AlertInv
<1>2. \A x : Copies(events, x) \in Nat /\ Copies(jobs, x) \in Nat
  BY CopiesCount DEF AlertInv, EventsOK, JobsOK
<1>3. BagOf(Job, jobs')
  <2>1. CASE jobs' = jobs
    BY <2>1 DEF AlertInv, JobsOK
  <2>2. ASSUME NEW e \in DOMAIN events, NEW part \in SUBSET Told(e),
               Dispatch(e, part), part \in SUBSET Channels
        PROVE  BagOf(Job, jobs')
    BY <2>2, DispatchIs DEF AlertInv
  <2>3. QED
    BY <1>1, <2>1, <2>2
<1>4. ASSUME NEW c \in Channels, NEW n \in Notices, NEW i \in 1..Len(incidents)
      PROVE  Tally(c, n, i)' <= Tally(c, n, i) /\ Tally(c, n, i)' \in Nat /\ Tally(c, n, i) \in Nat
  <2>1. Unread(n, i)' = 0
    BY <1>1 DEF Unread
  <2>2. Queued(c, n, i)' \in Nat
    <3>1. \A x : Copies(jobs', x) \in Nat
      BY <1>3, CopiesCount
    <3>2. QED
      BY <3>1 DEF Queued
  <2>3. Unread(n, i) \in Nat /\ Queued(c, n, i) \in Nat /\ heard[c][n][i] \in Nat
    BY TallyCounts
  <2>4. Queued(c, n, i)' <= Queued(c, n, i) + Unread(n, i)
    <3>1. CASE jobs' = jobs
      <4>1. Queued(c, n, i)' = Queued(c, n, i)
        BY <3>1 DEF Queued
      <4>2. QED
        BY <2>3, <4>1
    <3>2. ASSUME NEW e \in DOMAIN events, NEW part \in SUBSET Told(e), Dispatch(e, part)
          PROVE  Queued(c, n, i)' <= Queued(c, n, i) + Unread(n, i)
      <4>1. PICK took \in 0..1 :
              took = IF e = News(n, i, "down") \/ e = News(n, i, "issue") THEN 1 ELSE 0
        OBVIOUS
      <4>2. Queued(c, n, i)' <= Queued(c, n, i) + took
        BY <1>1, <3>2, <4>1, DispatchTally
      <4>3. took <= Unread(n, i)
        <5>1. Copies(events, e) > 0
          BY CopiesCount DEF AlertInv, EventsOK
        <5>2. QED
          BY <1>2, <4>1, <5>1 DEF Unread
      <4>4. QED
        BY <2>2, <2>3, <4>2, <4>3
    <3>3. QED
      BY <1>1, <3>1, <3>2
  <2>5. /\ Tally(c, n, i)' = Unread(n, i)' + Queued(c, n, i)' + heard[c][n][i]
        /\ Tally(c, n, i) = Unread(n, i) + Queued(c, n, i) + heard[c][n][i]
    BY <1>1 DEF Tally
  <2>6. QED
    BY <2>1, <2>2, <2>3, <2>4, <2>5
<1>5. spent'["fail"] - spent["fail"] >= 0 /\ spent'["fail"] \in Nat /\ spent["fail"] \in Nat
  BY SpentRises
<1>6. ASSUME NEW c \in Channels, NEW n \in Notices, NEW i \in 1..Len(incidents)
      PROVE  Tally(c, n, i)' <= Tally(c, n, i) + (spent'["fail"] - spent["fail"])
  BY <1>4, <1>5
<1>7. QED
  BY <1>1, <1>4, <1>6, TallyNoMore

\* A count of three of which the second falls as the third rises.
LEMMA OneForOne ==
  ASSUME NEW u \in Nat, NEW q \in Nat, NEW r \in Nat, NEW h \in Nat, NEW g \in Nat,
         NEW d \in 0..1, g <= h + d
  PROVE  /\ u + r + g \in Nat
         /\ r = q - d => u + r + g <= u + q + h
         /\ r <= q => u + r + g <= u + q + h + 1
OBVIOUS

\* An attempt moves its notice from the queue to the channel; one that fails
\* may do both.
LEMMA SendTally ==
  ASSUME WindowInv, AlertInv, TallyInv, BoundsStep, NEW j, Send(j) \/ SendFails(j)
  PROVE  TallyInv'
<1>1. /\ UNCHANGED <<incidents, events>> /\ BagOf(Job, jobs')
      /\ \A c \in Channels, n \in Notices, i \in Ids :
           \/ heard'[c][n][i] = heard[c][n][i]
           \/ Concerns(j, c, n, i) /\ heard'[c][n][i] = heard[c][n][i] + 1
      /\ \/ /\ Send(j) /\ UNCHANGED bounds
            /\ \A c \in Channels, n \in Notices, i \in Ids :
                 Queued(c, n, i)' = Queued(c, n, i) - (IF Concerns(j, c, n, i) THEN 1 ELSE 0)
         \/ /\ SendFails(j) /\ Spend("fail")
            /\ \A c \in Channels, n \in Notices, i \in Ids :
                 Queued(c, n, i)' <= Queued(c, n, i)
  BY SendIs DEF AlertInv
<1>2. Spend("fail") => spent'["fail"] = spent["fail"] + 1
  <2>1. "fail" \in Events /\ left \in [Events -> Nat] /\ spent \in [Events -> Nat]
    BY DEF Events, WindowInv
  <2>2. QED
    BY <2>1, Charged
<1>3. spent'["fail"] \in Nat /\ spent["fail"] \in Nat
  BY SpentRises
<1>4. ASSUME NEW c \in Channels, NEW n \in Notices, NEW i \in 1..Len(incidents)
      PROVE  /\ Tally(c, n, i)' <= Tally(c, n, i) + (spent'["fail"] - spent["fail"])
             /\ Tally(c, n, i)' \in Nat
  <2>1. i \in Ids
    BY IncidentFields DEF AlertInv
  <2>2. Unread(n, i)' = Unread(n, i)
    BY <1>1 DEF Unread, News
  <2>3. Unread(n, i) \in Nat /\ Queued(c, n, i) \in Nat /\ heard[c][n][i] \in Nat
    BY TallyCounts
  <2>4. Queued(c, n, i)' \in Nat
    <3>1. \A x : Copies(jobs', x) \in Nat
      BY <1>1, CopiesCount
    <3>2. QED
      BY <3>1 DEF Queued
  <2>5. PICK hit \in 0..1 : hit = IF Concerns(j, c, n, i) THEN 1 ELSE 0
    OBVIOUS
  <2>6. heard'[c][n][i] \in Nat /\ heard'[c][n][i] <= heard[c][n][i] + hit
    BY <1>1, <2>1, <2>3, <2>5
  <2>7. /\ Tally(c, n, i)' = Unread(n, i)' + Queued(c, n, i)' + heard'[c][n][i]
        /\ Tally(c, n, i) = Unread(n, i) + Queued(c, n, i) + heard[c][n][i]
    BY DEF Tally
  <2>8. /\ Tally(c, n, i)' \in Nat /\ Tally(c, n, i) \in Nat
        /\ Queued(c, n, i)' = Queued(c, n, i) - hit => Tally(c, n, i)' <= Tally(c, n, i)
        /\ Queued(c, n, i)' <= Queued(c, n, i) => Tally(c, n, i)' <= Tally(c, n, i) + 1
    <3>1. PICK u \in Nat, q \in Nat, r \in Nat, h \in Nat, g \in Nat :
            /\ u = Unread(n, i) /\ q = Queued(c, n, i) /\ r = Queued(c, n, i)'
            /\ h = heard[c][n][i] /\ g = heard'[c][n][i]
      BY <2>3, <2>4, <2>6
    <3>2. g <= h + hit /\ Tally(c, n, i)' = u + r + g /\ Tally(c, n, i) = u + q + h
      BY <2>2, <2>6, <2>7, <3>1
    <3>3. u + q + h \in Nat
      OBVIOUS
    <3>4. /\ u + r + g \in Nat
          /\ r = q - hit => u + r + g <= u + q + h
          /\ r <= q => u + r + g <= u + q + h + 1
      BY <3>2, OneForOne
    <3>5. QED
      BY <3>1, <3>2, <3>3, <3>4
  <2>9. CASE UNCHANGED bounds /\ Queued(c, n, i)' = Queued(c, n, i) - hit
    <3>1. spent'["fail"] - spent["fail"] = 0
      BY <1>3, <2>9 DEF bounds
    <3>2. QED
      BY <2>8, <2>9, <3>1
  <2>10. CASE Spend("fail") /\ Queued(c, n, i)' <= Queued(c, n, i)
    <3>1. spent'["fail"] - spent["fail"] = 1
      BY <1>2, <1>3, <2>10
    <3>2. QED
      BY <2>8, <2>10, <3>1
  <2>11. QED
    BY <1>1, <2>1, <2>5, <2>9, <2>10
<1>5. QED
  BY <1>1, <1>4, TallyNoMore

\* Every step keeps the counts.
LEMMA TallyKept == WindowInv /\ ForceInv /\ AlertInv /\ TallyInv /\ [Next]_vars => TallyInv'
<1> SUFFICES ASSUME WindowInv, ForceInv, AlertInv, TallyInv, [Next]_vars PROVE TallyInv'
  OBVIOUS
<1>1. BoundsStep
  BY WindowKept
<1>2. CASE UNCHANGED <<incidents, events, jobs, heard>>
  <2>1. ASSUME NEW c \in Channels, NEW n \in Notices, NEW i \in 1..Len(incidents)
        PROVE  Tally(c, n, i)' <= Tally(c, n, i) + (spent'["fail"] - spent["fail"])
               /\ Tally(c, n, i)' \in Nat
    <3>1. Unread(n, i) \in Nat /\ Queued(c, n, i) \in Nat /\ heard[c][n][i] \in Nat
      BY TallyCounts
    <3>2. Tally(c, n, i)' = Tally(c, n, i)
      BY <1>2 DEF Tally, Unread, Queued, News
    <3>3. Tally(c, n, i) \in Nat
      BY <3>1 DEF Tally
    <3>4. spent'["fail"] \in Nat /\ spent["fail"] \in Nat /\ spent'["fail"] >= spent["fail"]
      BY <1>1, SpentRises
    <3>5. QED
      BY <3>2, <3>3, <3>4
  <2>2. QED
    BY <1>1, <1>2, <2>1, TallyNoMore
<1>3. CASE UNCHANGED vars \/ UNCHANGED alerting
  BY <1>2, <1>3 DEF vars, alerting
<1>4. ASSUME AlertNext PROVE now' = now
  BY <1>4, AsideOfTheWindow DEF maintenance, WindowInv
<1>5. CASE Change \/ CheckLook
  BY <1>2, <1>5 DEF Change, CheckLook
<1>6. ASSUME NEW r, SaveRouting(r) \/ Enable(r) PROVE TallyInv'
  BY <1>2, <1>6 DEF SaveRouting, Enable
<1>7. CASE CheckOpen
  <2>1. CASE UNCHANGED <<incidents, events>>
    BY <1>2, <1>7, <2>1 DEF CheckOpen
  <2>2. CASE Add(Kind, look)
    <3>1. look \in Instants /\ look <= now /\ now' = now /\ UNCHANGED <<jobs, heard>>
      BY <1>4, <1>7 DEF CheckOpen, AlertInv, Never, Instants, AlertNext
    <3>2. QED
      BY <1>1, <2>2, <3>1, AddTally, AlertingAssumption
  <2>3. QED
    BY <1>7, <2>1, <2>2 DEF CheckOpen
<1>8. CASE CheckPass
  <2>1. PICK i \in Ids : Open(i) /\ Put(i, "resolved", incidents[i].severity)
    BY <1>8 DEF CheckPass
  <2>2. i \in 1..Len(incidents) /\ incidents[i].severity \in Severities
        /\ incidents[i].status # "resolved"
    BY <2>1, IncidentFields DEF Open, AlertInv, IncidentsOK
  <2>3. now' = now /\ UNCHANGED <<jobs, heard>>
    BY <1>4, <1>8 DEF CheckPass, AlertNext
  <2>4. QED
    BY <1>1, <2>1, <2>2, <2>3, PutTally
<1>9. ASSUME NEW s \in Severities, CreateIncident(s) PROVE TallyInv'
  <2>1. now' = now /\ UNCHANGED <<jobs, heard>> /\ Add(s, now)
    BY <1>4, <1>9 DEF CreateIncident, AlertNext
  <2>2. now \in Instants /\ now <= now
    BY NowIsAnInstant DEF Instants
  <2>3. QED
    BY <1>1, <2>1, <2>2, AddTally
<1>10. ASSUME NEW i \in Ids, Acknowledge(i) PROVE TallyInv'
  <2>1. now' = now /\ UNCHANGED <<jobs, heard>> /\ Put(i, "identified", incidents[i].severity)
    BY <1>4, <1>10 DEF Acknowledge, AlertNext
  <2>2. i \in 1..Len(incidents) /\ incidents[i].severity \in Severities
        /\ incidents[i].status # "resolved"
    BY <1>10, IncidentFields DEF Acknowledge, AlertInv, IncidentsOK
  <2>3. QED
    BY <1>1, <2>1, <2>2, PutTally
<1>11. ASSUME NEW i \in Ids, NEW st \in {"investigating", "identified", "resolved"},
              NEW s \in Severities, UpdateIncident(i, st, s)
       PROVE  TallyInv'
  <2>1. now' = now /\ UNCHANGED <<jobs, heard>> /\ Put(i, st, s) /\ Spend("patch")
    BY <1>4, <1>11 DEF UpdateIncident, AlertNext
  <2>2. i \in 1..Len(incidents)
    BY <1>11 DEF UpdateIncident, AlertInv, IncidentsOK
  <2>3. spent'["patch"] = spent["patch"] + 1
    <3>1. "patch" \in Events
      BY DEF Events
    <3>2. QED
      BY <2>1, <3>1, Charged DEF WindowInv
  <2>4. QED
    BY <1>1, <2>1, <2>2, <2>3, PutTally
<1>12. ASSUME NEW e \in BagToSet(events), Listen(e) PROVE TallyInv'
  BY <1>1, <1>12, ListenTally
<1>13. ASSUME NEW j \in BagToSet(jobs), Send(j) \/ SendFails(j) PROVE TallyInv'
  BY <1>1, <1>13, SendTally
<1>14. CASE CrashListening
  BY <1>1, <1>14, CrashTally
<1>15. CASE AlertNext
  BY <1>5, <1>6, <1>7, <1>8, <1>9, <1>10, <1>11, <1>12, <1>13, <1>14, <1>15, Zenon DEF AlertNext
<1>16. QED
  BY <1>3, <1>15, StepKinds

\* No news of a recovery but of an incident that is resolved: a step that
\* writes no incident and raises no event keeps that.
LEMMA StandingUntouched ==
  ASSUME WindowInv, AlertInv, StandingInv, BoundsStep, [Next]_vars,
         UNCHANGED incidents, DOMAIN events' \subseteq DOMAIN events
  PROVE  StandingInv'
<1> SUFFICES ASSUME NEW i \in 1..Len(incidents), spent'["patch"] = 0,
                    incidents[i].status # "resolved"
             PROVE  /\ \A c \in Channels : heard'[c]["resolved"][i] = 0
                    /\ \A j \in DOMAIN jobs' : ~(j.notice = "resolved" /\ j.id = i)
                    /\ \A e \in DOMAIN events' :
                         ~(e.kind = "updated" /\ e.status = "resolved" /\ e.id = i)
  BY DEF StandingInv
<1>1. spent["patch"] = 0
  BY SpentRises
<1>2. /\ \A c \in Channels : heard[c]["resolved"][i] = 0
      /\ \A j \in DOMAIN jobs : ~(j.notice = "resolved" /\ j.id = i)
      /\ \A e \in DOMAIN events :
           ~(e.kind = "updated" /\ e.status = "resolved" /\ e.id = i)
  BY <1>1 DEF StandingInv
<1>3. i \in Ids /\ "resolved" \in Notices
  BY IncidentFields DEF AlertInv, Notices
<1>4. ASSUME NEW c \in Channels
      PROVE  \/ heard'[c]["resolved"][i] = heard[c]["resolved"][i]
             \/ \E k \in DOMAIN jobs : k.notice = "resolved" /\ k.id = i
  BY <1>3, Deliveries
<1>5. ASSUME NEW j \in DOMAIN jobs'
      PROVE  \/ \E k \in DOMAIN jobs : k.notice = j.notice /\ k.id = j.id
             \/ \E e \in DOMAIN events : \E part \in SUBSET Told(e) : j \in NewJobs(e, part)
  BY Deliveries
<1>6. ASSUME NEW e \in DOMAIN events, NEW part \in SUBSET Told(e), NEW j \in NewJobs(e, part),
             j.notice = "resolved", j.id = i
      PROVE  FALSE
  <2>1. e.id = i /\ part # {} /\ e.kind # "created"
    BY <1>6, NewJobsAre
  <2>2. e.kind = "updated" /\ e.status = "resolved"
    BY <2>1, ToldIsNews DEF AlertInv
  <2>3. QED
    BY <1>2, <2>1, <2>2
<1>7. \A j \in DOMAIN jobs' : ~(j.notice = "resolved" /\ j.id = i)
  BY <1>2, <1>5, <1>6
<1>8. QED
  BY <1>2, <1>4, <1>7

\* A new incident has no recovery to be told.
LEMMA StandingAdded ==
  ASSUME WindowInv, AlertInv, StandingInv, BoundsStep, NEW sev \in Severities,
         NEW t \in Instants, t <= now, now' = now, Add(sev, t), UNCHANGED <<jobs, heard>>
  PROVE  StandingInv'
<1> DEFINE m == Len(incidents) + 1
           ev == EventOf("created", m, Row("investigating", sev, t))
<1>1. /\ Len(incidents') = m
      /\ \A i \in 1..Len(incidents) : incidents'[i] = incidents[i]
      /\ DOMAIN events' = DOMAIN events \cup {ev}
  BY AddIs DEF OneMore
<1>2. ev.kind = "created"
  BY DEF EventOf
<1>3. Len(incidents) \in Nat /\ Len(incidents) < MaxIncidents
  BY DEF AlertInv, IncidentsOK, Add
<1> HIDE DEF ev
<1> SUFFICES ASSUME NEW i \in 1..m, spent'["patch"] = 0, incidents'[i].status # "resolved"
             PROVE  /\ \A c \in Channels : heard[c]["resolved"][i] = 0
                    /\ \A j \in DOMAIN jobs : ~(j.notice = "resolved" /\ j.id = i)
                    /\ \A e \in DOMAIN events :
                         ~(e.kind = "updated" /\ e.status = "resolved" /\ e.id = i)
  BY <1>1, <1>2 DEF StandingInv
<1>4. CASE i \in 1..Len(incidents)
  <2>1. spent["patch"] = 0 /\ incidents[i].status # "resolved"
    BY <1>1, <1>4, SpentRises
  <2>2. QED
    BY <1>4, <2>1 DEF StandingInv
<1>5. CASE i = m
  <2>1. i \notin 1..Len(incidents) /\ i \in Ids
    BY <1>3, <1>5, AlertingAssumption DEF Ids
  <2>2. ASSUME NEW c \in Channels PROVE heard[c]["resolved"][i] = 0
    <3>1. "resolved" \in Notices
      BY DEF Notices
    <3>2. heard[c]["resolved"][i] \in Nat
          /\ (heard[c]["resolved"][i] > 0 => i \in 1..Len(incidents))
      BY <2>1, <3>1 DEF AlertInv, HeardOK
    <3>3. QED
      BY <2>1, <3>2
  <2>3. QED
    BY <2>1, <2>2 DEF AlertInv, JobsOK, EventsOK
<1>6. QED
  BY <1>3, <1>4, <1>5

\* Nor does a write of a row that was not resolved raise one that it does
\* not become; a patch is counted.
LEMMA StandingPut ==
  ASSUME WindowInv, AlertInv, StandingInv, BoundsStep, NEW k \in 1..Len(incidents),
         NEW st \in {"investigating", "identified", "resolved"}, NEW sev \in Severities,
         now' = now, Put(k, st, sev), UNCHANGED <<jobs, heard>>,
         incidents[k].status # "resolved" \/ spent'["patch"] = spent["patch"] + 1
  PROVE  StandingInv'
<1> DEFINE ev == EventOf("updated", k, Row(st, sev, incidents[k].started))
<1>1. /\ Len(incidents') = Len(incidents)
      /\ \A i \in 1..Len(incidents) : i # k => incidents'[i] = incidents[i]
      /\ incidents'[k] = Row(st, sev, incidents[k].started)
      /\ DOMAIN events' = DOMAIN events \cup {ev}
  <2>1. OneMore(events, events', EventOf("updated", k, Row(st, sev, incidents[k].started)))
    BY PutIs
  <2>2. DOMAIN events' = DOMAIN events \cup {ev}
    BY <2>1 DEF OneMore
  <2>3. QED
    BY <2>2, PutIs
<1>2. ev.id = k /\ ev.status = st /\ Row(st, sev, incidents[k].started).status = st
  BY DEF EventOf, Row
<1> HIDE DEF ev
<1> SUFFICES ASSUME NEW i \in 1..Len(incidents), spent'["patch"] = 0,
                    incidents'[i].status # "resolved"
             PROVE  /\ \A c \in Channels : heard[c]["resolved"][i] = 0
                    /\ \A j \in DOMAIN jobs : ~(j.notice = "resolved" /\ j.id = i)
                    /\ \A e \in DOMAIN events' :
                         ~(e.kind = "updated" /\ e.status = "resolved" /\ e.id = i)
  BY <1>1 DEF StandingInv
<1>3. spent["patch"] = 0 /\ incidents[k].status # "resolved"
  BY SpentRises
<1>4. incidents[i].status # "resolved"
  BY <1>1, <1>3
<1>5. /\ \A c \in Channels : heard[c]["resolved"][i] = 0
      /\ \A j \in DOMAIN jobs : ~(j.notice = "resolved" /\ j.id = i)
      /\ \A e \in DOMAIN events :
           ~(e.kind = "updated" /\ e.status = "resolved" /\ e.id = i)
  BY <1>3, <1>4 DEF StandingInv
<1>6. ~(ev.status = "resolved" /\ ev.id = i)
  BY <1>1, <1>2
<1>7. QED
  BY <1>1, <1>5, <1>6

\* Every step keeps it.
LEMMA StandingKept ==
  WindowInv /\ ForceInv /\ AlertInv /\ StandingInv /\ [Next]_vars => StandingInv'
<1> SUFFICES ASSUME WindowInv, ForceInv, AlertInv, StandingInv, [Next]_vars PROVE StandingInv'
  OBVIOUS
<1>1. BoundsStep
  BY WindowKept
<1>2. CASE UNCHANGED incidents /\ DOMAIN events' \subseteq DOMAIN events
  BY <1>1, <1>2, StandingUntouched
<1>3. CASE UNCHANGED vars \/ UNCHANGED alerting
  BY <1>2, <1>3 DEF vars, alerting
<1>4. ASSUME AlertNext PROVE now' = now
  BY <1>4, AsideOfTheWindow DEF maintenance, WindowInv
<1>5. CASE Change \/ CheckLook
  BY <1>2, <1>5 DEF Change, CheckLook
<1>6. ASSUME NEW r, SaveRouting(r) \/ Enable(r) PROVE StandingInv'
  BY <1>2, <1>6 DEF SaveRouting, Enable
<1>7. CASE CheckOpen
  <2>1. CASE UNCHANGED <<incidents, events>>
    BY <1>2, <1>7, <2>1 DEF CheckOpen
  <2>2. CASE Add(Kind, look)
    <3>1. look \in Instants /\ look <= now /\ now' = now /\ UNCHANGED <<jobs, heard>>
      BY <1>4, <1>7 DEF CheckOpen, AlertInv, Never, Instants, AlertNext
    <3>2. QED
      BY <1>1, <2>2, <3>1, StandingAdded, AlertingAssumption
  <2>3. QED
    BY <1>7, <2>1, <2>2 DEF CheckOpen
<1>8. CASE CheckPass
  <2>1. PICK i \in Ids : Open(i) /\ Put(i, "resolved", incidents[i].severity)
    BY <1>8 DEF CheckPass
  <2>2. i \in 1..Len(incidents) /\ incidents[i].severity \in Severities
        /\ incidents[i].status # "resolved"
    BY <2>1, IncidentFields DEF Open, AlertInv, IncidentsOK
  <2>3. now' = now /\ UNCHANGED <<jobs, heard>>
    BY <1>4, <1>8 DEF CheckPass, AlertNext
  <2>4. QED
    BY <1>1, <2>1, <2>2, <2>3, StandingPut
<1>9. ASSUME NEW s \in Severities, CreateIncident(s) PROVE StandingInv'
  <2>1. now' = now /\ UNCHANGED <<jobs, heard>> /\ Add(s, now)
    BY <1>4, <1>9 DEF CreateIncident, AlertNext
  <2>2. now \in Instants /\ now <= now
    BY NowIsAnInstant DEF Instants
  <2>3. QED
    BY <1>1, <2>1, <2>2, StandingAdded
<1>10. ASSUME NEW i \in Ids, Acknowledge(i) PROVE StandingInv'
  <2>1. now' = now /\ UNCHANGED <<jobs, heard>> /\ Put(i, "identified", incidents[i].severity)
    BY <1>4, <1>10 DEF Acknowledge, AlertNext
  <2>2. i \in 1..Len(incidents) /\ incidents[i].severity \in Severities
        /\ incidents[i].status # "resolved"
    BY <1>10, IncidentFields DEF Acknowledge, AlertInv, IncidentsOK
  <2>3. QED
    BY <1>1, <2>1, <2>2, StandingPut
<1>11. ASSUME NEW i \in Ids, NEW st \in {"investigating", "identified", "resolved"},
              NEW s \in Severities, UpdateIncident(i, st, s)
       PROVE  StandingInv'
  <2>1. now' = now /\ UNCHANGED <<jobs, heard>> /\ Put(i, st, s) /\ Spend("patch")
    BY <1>4, <1>11 DEF UpdateIncident, AlertNext
  <2>2. i \in 1..Len(incidents)
    BY <1>11 DEF UpdateIncident, AlertInv, IncidentsOK
  <2>3. spent'["patch"] = spent["patch"] + 1
    <3>1. "patch" \in Events
      BY DEF Events
    <3>2. QED
      BY <2>1, <3>1, Charged DEF WindowInv
  <2>4. QED
    BY <1>1, <2>1, <2>2, <2>3, StandingPut
<1>12. ASSUME NEW e \in BagToSet(events), Listen(e) PROVE StandingInv'
  BY <1>2, <1>12, ListenIs DEF AlertInv
<1>13. ASSUME NEW j \in BagToSet(jobs), Send(j) \/ SendFails(j) PROVE StandingInv'
  BY <1>2, <1>13 DEF Send, SendFails
<1>14. CASE CrashListening
  <2>1. UNCHANGED incidents /\ DOMAIN events' = {}
    BY <1>14, CrashIs DEF AlertInv
  <2>2. QED
    BY <1>2, <2>1
<1>15. CASE AlertNext
  BY <1>5, <1>6, <1>7, <1>8, <1>9, <1>10, <1>11, <1>12, <1>13, <1>14, <1>15, Zenon DEF AlertNext
<1>16. QED
  BY <1>3, <1>15, StepKinds

(***************************************************************************)
(* An incident is told of once when it opens and once when it recovers:    *)
(* every notice beyond that is charged to a failed attempt or to a patch,  *)
(* and no recovery is told of what is not resolved.                        *)
(***************************************************************************)
THEOREM OneNoticePerTurn == Spec => []OncePerTurn
<1>1. Init => TallyInv /\ StandingInv
  BY DEF Init, TallyInv, StandingInv
<1>2. WindowInv /\ AlertInv /\ TallyInv /\ StandingInv => OncePerTurn
  <2> SUFFICES ASSUME WindowInv, AlertInv, TallyInv, StandingInv,
                      NEW i \in 1..Len(incidents), NEW c \in Channels
               PROVE  /\ heard[c]["opened"][i] <= 1 + spent["fail"]
                      /\ heard[c]["resolved"][i] <= 1 + spent["fail"] + spent["patch"]
                      /\ heard[c]["resolved"][i] > 0 /\ spent["patch"] = 0
                           => incidents[i].status = "resolved"
    BY DEF OncePerTurn, AlertInv, IncidentsOK
  <2>1. ASSUME NEW n \in Notices PROVE heard[c][n][i] <= Allowed(n, i)
    <3>1. Unread(n, i) \in Nat /\ Queued(c, n, i) \in Nat /\ heard[c][n][i] \in Nat
      BY TallyCounts
    <3>2. Tally(c, n, i) = Unread(n, i) + Queued(c, n, i) + heard[c][n][i]
      BY DEF Tally
    <3>3. Tally(c, n, i) <= Allowed(n, i)
      BY DEF TallyInv
    <3>4. Allowed(n, i) \in Nat
      <4>1. spent["fail"] \in Nat /\ spent["patch"] \in Nat
        BY TallyCounts
      <4>2. QED
        BY SMTT(30), <4>1 DEF Allowed
    <3>5. QED
      BY <3>1, <3>2, <3>3, <3>4
  <2>2. "opened" \in Notices /\ "resolved" \in Notices
    BY DEF Notices
  <2>3. spent["fail"] \in Nat /\ spent["patch"] \in Nat /\ heard[c]["resolved"][i] \in Nat
    BY <2>2, TallyCounts
  <2>4. heard[c]["opened"][i] <= 1 + spent["fail"]
    BY <2>1, <2>2 DEF Allowed
  <2>5. heard[c]["resolved"][i] <= 1 + spent["fail"] + spent["patch"]
    <3>1. Allowed("resolved", i) \in {spent["fail"] + spent["patch"] + 0,
                                      spent["fail"] + spent["patch"] + 1}
      BY DEF Allowed
    <3>2. heard[c]["resolved"][i] <= Allowed("resolved", i)
      BY <2>1, <2>2
    <3>3. QED
      BY <2>3, <3>1, <3>2
  <2>6. heard[c]["resolved"][i] > 0 /\ spent["patch"] = 0 => incidents[i].status = "resolved"
    BY DEF StandingInv
  <2>7. QED
    BY <2>4, <2>5, <2>6
<1>3. QED
  BY <1>1, <1>2, TallyKept, StandingKept, WindowThroughout, AlertThroughout, PTL DEF Spec
=============================================================================
