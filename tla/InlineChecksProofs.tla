--------------------------- MODULE InlineChecksProofs ---------------------------
(***************************************************************************)
(* Proofs about InlineChecks for every kind of check, any number of        *)
(* workers, any ladder of thresholds and any budget.                       *)
(***************************************************************************)
EXTENDS InlineChecks, FiniteSetTheorems, SequenceTheorems, WellFoundedInduction, TLAPS

(***************************************************************************)
(* The plans a handler can hold, by the statement it runs next.            *)
(***************************************************************************)
Beginning == {<<"observe">>, <<"touch">>, <<"read", "observe">>}
ToRead == {<<"read", "record", "look", "row">>,
           <<"read", "record", "warn", "find", "row">>,
           <<"read", "record", "warn", "row">>}
ToRecord == {<<"record", "look", "row">>, <<"record", "row">>, <<"record", "find", "row">>,
             <<"record", "warn", "find", "row">>, <<"record", "warn", "row">>}
ToWarn == {<<"warn", "find", "row">>, <<"warn", "row">>}
ToLook == {<<"look", "row">>, <<"look">>}
ToOpen == {<<"open", "row">>, <<"open">>}
ToFind == {<<"find", "row">>, <<"find">>}
ToResolve == {<<"resolve", "row">>, <<"resolve">>}
ToRow == {<<"row", "look">>, <<"row">>}
Plans == {<<>>} \cup Beginning \cup ToRead \cup ToRecord \cup ToWarn \cup ToLook
         \cup ToOpen \cup ToFind \cup ToResolve \cup ToRow

\* What a statement leaves of each plan that begins with it.
LEMMA Tails ==
  /\ Tail(<<"observe">>) = <<>> /\ Tail(<<"touch">>) = <<>>
  /\ Tail(<<"read", "observe">>) = <<"observe">>
  /\ Tail(<<"read", "record", "look", "row">>) = <<"record", "look", "row">>
  /\ Tail(<<"read", "record", "warn", "find", "row">>) = <<"record", "warn", "find", "row">>
  /\ Tail(<<"read", "record", "warn", "row">>) = <<"record", "warn", "row">>
  /\ Tail(<<"record", "look", "row">>) = <<"look", "row">>
  /\ Tail(<<"record", "row">>) = <<"row">>
  /\ Tail(<<"record", "find", "row">>) = <<"find", "row">>
  /\ Tail(<<"record", "warn", "find", "row">>) = <<"warn", "find", "row">>
  /\ Tail(<<"record", "warn", "row">>) = <<"warn", "row">>
  /\ Tail(<<"warn", "find", "row">>) = <<"find", "row">> /\ Tail(<<"warn", "row">>) = <<"row">>
  /\ Tail(<<"look", "row">>) = <<"row">> /\ Tail(<<"look">>) = <<>>
  /\ Tail(<<"open", "row">>) = <<"row">> /\ Tail(<<"open">>) = <<>>
  /\ Tail(<<"find", "row">>) = <<"row">> /\ Tail(<<"find">>) = <<>>
  /\ Tail(<<"resolve", "row">>) = <<"row">> /\ Tail(<<"resolve">>) = <<>>
  /\ Tail(<<"row", "look">>) = <<"look">> /\ Tail(<<"row">>) = <<>>
OBVIOUS

\* The next statement tells which plans are possible.
LEMMA ByStep ==
  ASSUME NEW p \in Plans, p # <<>>
  PROVE  /\ Head(p) = "observe" => p = <<"observe">>
         /\ Head(p) = "touch" => p = <<"touch">>
         /\ Head(p) = "read" => p \in ToRead \cup {<<"read", "observe">>}
         /\ Head(p) = "record" => p \in ToRecord
         /\ Head(p) = "warn" => p \in ToWarn
         /\ Head(p) = "look" => p \in ToLook
         /\ Head(p) = "open" => p \in ToOpen
         /\ Head(p) = "find" => p \in ToFind
         /\ Head(p) = "resolve" => p \in ToResolve
         /\ Head(p) = "row" => p \in ToRow
<1>1. \A q \in Beginning : Head(q) \in {"observe", "touch", "read"}
                           /\ (Head(q) = "observe" => q = <<"observe">>)
                           /\ (Head(q) = "touch" => q = <<"touch">>)
                           /\ (Head(q) = "read" => q = <<"read", "observe">>)
  BY DEF Beginning
<1>2. \A q \in ToRead : Head(q) = "read"
  BY DEF ToRead
<1>3. \A q \in ToRecord : Head(q) = "record"
  BY DEF ToRecord
<1>4. (\A q \in ToWarn : Head(q) = "warn") /\ (\A q \in ToLook : Head(q) = "look")
  BY DEF ToWarn, ToLook
<1>5. (\A q \in ToOpen : Head(q) = "open") /\ (\A q \in ToFind : Head(q) = "find")
  BY DEF ToOpen, ToFind
<1>6. (\A q \in ToResolve : Head(q) = "resolve") /\ (\A q \in ToRow : Head(q) = "row")
  BY DEF ToResolve, ToRow
<1>7. QED
  BY <1>1, <1>2, <1>3, <1>4, <1>5, <1>6 DEF Plans

\* Two sequences put together are the one that reads like them.
LEMMA Joined ==
  ASSUME NEW S, NEW s \in Seq(S), NEW t \in Seq(S), NEW u \in Seq(S),
         Len(u) = Len(s) + Len(t),
         \A i \in 1 .. Len(s) : u[i] = s[i],
         \A i \in 1 .. Len(t) : u[Len(s) + i] = t[i]
  PROVE  s \o t = u
<1>1. /\ s \o t \in Seq(S) /\ Len(s \o t) = Len(s) + Len(t)
      /\ \A i \in 1 .. Len(s) + Len(t) :
           (s \o t)[i] = IF i <= Len(s) THEN s[i] ELSE t[i - Len(s)]
  BY ConcatProperties
<1>2. Len(s) \in Nat /\ Len(t) \in Nat
  BY LenProperties
<1>3. ASSUME NEW i \in 1 .. Len(u) PROVE (s \o t)[i] = u[i]
  <2>1. CASE i <= Len(s)
    BY <1>1, <1>2, <2>1
  <2>2. CASE ~(i <= Len(s))
    <3>1. i - Len(s) \in 1 .. Len(t) /\ i = Len(s) + (i - Len(s))
      BY <1>2, <2>2
    <3>2. u[Len(s) + (i - Len(s))] = t[i - Len(s)]
      BY <3>1
    <3>3. QED
      BY <1>1, <1>2, <2>2, <3>1, <3>2
  <2>3. QED
    BY <2>1, <2>2
<1>4. QED
  BY <1>1, <1>3, SeqEqual

\* The joins the handlers are built from.
LEMMA Joins ==
  /\ <<>> \o <<>> = <<>>
  /\ \A a : <<a>> \o <<>> = <<a>> /\ <<>> \o <<a>> = <<a>>
  /\ \A a, b : <<a>> \o <<b>> = <<a, b>>
  /\ \A a, b, c : <<a>> \o <<b, c>> = <<a, b, c>>
  /\ \A a, b, c, d : <<a, b>> \o <<c, d>> = <<a, b, c, d>>
  /\ \A a, b, c, d, e : <<a, b>> \o <<c, d, e>> = <<a, b, c, d, e>>
<1>1. <<>> \o <<>> = <<>>
  <2>1. <<>> \in Seq({})
    OBVIOUS
  <2>2. QED
    BY <2>1, ConcatEmptySeq
<1>2. ASSUME NEW a PROVE <<a>> \o <<>> = <<a>> /\ <<>> \o <<a>> = <<a>>
  <2>1. <<a>> \in Seq({a})
    OBVIOUS
  <2>2. QED
    BY <2>1, ConcatEmptySeq
<1>3. ASSUME NEW a, NEW b PROVE <<a>> \o <<b>> = <<a, b>>
  <2> DEFINE S == {a, b}
             s == <<a>>
             t == <<b>>
             u == <<a, b>>
  <2>1. /\ s \in Seq(S) /\ t \in Seq(S) /\ u \in Seq(S)
        /\ Len(s) = 1 /\ Len(t) = 1 /\ Len(u) = 2
    OBVIOUS
  <2>2. u[1] = s[1] /\ u[2] = t[1]
    OBVIOUS
  <2> HIDE DEF S, s, t, u
  <2>3. /\ Len(u) = Len(s) + Len(t)
        /\ \A i \in 1 .. Len(s) : u[i] = s[i]
        /\ \A i \in 1 .. Len(t) : u[Len(s) + i] = t[i]
    BY <2>1, <2>2
  <2>4. s \o t = u
    BY <2>1, <2>3, Joined
  <2>5. QED
    BY <2>4 DEF s, t, u
<1>4. ASSUME NEW a, NEW b, NEW c PROVE <<a>> \o <<b, c>> = <<a, b, c>>
  <2> DEFINE S == {a, b, c}
             s == <<a>>
             t == <<b, c>>
             u == <<a, b, c>>
  <2>1. /\ s \in Seq(S) /\ t \in Seq(S) /\ u \in Seq(S)
        /\ Len(s) = 1 /\ Len(t) = 2 /\ Len(u) = 3
    OBVIOUS
  <2>2. u[1] = s[1] /\ u[2] = t[1] /\ u[3] = t[2]
    OBVIOUS
  <2> HIDE DEF S, s, t, u
  <2>3. /\ Len(u) = Len(s) + Len(t)
        /\ \A i \in 1 .. Len(s) : u[i] = s[i]
        /\ \A i \in 1 .. Len(t) : u[Len(s) + i] = t[i]
    BY <2>1, <2>2
  <2>4. s \o t = u
    BY <2>1, <2>3, Joined
  <2>5. QED
    BY <2>4 DEF s, t, u
<1>5. ASSUME NEW a, NEW b, NEW c, NEW d PROVE <<a, b>> \o <<c, d>> = <<a, b, c, d>>
  <2> DEFINE S == {a, b, c, d}
             s == <<a, b>>
             t == <<c, d>>
             u == <<a, b, c, d>>
  <2>1. /\ s \in Seq(S) /\ t \in Seq(S) /\ u \in Seq(S)
        /\ Len(s) = 2 /\ Len(t) = 2 /\ Len(u) = 4
    OBVIOUS
  <2>2. u[1] = s[1] /\ u[2] = s[2] /\ u[3] = t[1] /\ u[4] = t[2]
    OBVIOUS
  <2> HIDE DEF S, s, t, u
  <2>3. /\ Len(u) = Len(s) + Len(t)
        /\ \A i \in 1 .. Len(s) : u[i] = s[i]
        /\ \A i \in 1 .. Len(t) : u[Len(s) + i] = t[i]
    BY <2>1, <2>2
  <2>4. s \o t = u
    BY <2>1, <2>3, Joined
  <2>5. QED
    BY <2>4 DEF s, t, u
<1>6. ASSUME NEW a, NEW b, NEW c, NEW d, NEW e PROVE <<a, b>> \o <<c, d, e>> = <<a, b, c, d, e>>
  <2> DEFINE S == {a, b, c, d, e}
             s == <<a, b>>
             t == <<c, d, e>>
             u == <<a, b, c, d, e>>
  <2>1. /\ s \in Seq(S) /\ t \in Seq(S) /\ u \in Seq(S)
        /\ Len(s) = 2 /\ Len(t) = 3 /\ Len(u) = 5
    OBVIOUS
  <2>2. u[1] = s[1] /\ u[2] = s[2] /\ u[3] = t[1] /\ u[4] = t[2] /\ u[5] = t[3]
    OBVIOUS
  <2> HIDE DEF S, s, t, u
  <2>3. /\ Len(u) = Len(s) + Len(t)
        /\ \A i \in 1 .. Len(s) : u[i] = s[i]
        /\ \A i \in 1 .. Len(t) : u[Len(s) + i] = t[i]
    BY <2>1, <2>2
  <2>4. s \o t = u
    BY <2>1, <2>3, Joined
  <2>5. QED
    BY <2>4 DEF s, t, u
<1>7. QED
  BY <1>1, <1>2, <1>3, <1>4, <1>5, <1>6

\* What a handler skips the third statement to.
LEMMA Skips ==
  /\ <<"record">> \o SubSeq(<<"read", "record", "look", "row">>, 4,
                            Len(<<"read", "record", "look", "row">>)) = <<"record", "row">>
  /\ <<"record">> \o SubSeq(<<"read", "record", "warn", "row">>, 4,
                            Len(<<"read", "record", "warn", "row">>)) = <<"record", "row">>
  /\ <<"record">> \o SubSeq(<<"read", "record", "warn", "find", "row">>, 4,
                            Len(<<"read", "record", "warn", "find", "row">>))
       = <<"record", "find", "row">>
<1>1. ASSUME NEW a, NEW b, NEW c, NEW d
      PROVE  SubSeq(<<a, b, c, d>>, 4, 4) = <<d>>
  <2> DEFINE S == {a, b, c, d}
             u == <<a, b, c, d>>
             s == SubSeq(u, 4, 4)
             t == <<d>>
  <2>1. t \in Seq(S) /\ Len(t) = 1 /\ t[1] = d
    OBVIOUS
  <2>2. u[4] = d /\ \A i \in 4 .. 4 : u[i] \in S
    OBVIOUS
  <2> HIDE DEF S, u, t
  <2>3. s \in Seq(S) /\ Len(s) = 1 /\ \A i \in 1 .. 1 : s[i] = u[4 + i - 1]
    BY <2>2, SubSeqProperties
  <2>4. s = t
    BY <2>1, <2>2, <2>3, SeqEqual
  <2>5. QED
    BY <2>4 DEF u, t
<1>2. ASSUME NEW a, NEW b, NEW c, NEW d, NEW e
      PROVE  SubSeq(<<a, b, c, d, e>>, 4, 5) = <<d, e>>
  <2> DEFINE S == {a, b, c, d, e}
             u == <<a, b, c, d, e>>
             s == SubSeq(u, 4, 5)
             t == <<d, e>>
  <2>1. t \in Seq(S) /\ Len(t) = 2 /\ t[1] = d /\ t[2] = e
    OBVIOUS
  <2>2. u[4] = d /\ u[5] = e /\ \A i \in 4 .. 5 : u[i] \in S
    OBVIOUS
  <2> HIDE DEF S, u, t
  <2>3. s \in Seq(S) /\ Len(s) = 2 /\ \A i \in 1 .. 2 : s[i] = u[4 + i - 1]
    BY <2>2, SubSeqProperties
  <2>4. s = t
    BY <2>1, <2>2, <2>3, SeqEqual
  <2>5. QED
    BY <2>4 DEF u, t
<1>3. Len(<<"read", "record", "look", "row">>) = 4
      /\ Len(<<"read", "record", "warn", "row">>) = 4
      /\ Len(<<"read", "record", "warn", "find", "row">>) = 5
  OBVIOUS
<1>4. /\ SubSeq(<<"read", "record", "look", "row">>, 4, 4) = <<"row">>
      /\ SubSeq(<<"read", "record", "warn", "row">>, 4, 4) = <<"row">>
      /\ SubSeq(<<"read", "record", "warn", "find", "row">>, 4, 5) = <<"find", "row">>
  BY <1>1, <1>2
<1>5. /\ <<"record">> \o <<"row">> = <<"record", "row">>
      /\ <<"record">> \o <<"find", "row">> = <<"record", "find", "row">>
  BY Joins
<1>6. QED
  BY <1>3, <1>4, <1>5

(***************************************************************************)
(* Type correctness of what the proofs read.                               *)
(***************************************************************************)
Job == [plan : Plans, job : {1, 2}, attempt : Nat, inWindow : BOOLEAN, elapsed : Nat,
        seen : Seen, stamp : Int, rung : Int, todo : SUBSET (Nat \ {0})]
JobsInv ==
  /\ kind \in Kinds
  /\ target \in Seen /\ target.serial # 0 /\ target.verdict \in VerdictsOf(kind)
  /\ window \in BOOLEAN
  /\ worker \in [Workers -> Job]
  /\ \A w \in Workers : IsFiniteSet(worker[w].todo)
  /\ \A w \in Workers : worker[w].plan = <<"read", "observe">> => kind = "broken_links"
  /\ history \in [days: Int, serial: Nat, before: Int]
  /\ IsFiniteSet(incidents) /\ \A i \in incidents : i.id \in Nat \ {0}

\* A nonempty set of naturals has a least member.
LEMMA LeastExists ==
  ASSUME NEW S \in SUBSET Nat, S # {}
  PROVE  Min(S) \in S /\ \A y \in S : Min(S) <= y
<1> DEFINE less == {ss \in Nat \X Nat : ss[1] < ss[2]}
<1>1. IsWellFoundedOn(less, Nat)
  BY NatLessThanWellFounded DEF OpToRel
<1>2. PICK x \in S : \A y \in S : ~ (<<y, x>> \in less)
  <2> HIDE DEF less
  <2>1. QED
    BY <1>1, WFMin
<1>3. \A y \in S : x <= y
  <2>1. SUFFICES ASSUME NEW y \in S PROVE x <= y
    OBVIOUS
  <2>2. x \in Nat /\ y \in Nat
    OBVIOUS
  <2>3. ~ (<<y, x>> \in less)
    BY <1>2
  <2>4. QED
    BY <2>2, <2>3
<1>4. QED
  BY <1>3 DEF Min

\* The rung is the lowest threshold that is not passed yet, None above all.
LEMMA RungIs ==
  ASSUME NEW d \in Int
  PROVE  \/ /\ CrossedThreshold(d) = None
            /\ \A t \in Thresholds : ~(d <= t)
         \/ /\ CrossedThreshold(d) \in Thresholds /\ CrossedThreshold(d) \in Nat
            /\ CrossedThreshold(d) # None
            /\ d <= CrossedThreshold(d)
            /\ \A t \in Thresholds : d <= t => CrossedThreshold(d) <= t
<1> DEFINE crossed == {t \in Thresholds : d <= t}
<1>1. crossed \in SUBSET Nat
  BY ChecksAssumption DEF ChecksAssumption
<1>2. CASE crossed = {}
  BY <1>2 DEF CrossedThreshold
<1>3. CASE crossed # {}
  <2>1. Min(crossed) \in crossed /\ \A y \in crossed : Min(crossed) <= y
    BY <1>1, <1>3, LeastExists
  <2>2. CrossedThreshold(d) = Min(crossed)
    BY <1>3 DEF CrossedThreshold
  <2>3. QED
    BY <1>1, <2>1, <2>2 DEF None
<1>4. QED
  BY <1>2, <1>3

\* The statements a handler goes on with, by kind and by what it saw.
LEMMA PlanIs ==
  ASSUME kind \in AllKinds, NEW seen, NEW job
  PROVE
    LET none == seen.verdict = "none"
        failing == Failing(seen, job)
        plan == Plan(seen, job)
    IN  /\ kind = "ssl" =>
             /\ none => plan = <<"row", "look">>
             /\ ~none /\ failing => plan = <<"read", "record", "look", "row">>
             /\ ~none /\ ~failing => plan = <<"read", "record", "warn", "find", "row">>
        /\ kind = "domain" =>
             /\ none => plan = <<"touch">>
             /\ ~none /\ failing => plan = <<"read", "record", "look", "row">>
             /\ ~none /\ ~failing => plan = <<"read", "record", "warn", "row">>
        /\ kind = "broken_links" => plan = <<"record", "look", "row">>
        /\ kind = "lighthouse" =>
             plan = (IF none THEN <<"touch">> ELSE <<"read", "record", "look", "row">>)
        /\ kind = "dns_blocklist" =>
             /\ none => plan = <<"touch">>
             /\ ~none /\ failing => plan = <<"look", "row">>
             /\ ~none /\ ~failing => plan = <<"find", "row">>
        /\ kind \in {"ai_check", "performance"} =>
             /\ failing => plan = <<"look">>
             /\ ~failing => plan \in {<<"find">>, <<>>}
<1>1. /\ <<"read", "record">> \o <<"look", "row">> = <<"read", "record", "look", "row">>
      /\ <<"read", "record">> \o <<"warn", "find", "row">>
           = <<"read", "record", "warn", "find", "row">>
  BY Joins
<1>2. CASE kind = "ssl"
  BY <1>1, <1>2 DEF Plan
<1>3. CASE kind = "domain"
  BY <1>3 DEF Plan
<1>4. CASE kind \in {"broken_links", "lighthouse"}
  BY <1>4 DEF Plan
<1>5. CASE kind = "dns_blocklist"
  BY <1>5 DEF Plan
<1>6. CASE kind \in {"ai_check", "performance"}
  BY <1>6 DEF Plan
<1>7. QED
  BY <1>2, <1>3, <1>4, <1>5, <1>6 DEF AllKinds

\* Whatever it saw, the plan is one of those listed.
LEMMA PlanType ==
  ASSUME kind \in AllKinds, NEW seen, NEW job
  PROVE  Plan(seen, job) \in Plans /\ Plan(seen, job) # <<"read", "observe">>
<1>1. /\ {<<>>, <<"touch">>, <<"row", "look">>, <<"look">>, <<"find">>, <<"row">>} \subseteq Plans
      /\ {<<"look", "row">>, <<"find", "row">>, <<"record", "look", "row">>} \subseteq Plans
      /\ ToRead \subseteq Plans
  BY DEF Plans, Beginning, ToRow, ToLook, ToFind, ToRecord
<1>2. {<<"read", "record", "look", "row">>, <<"read", "record", "warn", "find", "row">>,
        <<"read", "record", "warn", "row">>} \subseteq Plans
  BY <1>1 DEF ToRead
<1> DEFINE plan == Plan(seen, job)
<1>3. plan \in {<<>>, <<"touch">>, <<"row", "look">>, <<"look">>, <<"find">>, <<"row">>,
        <<"look", "row">>, <<"find", "row">>, <<"record", "look", "row">>,
        <<"read", "record", "look", "row">>, <<"read", "record", "warn", "find", "row">>,
        <<"read", "record", "warn", "row">>}
  BY PlanIs DEF AllKinds
<1>4. QED
  BY <1>1, <1>2, <1>3

\* At rest a worker is well typed.
LEMMA IdleJob == Idle \in Job /\ Idle.plan = <<>> /\ IsFiniteSet(Idle.todo)
<1>1. Nothing \in Seen
  BY DEF Nothing, Seen, Verdicts
<1>2. IsFiniteSet({})
  BY FS_EmptySet
<1>3. QED
  BY <1>1, <1>2 DEF Idle, Job, Plans, None

\* What is left of a plan is a plan.
LEMMA TailPlan ==
  ASSUME NEW p \in Plans, p # <<>>
  PROVE  Tail(p) \in Plans /\ Tail(p) # <<"read", "observe">>
<1>1. {<<"observe">>, <<"row">>, <<"look">>, <<"record", "look", "row">>, <<>>,
        <<"record", "warn", "find", "row">>, <<"record", "warn", "row">>,
        <<"warn", "find", "row">>, <<"warn", "row">>, <<"look", "row">>,
        <<"find", "row">>} \subseteq Plans \ {<<"read", "observe">>}
  BY DEF Plans, Beginning, ToRow, ToLook, ToFind, ToRecord, ToWarn
<1>2. ASSUME p \in Beginning PROVE Tail(p) \in Plans \ {<<"read", "observe">>}
  BY <1>1, <1>2, Tails DEF Beginning
<1>3. ASSUME p \in ToRead PROVE Tail(p) \in Plans \ {<<"read", "observe">>}
  BY <1>1, <1>3, Tails DEF ToRead
<1>4. ASSUME p \in ToRecord PROVE Tail(p) \in Plans \ {<<"read", "observe">>}
  BY ZenonT(30), <1>1, <1>4, Tails DEF ToRecord
<1>5. ASSUME p \in ToWarn \cup ToLook PROVE Tail(p) \in Plans \ {<<"read", "observe">>}
  BY ZenonT(30), <1>1, <1>5, Tails DEF ToWarn, ToLook
<1>6. ASSUME p \in ToOpen \cup ToFind PROVE Tail(p) \in Plans \ {<<"read", "observe">>}
  BY ZenonT(30), <1>1, <1>6, Tails DEF ToOpen, ToFind
<1>7. ASSUME p \in ToResolve \cup ToRow PROVE Tail(p) \in Plans \ {<<"read", "observe">>}
  BY ZenonT(60), <1>1, <1>7, Tails DEF ToResolve, ToRow
<1>8. QED
  BY <1>2, <1>3, <1>4, <1>5, <1>6, <1>7 DEF Plans

\* Writing one worker's job leaves the others with theirs.
LEMMA GoKeepsJobs ==
  ASSUME JobsInv, NEW w \in Workers, NEW st \in Job, IsFiniteSet(st.todo), Go(w, st)
  PROVE  /\ worker' \in [Workers -> Job]
         /\ \A v \in Workers : IsFiniteSet(worker'[v].todo)
         /\ worker'[w] = (IF st.plan = <<>> THEN Idle ELSE st)
         /\ worker'[w].plan = st.plan
         /\ st.plan # <<>> => worker'[w] = st
         /\ \A v \in Workers : v # w => worker'[v] = worker[v]
<1> DEFINE next == IF st.plan = <<>> THEN Idle ELSE st
<1>1. next \in Job /\ IsFiniteSet(next.todo) /\ next.plan = st.plan
  BY IdleJob
<1>2. worker' = [worker EXCEPT ![w] = next]
  BY DEF Go
<1>3. worker \in [Workers -> Job] /\ \A v \in Workers : IsFiniteSet(worker[v].todo)
  BY DEF JobsInv
<1> HIDE DEF next
<1>4. worker' \in [Workers -> Job] /\ worker'[w] = next
      /\ \A v \in Workers : v # w => worker'[v] = worker[v]
  BY <1>1, <1>2, <1>3
<1>5. \A v \in Workers : IsFiniteSet(worker'[v].todo)
  BY <1>1, <1>3, <1>4
<1>6. QED
  BY <1>1, <1>4, <1>5 DEF next

\* A handler at one of its statements, and the same handler one statement on.
LEMMA AtAStep ==
  ASSUME JobsInv, NEW w \in Workers, NEW s, AtStep(w, s)
  PROVE  /\ worker[w] \in Job /\ worker[w].plan \in Plans /\ worker[w].plan # <<>>
         /\ Head(worker[w].plan) = s /\ Busy(w) /\ IsFiniteSet(worker[w].todo)
         /\ Onward(worker[w]) \in Job /\ Onward(worker[w]).plan = Tail(worker[w].plan)
         /\ Tail(worker[w].plan) \in Plans /\ Tail(worker[w].plan) # <<"read", "observe">>
         /\ Onward(worker[w]).seen = worker[w].seen /\ Onward(worker[w]).job = worker[w].job
         /\ Onward(worker[w]).todo = worker[w].todo /\ Onward(worker[w]).rung = worker[w].rung
         /\ Onward(worker[w]).inWindow = worker[w].inWindow
         /\ Onward(worker[w]).elapsed = worker[w].elapsed
         /\ Onward(worker[w]).stamp = worker[w].stamp
<1>1. worker[w] \in Job /\ IsFiniteSet(worker[w].todo)
  BY DEF JobsInv
<1>2. worker[w].plan # <<>> /\ Head(worker[w].plan) = s /\ Busy(w)
  BY DEF AtStep, Busy
<1>3. worker[w].plan \in Plans
  BY <1>1 DEF Job
<1>4. Tail(worker[w].plan) \in Plans /\ Tail(worker[w].plan) # <<"read", "observe">>
  BY <1>2, <1>3, TailPlan
<1>5. QED
  BY <1>1, <1>2, <1>3, <1>4 DEF Onward, Job

\* The ids in use are finitely many, so one is free.
LEMMA FreshIdIsAnId ==
  ASSUME JobsInv
  PROVE  FreshId \in Nat \ {0}
<1> DEFINE ids == {i.id : i \in incidents}
           todos == {worker[w].todo : w \in Workers}
           used == ids \cup UNION todos
           n == Cardinality(used)
           free == (1 .. n + 1) \ used
<1>1. IsFiniteSet(ids)
  <2> DEFINE f == [i \in incidents |-> i.id]
  <2>1. f \in Surjection(incidents, ids)
    BY DEF Surjection
  <2>2. QED
    BY <2>1, FS_Surjection DEF JobsInv
<1>2. IsFiniteSet(UNION todos)
  <2> DEFINE f == [w \in Workers |-> worker[w].todo]
  <2>1. f \in Surjection(Workers, todos)
    BY DEF Surjection
  <2>2. IsFiniteSet(todos)
    BY <2>1, FS_Surjection, ChecksAssumption DEF ChecksAssumption
  <2>3. \A t \in todos : IsFiniteSet(t)
    BY DEF JobsInv
  <2>4. QED
    BY <2>2, <2>3, FS_UNION
<1>3. IsFiniteSet(used)
  BY <1>1, <1>2, FS_Union
<1>4. n \in Nat
  BY <1>3, FS_CardinalityType
<1>5. free # {}
  <2>1. SUFFICES ASSUME free = {} PROVE FALSE
    OBVIOUS
  <2>2. (1 .. n + 1) \in SUBSET used
    BY <2>1
  <2> HIDE DEF used
  <2>3. Cardinality(1 .. n + 1) <= n
    BY <1>3, <2>2, FS_Subset
  <2>4. Cardinality(1 .. n + 1) = n + 1
    <3> HIDE DEF n
    <3>1. QED
      BY <1>4, FS_Interval
  <2>5. QED
    BY <1>4, <2>3, <2>4
<1>6. free \in SUBSET Nat
  BY <1>4
<1>7. Min(free) \in free
  BY <1>5, <1>6, LeastExists
<1>8. Min(free) \in 1 .. n + 1
  BY <1>7
<1>9. FreshId = Min(free)
  BY DEF FreshId
<1>10. QED
  BY <1>4, <1>8, <1>9

\* Beginning a job, the first time or again, makes it well typed.
LEMMA BeginJob ==
  ASSUME JobsInv, NEW j \in {1, 2}, NEW idle,
         idle \in {[Idle EXCEPT !.job = j]} \cup {[Idle EXCEPT !.job = j, !.attempt = a] : a \in Nat}
  PROVE  LET st == Begin(idle)
         IN  /\ st \in Job /\ IsFiniteSet(st.todo) /\ st.plan \in Beginning /\ st.plan # <<>>
             /\ st.elapsed = 0 /\ st.inWindow = window
             /\ st.plan = <<"read", "observe">> => kind = "broken_links"
<1>1. window \in BOOLEAN
  BY DEF JobsInv
<1>2. Beginning \subseteq Plans
  BY DEF Plans
<1>3. /\ <<"observe">> \in Beginning /\ <<"touch">> \in Beginning
      /\ <<"read", "observe">> \in Beginning
  BY DEF Beginning
<1>4. \A p \in Beginning : p # <<>>
  <2>1. <<"observe">> # <<>> /\ <<"touch">> # <<>> /\ <<"read", "observe">> # <<>>
    OBVIOUS
  <2>2. QED
    BY <2>1 DEF Beginning
<1>5. Idle \in Job /\ IsFiniteSet(Idle.todo) /\ Idle.elapsed = 0
  BY IdleJob DEF Idle
<1>6. idle \in Job /\ idle.todo = Idle.todo /\ idle.elapsed = 0
  <2>1. [Idle EXCEPT !.job = j] \in Job
    BY <1>5 DEF Job
  <2>2. ASSUME NEW a \in Nat PROVE [Idle EXCEPT !.job = j, !.attempt = a] \in Job
    BY <1>5 DEF Job
  <2>3. \/ idle = [Idle EXCEPT !.job = j]
        \/ \E a \in Nat : idle = [Idle EXCEPT !.job = j, !.attempt = a]
    OBVIOUS
  <2>4. idle.todo = Idle.todo /\ idle.elapsed = Idle.elapsed
    BY <1>5, <2>3 DEF Job
  <2>5. QED
    BY <1>5, <2>1, <2>2, <2>3, <2>4
<1>7. Begin(idle) \in Job /\ Begin(idle).todo = idle.todo /\ Begin(idle).elapsed = idle.elapsed
      /\ Begin(idle).inWindow = window /\ Begin(idle).plan \in Beginning
  BY ZenonT(30), <1>1, <1>2, <1>3, <1>6 DEF Begin, Job
<1>8. Begin(idle).plan = <<"read", "observe">> => kind = "broken_links"
  BY <1>6 DEF Begin, Job
<1>9. QED
  BY <1>4, <1>5, <1>6, <1>7, <1>8

\* What a change can make of the target is a reading.
LEMMA RenewedDays == Renewed \subseteq Int
<1>1. PICK longest \in Thresholds : \A t \in Thresholds : t <= longest
  BY ChecksAssumption DEF ChecksAssumption
<1>2. Thresholds \subseteq Int
  BY ChecksAssumption DEF ChecksAssumption
<1>3. \A t \in Thresholds : longest >= t
  BY <1>1, <1>2
<1>4. Max(Thresholds) \in Thresholds
  BY <1>3 DEF Max
<1>5. QED
  BY <1>2, <1>4, ChecksAssumption DEF Renewed, ChecksAssumption, Levels

\* The initial state.
LEMMA JobsInit == Init => JobsInv
<1> SUFFICES ASSUME Init PROVE JobsInv
  OBVIOUS
<1>1. kind \in Kinds /\ kind \in AllKinds
  BY ChecksAssumption DEF Init, ChecksAssumption
<1>4. Starts \subseteq Int
  BY RenewedDays DEF Starts
<1>5. "good" \in VerdictsOf(kind)
  BY <1>1 DEF VerdictsOf, Verdicts, AllKinds, Compared
<1>6. target \in Seen /\ target.serial # 0 /\ target.verdict = "good"
  BY <1>4 DEF Init, Seen, Verdicts
<1>7. /\ worker \in [Workers -> Job] /\ \A w \in Workers : IsFiniteSet(worker[w].todo)
      /\ \A w \in Workers : worker[w].plan = <<>>
  BY IdleJob DEF Init
<1>8. history \in [days: Int, serial: Nat, before: Int]
  BY DEF Init, NoHistory, None
<1>9. IsFiniteSet(incidents) /\ incidents = {} /\ window \in BOOLEAN
  BY FS_EmptySet DEF Init
<1>10. QED
  BY SMTT(30), <1>1, <1>5, <1>6, <1>7, <1>8, <1>9 DEF JobsInv

\* A check of anything: the handlers' statements.
LEMMA WorkKeepsJobs ==
  ASSUME JobsInv, NEW w \in Workers, Work(w)
  PROVE  JobsInv'
<1> USE DEF rest
<1>0. kind \in AllKinds
  BY ChecksAssumption DEF JobsInv, ChecksAssumption
<1>1. ASSUME NEW st \in Job, IsFiniteSet(st.todo), Go(w, st),
             st.plan = <<"read", "observe">> => kind = "broken_links",
             UNCHANGED <<kind, window, target, history, incidents>>
      PROVE  JobsInv'
  <2>1. /\ worker' \in [Workers -> Job] /\ worker'[w].plan = st.plan
        /\ \A v \in Workers : IsFiniteSet(worker'[v].todo)
        /\ \A v \in Workers : v # w => worker'[v] = worker[v]
    BY <1>1, GoKeepsJobs
  <2>2. QED
    BY <1>1, <2>1 DEF JobsInv, VerdictsOf
<1>2. ASSUME NEW j \in {1, 2}, Start(w, j) PROVE JobsInv'
  <2>2. LET st == Begin([Idle EXCEPT !.job = j])
        IN  /\ st \in Job /\ IsFiniteSet(st.todo)
            /\ st.plan = <<"read", "observe">> => kind = "broken_links"
    BY BeginJob
  <2>3. QED
    BY <1>1, <1>2, <2>2 DEF Start
<1>3. ASSUME Observe(w) PROVE JobsInv'
  <2> DEFINE st == worker[w]
             plan == Plan(target, st.job)
             stamp == target.days + st.elapsed
             next == [st EXCEPT !.plan = plan, !.seen = target, !.stamp = stamp, !.elapsed = 0]
  <2>1. st \in Job /\ IsFiniteSet(st.todo)
    BY <1>3, AtAStep DEF Observe
  <2>2. plan \in Plans /\ plan # <<"read", "observe">>
    BY <1>0, PlanType
  <2>3. target \in Seen /\ stamp \in Int
    BY <2>1 DEF JobsInv, Seen, Job
  <2> HIDE DEF st, plan, stamp
  <2>4. next \in Job /\ next.todo = st.todo /\ next.plan # <<"read", "observe">>
    BY <2>1, <2>2, <2>3 DEF Job
  <2>5. Go(w, next) /\ UNCHANGED <<kind, window, target, history, incidents>>
    BY <1>3 DEF Observe, st, plan, stamp
  <2> HIDE DEF next
  <2>6. QED
    BY <1>1, <2>1, <2>4, <2>5
<1>4. ASSUME ReadPrevious(w) PROVE JobsInv'
  <2> DEFINE st == worker[w]
             plan == IF Follows(st) THEN Tail(st.plan)
                     ELSE <<"record">> \o SubSeq(st.plan, 4, Len(st.plan))
             rung == IF kind \in {"ssl", "domain"} THEN WarnAt(st.seen)
                     ELSE Previous
             next == [st EXCEPT !.plan = plan, !.rung = rung]
  <2>1. st \in Job /\ IsFiniteSet(st.todo) /\ st.plan \in Plans /\ st.plan # <<>>
        /\ Head(st.plan) = "read"
    BY <1>4, AtAStep DEF ReadPrevious
  <2>2. plan \in Plans /\ plan # <<"read", "observe">>
    <3>1. Tail(st.plan) \in Plans /\ Tail(st.plan) # <<"read", "observe">>
      BY <2>1, TailPlan
    <3>2. st.plan \in ToRead \cup {<<"read", "observe">>}
      BY <2>1, ByStep
    <3>3. CASE st.plan \in ToRead
      <4>1. <<"record">> \o SubSeq(st.plan, 4, Len(st.plan)) \in {<<"record", "row">>, <<"record", "find", "row">>}
        BY <3>3, Skips DEF ToRead
      <4>2. QED
        BY SMTT(30), <3>1, <4>1 DEF Plans, ToRecord
    <3>4. CASE st.plan = <<"read", "observe">>
      <4>1. Follows(st)
        BY <3>4 DEF Follows, JobsInv
      <4>2. QED
        BY <3>1, <4>1
    <3>5. QED
      BY <3>2, <3>3, <3>4
  <2>3. rung \in Int
    <3>1. st.seen \in Seen /\ st.seen.days \in Int
      BY <2>1 DEF Job, Seen
    <3>2. CrossedThreshold(st.seen.days) \in Int
      BY <3>1, RungIs DEF None
    <3>3. WarnAt(st.seen) \in Int
      BY <3>2 DEF WarnAt, None
    <3>4. Previous \in Int
      BY DEF Previous, JobsInv, None
    <3>5. QED
      BY <3>3, <3>4 DEF None
  <2> HIDE DEF st, plan, rung
  <2>4. next \in Job /\ next.todo = st.todo /\ next.plan # <<"read", "observe">>
    BY <2>1, <2>2, <2>3 DEF Job
  <2>5. Go(w, next) /\ UNCHANGED <<kind, window, target, history, incidents>>
    BY <1>4 DEF ReadPrevious, st, plan, rung
  <2> HIDE DEF next
  <2>6. QED
    BY <1>1, <2>1, <2>4, <2>5
<1>5. ASSUME NEW s, AtStep(w, s) PROVE Tail(worker[w].plan) # <<"read", "observe">>
  BY <1>5, AtAStep
<1>6. ASSUME Record(w) PROVE JobsInv'
  <2> DEFINE st == worker[w]
             onward == Onward(st)
             next == [onward EXCEPT !.stamp = 0]
  <2>1. /\ st \in Job /\ IsFiniteSet(st.todo) /\ onward \in Job /\ onward.todo = st.todo
        /\ onward.plan = Tail(st.plan)
        /\ Tail(st.plan) # <<"read", "observe">>
    BY <1>6, AtAStep DEF Record
  <2>2. next \in Job /\ next.todo = st.todo /\ next.plan = Tail(st.plan)
    <3> HIDE DEF onward
    <3>1. next \in Job /\ next.todo = onward.todo /\ next.plan = onward.plan
      BY SMTT(120), <2>1 DEF Job
    <3>2. QED
      BY <2>1, <3>1
  <2>3. Go(w, next)
    BY <1>6 DEF Record
  <2> HIDE DEF next
  <2>4. /\ worker' \in [Workers -> Job] /\ worker'[w].plan = next.plan
        /\ \A v \in Workers : IsFiniteSet(worker'[v].todo)
        /\ \A v \in Workers : v # w => worker'[v] = worker[v]
    BY <2>1, <2>2, <2>3, GoKeepsJobs
  <2>5. history' \in [days: Int, serial: Nat, before: Int]
    <3>1. st.stamp \in Int /\ st.seen.serial \in Nat /\ st.rung \in Int
      BY <2>1 DEF Job, Seen
    <3>2. history \in [days: Int, serial: Nat, before: Int]
      BY DEF JobsInv
    <3>3. QED
      BY <1>6, <3>1, <3>2 DEF Record, None
  <2>6. UNCHANGED <<kind, window, target, incidents>>
    BY <1>6 DEF Record
  <2>7. QED
    BY <2>1, <2>2, <2>4, <2>5, <2>6 DEF JobsInv, VerdictsOf
<1>7. ASSUME NEW s, AtStep(w, s), Go(w, Onward(worker[w])),
             UNCHANGED <<kind, window, target, history, incidents>>
      PROVE  JobsInv'
  BY <1>1, <1>5, <1>7, AtAStep
<1>8. ASSUME Warn(w) PROVE JobsInv'
  BY <1>7, <1>8 DEF Warn
<1>9. ASSUME Look(w) PROVE JobsInv'
  <2> DEFINE st == worker[w]
             plan == (IF worker'[w].plan = <<"open">> \/ worker'[w].plan = <<"open", "row">>
                      THEN <<"open">> ELSE <<>>) \o Tail(st.plan)
  <2>1. PICK o \in {<<"open">>, <<>>} : Go(w, [st EXCEPT !.plan = o \o Tail(@)])
    BY <1>9 DEF Look
  <2>2. st \in Job /\ IsFiniteSet(st.todo) /\ st.plan \in ToLook
    BY ZenonT(30), <1>9, AtAStep, ByStep DEF Look
  <2> DEFINE next == [st EXCEPT !.plan = o \o Tail(@)]
  <2>3. o \o Tail(st.plan) \in {<<"open", "row">>, <<"open">>, <<"row">>, <<>>}
    BY ZenonT(60), <2>2, Tails, Joins DEF ToLook
  <2>4. {<<"open", "row">>, <<"open">>, <<"row">>, <<>>} \subseteq Plans \ {<<"read", "observe">>}
    BY DEF Plans, ToOpen, ToRow
  <2>5. next \in Job /\ next.todo = st.todo /\ next.plan # <<"read", "observe">>
    BY <2>2, <2>3, <2>4 DEF Job
  <2> HIDE DEF next
  <2>6. Go(w, next)
    BY <2>1 DEF next
  <2>7. QED
    BY <1>1, <1>9, <2>2, <2>5, <2>6 DEF Look
<1>10. ASSUME Open(w) PROVE JobsInv'
  <2>1. worker[w] \in Job /\ IsFiniteSet(worker[w].todo) /\ Onward(worker[w]) \in Job
        /\ Onward(worker[w]).todo = worker[w].todo
        /\ Onward(worker[w]).plan = Tail(worker[w].plan)
    BY <1>10, AtAStep DEF Open
  <2>2. Go(w, Onward(worker[w])) /\ UNCHANGED <<kind, window, target, history>>
    BY <1>10 DEF Open
  <2>3. /\ worker' \in [Workers -> Job] /\ worker'[w].plan = Tail(worker[w].plan)
        /\ \A v \in Workers : IsFiniteSet(worker'[v].todo)
        /\ \A v \in Workers : v # w => worker'[v] = worker[v]
    BY <2>1, <2>2, GoKeepsJobs
  <2>4. Tail(worker[w].plan) # <<"read", "observe">>
    BY <1>5, <1>10 DEF Open
  <2>5. IsFiniteSet(incidents') /\ \A i \in incidents' : i.id \in Nat \ {0}
    <3>1. IsFiniteSet(incidents) /\ FreshId \in Nat \ {0}
          /\ \A i \in incidents : i.id \in Nat \ {0}
      BY FreshIdIsAnId DEF JobsInv
    <3>2. incidents' = incidents \cup {[id |-> FreshId, cause |-> CauseOf(worker[w])]}
      BY <1>10 DEF Open
    <3>3. IsFiniteSet(incidents')
      BY <3>1, <3>2, FS_AddElement
    <3>4. QED
      BY <3>1, <3>2, <3>3
  <2>6. QED
    BY <2>2, <2>3, <2>4, <2>5 DEF JobsInv, VerdictsOf
<1>11. ASSUME Find(w) PROVE JobsInv'
  <2> DEFINE st == worker[w]
             open == {i.id : i \in incidents}
             Resolving(ids) == [st EXCEPT !.plan = <<"resolve">> \o Tail(@), !.todo = ids]
  <2>1. st \in Job /\ IsFiniteSet(st.todo) /\ st.plan \in ToFind
    BY ZenonT(30), <1>11, AtAStep, ByStep DEF Find
  <2>2. IsFiniteSet(open) /\ open \in SUBSET (Nat \ {0})
    <3> DEFINE f == [i \in incidents |-> i.id]
    <3>1. f \in Surjection(incidents, open)
      BY DEF Surjection
    <3>2. QED
      BY <3>1, FS_Surjection DEF JobsInv
  <2>3. <<"resolve">> \o Tail(st.plan) \in {<<"resolve", "row">>, <<"resolve">>}
    <3> HIDE DEF st
    <3>1. st.plan = <<"find", "row">> => Tail(st.plan) = <<"row">>
      BY Tails
    <3>2. st.plan = <<"find">> => Tail(st.plan) = <<>>
      BY Tails
    <3>3. <<"resolve">> \o <<"row">> = <<"resolve", "row">> /\ <<"resolve">> \o <<>> = <<"resolve">>
      BY Joins
    <3>4. st.plan = <<"find", "row">> \/ st.plan = <<"find">>
      BY <2>1 DEF ToFind
    <3>5. QED
      BY <3>1, <3>2, <3>3, <3>4
  <2>4. {<<"resolve", "row">>, <<"resolve">>} \subseteq Plans \ {<<"read", "observe">>}
    BY DEF Plans, ToResolve
  <2>5. ASSUME NEW ids \in SUBSET (Nat \ {0}), IsFiniteSet(ids)
        PROVE  /\ Resolving(ids) \in Job /\ Resolving(ids).todo = ids
               /\ Resolving(ids).plan # <<"read", "observe">>
    BY <2>1, <2>3, <2>4, <2>5 DEF Job
  <2>6. UNCHANGED <<kind, window, target, history, incidents>> /\ AtStep(w, "find")
    BY <1>11 DEF Find
  <2>7. \/ Go(w, Onward(st)) \/ Go(w, Resolving(open))
        \/ \E id \in open : Go(w, Resolving({id}))
    BY <1>11 DEF Find
  <2> HIDE DEF Resolving, open
  <2>8. CASE Go(w, Onward(st))
    BY <1>7, <2>6, <2>8
  <2>9. CASE Go(w, Resolving(open))
    BY <1>1, <2>2, <2>5, <2>6, <2>9
  <2>10. ASSUME NEW id \in open, Go(w, Resolving({id})) PROVE JobsInv'
    <3>1. {id} \in SUBSET (Nat \ {0}) /\ IsFiniteSet({id})
      BY <2>2, FS_Singleton
    <3>2. QED
      BY <1>1, <2>5, <2>6, <2>10, <3>1
  <2>11. QED
    BY <2>7, <2>8, <2>9, <2>10
<1>12. ASSUME Resolve(w) PROVE JobsInv'
  <2> DEFINE st == worker[w]
             id == Min(st.todo)
             less == [st EXCEPT !.todo = @ \ {id}]
  <2>1. AtStep(w, "resolve") /\ UNCHANGED <<kind, window, target, history>>
        /\ incidents' = {i \in incidents : i.id # id}
        /\ Go(w, IF st.todo = {id} THEN Onward(st) ELSE less)
    BY <1>12 DEF Resolve
  <2>2. /\ st \in Job /\ IsFiniteSet(st.todo) /\ Onward(st) \in Job /\ Onward(st).todo = st.todo
        /\ Onward(st).plan = Tail(st.plan) /\ st.plan \in ToResolve
    BY <2>1, AtAStep, ByStep
  <2>3. IsFiniteSet(st.todo \ {id})
    BY <2>2, FS_RemoveElement
  <2>4. st.plan # <<"read", "observe">> /\ Tail(st.plan) # <<"read", "observe">>
    BY <1>5, <2>1, <2>2 DEF ToResolve
  <2>5. less \in Job /\ IsFiniteSet(less.todo) /\ less.plan = st.plan
    BY <2>2, <2>3 DEF Job
  <2> DEFINE next == IF st.todo = {id} THEN Onward(st) ELSE less
  <2>6. next \in Job /\ IsFiniteSet(next.todo) /\ next.plan # <<"read", "observe">>
    BY <2>2, <2>4, <2>5
  <2> HIDE DEF next
  <2>7. Go(w, next)
    BY <2>1 DEF next
  <2>8. /\ worker' \in [Workers -> Job] /\ worker'[w].plan = next.plan
        /\ \A v \in Workers : IsFiniteSet(worker'[v].todo)
        /\ \A v \in Workers : v # w => worker'[v] = worker[v]
    BY <2>6, <2>7, GoKeepsJobs
  <2>9. IsFiniteSet(incidents') /\ \A i \in incidents' : i.id \in Nat \ {0}
    <3>1. incidents' \in SUBSET incidents
      BY <2>1
    <3>2. QED
      BY <3>1, FS_Subset DEF JobsInv
  <2>10. QED
    BY <2>1, <2>6, <2>8, <2>9 DEF JobsInv, VerdictsOf
<1>13. ASSUME WriteRow(w) PROVE JobsInv'
  BY <1>7, <1>13 DEF WriteRow
<1>14. ASSUME Touch(w) PROVE JobsInv'
  BY <1>7, <1>14 DEF Touch
<1>15. QED
  BY <1>2, <1>3, <1>4, <1>6, <1>8, <1>9, <1>10, <1>11, <1>12, <1>13, <1>14 DEF Work

\* A job that dies is begun again or over.
LEMMA CrashKeepsJobs ==
  ASSUME JobsInv, NEW w \in Workers, Crash(w)
  PROVE  /\ JobsInv'
         /\ worker'[w].plan \in Beginning \cup {<<>>} /\ worker'[w].elapsed = 0
         /\ worker'[w].inWindow \in {window, FALSE}
         /\ \A v \in Workers : v # w => worker'[v] = worker[v]
<1> DEFINE a == worker[w].attempt + 1
           idle == [Idle EXCEPT !.job = worker[w].job, !.attempt = a]
           st == IF worker[w].attempt < Tries THEN Begin(idle) ELSE Idle
<1>1. worker[w] \in Job /\ worker[w].job \in {1, 2} /\ a \in Nat
  BY DEF JobsInv, Job
<1>2. /\ Begin(idle) \in Job /\ IsFiniteSet(Begin(idle).todo) /\ Begin(idle).plan \in Beginning
      /\ Begin(idle).elapsed = 0 /\ Begin(idle).inWindow = window
      /\ Begin(idle).plan = <<"read", "observe">> => kind = "broken_links"
  <2> HIDE DEF a
  <2>1. QED
    BY <1>1, BeginJob
<1>3. Idle \in Job /\ IsFiniteSet(Idle.todo) /\ Idle.plan = <<>> /\ Idle.elapsed = 0
      /\ Idle.inWindow = FALSE /\ Idle.plan # <<"read", "observe">>
  <2>1. <<>> # <<"read", "observe">>
    OBVIOUS
  <2>2. QED
    BY <2>1, IdleJob DEF Idle
<1> HIDE DEF idle
<1>4. /\ st \in Job /\ IsFiniteSet(st.todo) /\ st.plan \in Beginning \cup {<<>>}
      /\ st.elapsed = 0 /\ st.inWindow \in {window, FALSE}
      /\ st.plan = <<"read", "observe">> => kind = "broken_links"
  <2>1. CASE worker[w].attempt < Tries
    <3>1. st = Begin(idle)
      BY <2>1
    <3> HIDE DEF st
    <3>2. QED
      BY <1>2, <3>1
  <2>2. CASE ~(worker[w].attempt < Tries)
    <3>1. st = Idle
      BY <2>2
    <3> HIDE DEF st
    <3>2. QED
      BY <1>3, <3>1
  <2>3. QED
    BY <2>1, <2>2
<1>5. Go(w, st) /\ UNCHANGED <<kind, window, target, history, incidents>>
  BY DEF Crash, st, idle, a, rest
<1> HIDE DEF st
<1>6. /\ worker' \in [Workers -> Job] /\ \A v \in Workers : IsFiniteSet(worker'[v].todo)
      /\ worker'[w] = (IF st.plan = <<>> THEN Idle ELSE st)
      /\ worker'[w].plan = st.plan
      /\ \A v \in Workers : v # w => worker'[v] = worker[v]
  BY <1>4, <1>5, GoKeepsJobs
<1>7. JobsInv'
  BY <1>4, <1>5, <1>6 DEF JobsInv, VerdictsOf
<1>8. QED
  BY <1>3, <1>4, <1>6, <1>7

\* A day changes only how long the handlers that wait have waited.
LEMMA DayKeepsJobs ==
  ASSUME JobsInv, DayPasses
  PROVE  /\ JobsInv'
         /\ \A w \in Workers :
              /\ worker'[w].plan = worker[w].plan /\ worker'[w].seen = worker[w].seen
              /\ worker'[w].rung = worker[w].rung /\ worker'[w].stamp = worker[w].stamp
              /\ worker'[w].job = worker[w].job
              /\ worker'[w].todo = worker[w].todo /\ worker'[w].inWindow = worker[w].inWindow
              /\ ~AtStep(w, "observe") => worker'[w] = worker[w]
         /\ target'.serial = target.serial /\ target'.days <= target.days
         /\ target'.verdict = target.verdict
<1>1. ASSUME NEW w \in Workers
      PROVE  /\ worker'[w] \in Job /\ IsFiniteSet(worker'[w].todo)
             /\ worker'[w].plan = worker[w].plan /\ worker'[w].seen = worker[w].seen
             /\ worker'[w].rung = worker[w].rung /\ worker'[w].stamp = worker[w].stamp
             /\ worker'[w].job = worker[w].job
             /\ worker'[w].todo = worker[w].todo /\ worker'[w].inWindow = worker[w].inWindow
             /\ ~AtStep(w, "observe") => worker'[w] = worker[w]
  <2>1. worker[w] \in Job /\ IsFiniteSet(worker[w].todo)
    BY DEF JobsInv
  <2>2. worker'[w] = IF AtStep(w, "observe")
                     THEN [worker[w] EXCEPT !.elapsed = @ + 1] ELSE worker[w]
    BY DEF DayPasses
  <2>3. QED
    BY <2>1, <2>2 DEF Job
<1>2. worker' \in [Workers -> Job]
  <2>1. worker' = [w \in Workers |-> worker'[w]]
    BY DEF DayPasses
  <2>2. QED
    BY <1>1, <2>1
<1>3. /\ target' \in Seen /\ target'.serial = target.serial /\ target'.verdict = target.verdict
      /\ target'.days <= target.days
  <2>1. target \in Seen
    BY DEF JobsInv
  <2>2. target' = [target EXCEPT !.days = IF @ = Expired THEN @ ELSE @ - 1]
    BY DEF DayPasses
  <2>3. QED
    BY <2>1, <2>2 DEF Seen
<1>4. UNCHANGED <<kind, window, history, incidents>>
  BY DEF DayPasses, rest
<1>5. JobsInv'
  BY <1>1, <1>2, <1>3, <1>4 DEF JobsInv, VerdictsOf
<1>6. QED
  BY <1>1, <1>3, <1>5

\* Every step keeps the types.
LEMMA JobsStep == JobsInv /\ [Next]_vars => JobsInv'
<1> SUFFICES ASSUME JobsInv, [Next]_vars PROVE JobsInv'
  OBVIOUS
<1> USE DEF rest
<1>1. CASE UNCHANGED vars
  BY <1>1 DEF JobsInv, vars, VerdictsOf
<1>2. CASE DispatchDue \/ RunCheckNow \/ IntervalPasses
  BY <1>2 DEF DispatchDue, RunCheckNow, IntervalPasses, JobsInv, VerdictsOf
<1>3. CASE \E w \in Workers : Work(w) \/ Crash(w)
  BY <1>3, WorkKeepsJobs, CrashKeepsJobs
<1>4. CASE DayPasses
  BY <1>4, DayKeepsJobs
<1>5. CASE ToggleWindow
  BY <1>5 DEF ToggleWindow, JobsInv, VerdictsOf
<1>6. ASSUME NEW d \in Renewed, Renew(d) PROVE JobsInv'
  <2>1. d \in Int
    BY RenewedDays
  <2>2. target \in Seen /\ target' = [target EXCEPT !.days = d, !.serial = @ + 1]
    BY <1>6 DEF Renew, JobsInv
  <2>3. target' \in Seen /\ target'.serial # 0 /\ target'.verdict = target.verdict
    <3>1. target.serial \in Nat /\ target.serial + 1 \in Nat /\ target.serial + 1 # 0
      BY <2>2 DEF Seen
    <3>2. target'.serial = target.serial + 1 /\ target'.verdict = target.verdict
      BY <2>2 DEF Seen
    <3>3. target' \in Seen
      BY <2>1, <2>2, <3>1 DEF Seen
    <3>4. QED
      BY <3>1, <3>2, <3>3
  <2>4. QED
    BY <1>6, <2>3 DEF Renew, JobsInv, VerdictsOf
<1>7. ASSUME NEW v \in Verdicts, Change(v) PROVE JobsInv'
  <2>1. target \in Seen /\ target' = [target EXCEPT !.verdict = v]
    BY <1>7 DEF Change, JobsInv
  <2>2. target' \in Seen /\ target'.serial = target.serial /\ target'.verdict = v
    BY <2>1 DEF Seen
  <2>3. v \in VerdictsOf(kind) /\ UNCHANGED <<kind, window, worker, history, incidents>>
    BY <1>7 DEF Change
  <2>4. QED
    BY <2>2, <2>3 DEF JobsInv, VerdictsOf
<1>8. ASSUME NEW i \in incidents, ResolveByHand(i) PROVE JobsInv'
  <2>1. IsFiniteSet(incidents \ {i})
    BY FS_RemoveElement DEF JobsInv
  <2>2. QED
    BY <1>8, <2>1 DEF ResolveByHand, JobsInv, VerdictsOf
<1>9. QED
  BY <1>1, <1>2, <1>3, <1>4, <1>5, <1>6, <1>7, <1>8 DEF Next

\* The types of what the proofs read hold throughout.
LEMMA JobsThroughout == Spec => []JobsInv
<1>1. QED
  BY JobsInit, JobsStep, PTL DEF Spec

(***************************************************************************)
(* What each statement does to the job that runs it.                       *)
(***************************************************************************)
\* The job keeps what it saw.
Carries(old, new) ==
  /\ new.seen = old.seen /\ new.job = old.job /\ new.inWindow = old.inWindow
  /\ new.elapsed = old.elapsed
\* Of a job that is over nothing is left; the others are not touched.
Alone(w) == \A v \in Workers : v # w => worker'[v] = worker[v]
Over(w) == worker'[w].plan = <<>> => worker'[w] = Idle

\* A worker that takes a job begins it.
LEMMA StartMoves ==
  ASSUME JobsInv, NEW w \in Workers, NEW j \in {1, 2}, Start(w, j)
  PROVE  /\ ~Busy(w) /\ Alone(w) /\ worker'[w].plan \in Beginning
         /\ worker'[w].elapsed = 0 /\ worker'[w].inWindow = window
<1> DEFINE st == Begin([Idle EXCEPT !.job = j])
<1>1. /\ st \in Job /\ IsFiniteSet(st.todo) /\ st.plan \in Beginning /\ st.plan # <<>>
      /\ st.elapsed = 0 /\ st.inWindow = window
  BY BeginJob
<1>2. Go(w, st) /\ ~Busy(w)
  BY DEF Start
<1> HIDE DEF st
<1>3. QED
  BY <1>1, <1>2, GoKeepsJobs DEF Alone

\* The target answers: the job holds what it saw and what it will do.
LEMMA ObserveMoves ==
  ASSUME JobsInv, NEW w \in Workers, Observe(w)
  PROVE  LET old == worker[w]
             new == worker'[w]
         IN  /\ Busy(w) /\ Alone(w) /\ Over(w) /\ old.plan = <<"observe">>
             /\ new.plan = Plan(target, old.job)
             /\ new.plan # <<>> =>
                  /\ new.seen = target /\ new.job = old.job /\ new.inWindow = old.inWindow
                  /\ new.stamp = target.days + old.elapsed /\ new.elapsed = 0
                  /\ new.rung = old.rung
<1> DEFINE old == worker[w]
           plan == Plan(target, old.job)
           stamp == target.days + old.elapsed
           st == [old EXCEPT !.plan = plan, !.seen = target, !.stamp = stamp, !.elapsed = 0]
<1>1. /\ old \in Job /\ IsFiniteSet(old.todo) /\ old.plan = <<"observe">> /\ Busy(w)
  BY AtAStep, ByStep DEF Observe
<1>2. plan \in Plans /\ target \in Seen /\ stamp \in Int
  <2>1. kind \in AllKinds
    BY ChecksAssumption DEF JobsInv, ChecksAssumption
  <2>2. plan \in Plans
    BY <2>1, PlanType
  <2>3. QED
    BY <1>1, <2>2 DEF JobsInv, Seen, Job
<1>3. Go(w, st)
  BY DEF Observe
<1> HIDE DEF old, plan, stamp
<1>4. /\ st \in Job /\ st.todo = old.todo /\ st.plan = plan /\ st.seen = target
      /\ st.job = old.job /\ st.inWindow = old.inWindow /\ st.stamp = stamp /\ st.elapsed = 0
      /\ st.rung = old.rung
  BY <1>1, <1>2 DEF Job
<1> HIDE DEF st
<1>5. /\ worker'[w].plan = plan /\ (plan # <<>> => worker'[w] = st)
      /\ (plan = <<>> => worker'[w] = Idle) /\ Alone(w)
  BY <1>1, <1>3, <1>4, GoKeepsJobs DEF Alone
<1>6. /\ Busy(w) /\ Alone(w) /\ Over(w) /\ old.plan = <<"observe">>
      /\ worker'[w].plan = plan
      /\ worker'[w].plan # <<>> =>
           /\ worker'[w].seen = target /\ worker'[w].job = old.job
           /\ worker'[w].inWindow = old.inWindow
           /\ worker'[w].stamp = stamp /\ worker'[w].elapsed = 0
           /\ worker'[w].rung = old.rung
  BY <1>1, <1>4, <1>5 DEF Over
<1>7. QED
  BY <1>6 DEF old, plan, stamp

\* The previous row is read: it decides the rung, and what follows the record.
LEMMA ReadMoves ==
  ASSUME JobsInv, NEW w \in Workers, ReadPrevious(w)
  PROVE  LET old == worker[w]
             new == worker'[w]
         IN  /\ Busy(w) /\ Alone(w) /\ Carries(old, new)
             /\ old.plan \in ToRead \cup {<<"read", "observe">>}
             /\ Follows(old) => new.plan = Tail(old.plan)
             /\ ~Follows(old) => new.plan = <<"record">> \o SubSeq(old.plan, 4, Len(old.plan))
             /\ new.plan \in ToRecord \cup {<<"observe">>}
             /\ new.stamp = old.stamp
             /\ new.rung = IF kind \in {"ssl", "domain"} THEN WarnAt(old.seen) ELSE Previous
<1> DEFINE old == worker[w]
           plan == IF Follows(old) THEN Tail(old.plan)
                   ELSE <<"record">> \o SubSeq(old.plan, 4, Len(old.plan))
           rung == IF kind \in {"ssl", "domain"} THEN WarnAt(old.seen) ELSE Previous
           st == [old EXCEPT !.plan = plan, !.rung = rung]
<1>1. /\ old \in Job /\ IsFiniteSet(old.todo) /\ Busy(w)
      /\ old.plan \in ToRead \cup {<<"read", "observe">>}
  BY AtAStep, ByStep DEF ReadPrevious
<1>2. plan \in ToRecord \cup {<<"observe">>} /\ plan \in Plans /\ plan # <<>>
  <2>1. CASE old.plan \in ToRead
    <3>1. <<"record">> \o SubSeq(old.plan, 4, Len(old.plan))
            \in {<<"record", "row">>, <<"record", "find", "row">>}
      BY <2>1, Skips DEF ToRead
    <3>2. Tail(old.plan) \in {<<"record", "look", "row">>, <<"record", "warn", "find", "row">>,
                              <<"record", "warn", "row">>}
      BY <2>1, Tails DEF ToRead
    <3>3. plan \in ToRecord
      BY <3>1, <3>2 DEF ToRecord
    <3>4. \A p \in ToRecord : p # <<>>
      BY DEF ToRecord
    <3>5. QED
      BY <3>3, <3>4 DEF Plans
  <2>2. CASE old.plan = <<"read", "observe">>
    <3>1. Follows(old)
      BY <2>2 DEF Follows, JobsInv
    <3>2. plan = <<"observe">>
      BY <2>2, <3>1, Tails
    <3>3. <<"observe">> # <<>>
      OBVIOUS
    <3>4. QED
      BY <3>2, <3>3 DEF Plans, Beginning
  <2>3. QED
    BY <1>1, <2>1, <2>2
<1>3. rung \in Int
  <2>1. old.seen \in Seen /\ old.seen.days \in Int
    BY <1>1 DEF Job, Seen
  <2>2. CrossedThreshold(old.seen.days) \in Int
    BY <2>1, RungIs DEF None
  <2>3. WarnAt(old.seen) \in Int
    BY <2>2 DEF WarnAt, None
  <2>4. Previous \in Int
    BY DEF Previous, JobsInv, None
  <2>5. QED
    BY <2>3, <2>4 DEF None
<1>4. Go(w, st)
  BY DEF ReadPrevious
<1>5. /\ Follows(old) => plan = Tail(old.plan)
      /\ ~Follows(old) => plan = <<"record">> \o SubSeq(old.plan, 4, Len(old.plan))
  OBVIOUS
<1> HIDE DEF old, plan, rung
<1>6. /\ st \in Job /\ st.todo = old.todo /\ st.plan = plan /\ st.rung = rung
      /\ st.stamp = old.stamp /\ Carries(old, st)
  BY <1>1, <1>2, <1>3 DEF Job, Carries
<1> HIDE DEF st
<1>7. worker'[w].plan = plan /\ worker'[w] = st /\ Alone(w)
  BY <1>1, <1>2, <1>4, <1>6, GoKeepsJobs DEF Alone
<1>8. QED
  BY <1>1, <1>2, <1>5, <1>6, <1>7 DEF old, plan, rung

\* A statement without a result of its own: the next one comes.
LEMMA OnwardMoves ==
  ASSUME JobsInv, NEW w \in Workers, NEW s, AtStep(w, s), Go(w, Onward(worker[w]))
  PROVE  LET old == worker[w]
             new == worker'[w]
         IN  /\ Busy(w) /\ Alone(w) /\ Over(w) /\ old.plan \in Plans /\ old.plan # <<>>
             /\ Head(old.plan) = s
             /\ new.plan = Tail(old.plan)
             /\ new.plan # <<>> =>
                  /\ Carries(old, new) /\ new.rung = old.rung /\ new.todo = old.todo
                  /\ new.stamp = old.stamp
<1>1. /\ worker[w] \in Job /\ worker[w].plan \in Plans /\ worker[w].plan # <<>>
      /\ Head(worker[w].plan) = s /\ Busy(w) /\ IsFiniteSet(worker[w].todo)
      /\ Onward(worker[w]) \in Job /\ Onward(worker[w]).plan = Tail(worker[w].plan)
      /\ Onward(worker[w]).todo = worker[w].todo /\ Onward(worker[w]).rung = worker[w].rung
      /\ Onward(worker[w]).stamp = worker[w].stamp
      /\ Carries(worker[w], Onward(worker[w]))
  BY AtAStep DEF Carries
<1>2. /\ worker'[w] = (IF Onward(worker[w]).plan = <<>> THEN Idle ELSE Onward(worker[w]))
      /\ worker'[w].plan = Onward(worker[w]).plan
      /\ Onward(worker[w]).plan # <<>> => worker'[w] = Onward(worker[w])
      /\ Alone(w)
  BY <1>1, GoKeepsJobs DEF Alone
<1>3. QED
  BY <1>1, <1>2 DEF Over

\* The row is stored, and dated when the target answered.
LEMMA RecordMoves ==
  ASSUME JobsInv, NEW w \in Workers, Record(w)
  PROVE  LET old == worker[w]
             new == worker'[w]
         IN  /\ Busy(w) /\ Alone(w) /\ Over(w) /\ old.plan \in ToRecord
             /\ new.plan = Tail(old.plan)
             /\ Carries(old, new) /\ new.rung = old.rung
             /\ history'.days = old.stamp /\ history'.serial = old.seen.serial
             /\ history'.before = (IF kind \in Compared THEN old.rung ELSE None)
             /\ old.seen.serial # 0 => history' # NoHistory
<1> DEFINE old == worker[w]
           onward == Onward(old)
           st == [onward EXCEPT !.stamp = 0]
<1>1. /\ old \in Job /\ IsFiniteSet(old.todo) /\ onward \in Job /\ onward.todo = old.todo
      /\ onward.plan = Tail(old.plan) /\ onward.rung = old.rung /\ Carries(old, onward)
      /\ Busy(w) /\ old.plan \in ToRecord
  BY AtAStep, ByStep DEF Record, Carries
<1>2. Go(w, st)
  BY DEF Record
<1>3. history' = [days |-> old.stamp, serial |-> old.seen.serial,
                  before |-> IF kind \in Compared THEN old.rung ELSE None]
  BY DEF Record
<1>4. Tail(old.plan) # <<>>
  <2>1. <<"look", "row">> # <<>> /\ <<"row">> # <<>> /\ <<"find", "row">> # <<>>
        /\ <<"warn", "find", "row">> # <<>> /\ <<"warn", "row">> # <<>>
    OBVIOUS
  <2>2. QED
    BY <1>1, <2>1, Tails DEF ToRecord
<1> HIDE DEF old, onward
<1>5. st \in Job /\ st.todo = onward.todo /\ st.plan = onward.plan
      /\ st.rung = onward.rung /\ Carries(onward, st)
  BY <1>1 DEF Job, Carries
<1> HIDE DEF st
<1>6. worker'[w] = st /\ Alone(w)
  BY <1>1, <1>2, <1>4, <1>5, GoKeepsJobs DEF Alone
<1>7. /\ worker'[w].plan = Tail(old.plan) /\ worker'[w].rung = old.rung
      /\ Carries(old, worker'[w]) /\ Over(w)
  BY <1>1, <1>4, <1>5, <1>6 DEF Carries, Over
<1>8. /\ history'.days = old.stamp /\ history'.serial = old.seen.serial
      /\ history'.before = (IF kind \in Compared THEN old.rung ELSE None)
      /\ old.seen.serial # 0 => history' # NoHistory
  BY <1>3 DEF NoHistory
<1>9. QED
  BY <1>1, <1>6, <1>7, <1>8 DEF old

\* The window and the incidents that stand are looked at.
LEMMA LookMoves ==
  ASSUME JobsInv, NEW w \in Workers, Look(w)
  PROVE  LET old == worker[w]
             new == worker'[w]
             muted == IF kind \in {"performance", "broken_links"} THEN window
                      ELSE old.inWindow
             wanted == kind = "broken_links" => RoseTo(old.rung, old.seen.days)
             opens == wanted /\ Standing(old) = {} /\ ~muted
         IN  /\ Busy(w) /\ Alone(w) /\ Over(w) /\ old.plan \in ToLook
             /\ opens => /\ new.plan \in ToOpen
                         /\ old.plan = <<"look", "row">> => new.plan = <<"open", "row">>
                         /\ old.plan = <<"look">> => new.plan = <<"open">>
             /\ ~opens => new.plan = Tail(old.plan)
             /\ new.plan # <<>> => Carries(old, new) /\ new.rung = old.rung
             /\ warned' = IF wanted /\ ~opens /\ ~muted THEN Tell(old) ELSE warned
<1> DEFINE old == worker[w]
           muted == IF kind \in {"performance", "broken_links"} THEN window ELSE old.inWindow
           wanted == kind = "broken_links" => RoseTo(old.rung, old.seen.days)
           opens == wanted /\ Standing(old) = {} /\ ~muted
           plan == (IF opens THEN <<"open">> ELSE <<>>) \o Tail(old.plan)
           st == [old EXCEPT !.plan = (IF opens THEN <<"open">> ELSE <<>>) \o Tail(@)]
<1>1. old \in Job /\ IsFiniteSet(old.todo) /\ old.plan \in ToLook /\ Busy(w)
  BY AtAStep, ByStep DEF Look
<1>2. Go(w, st) /\ warned' = IF wanted /\ ~opens /\ ~muted THEN Tell(old) ELSE warned
  BY DEF Look
<1> HIDE DEF opens, wanted, muted
<1>3. /\ opens => /\ old.plan = <<"look", "row">> => plan = <<"open", "row">>
                  /\ old.plan = <<"look">> => plan = <<"open">>
      /\ ~opens => plan = Tail(old.plan)
  BY ZenonT(120), <1>1, Tails, Joins DEF ToLook
<1>4. Tail(old.plan) \in {<<"row">>, <<>>}
  BY <1>1, Tails DEF ToLook
<1>5. /\ opens => plan \in ToOpen
      /\ plan \in Plans
  <2>1. {<<"open", "row">>, <<"open">>, <<"row">>, <<>>} \subseteq Plans
    BY DEF Plans, ToOpen, ToRow
  <2>2. opens => plan \in {<<"open", "row">>, <<"open">>}
    BY <1>1, <1>3 DEF ToLook
  <2>3. ~opens => plan \in {<<"row">>, <<>>}
    BY <1>3, <1>4
  <2>4. {<<"open", "row">>, <<"open">>} \subseteq ToOpen
    BY DEF ToOpen
  <2> HIDE DEF plan
  <2>5. QED
    BY <2>1, <2>2, <2>3, <2>4
<1>6. st = [old EXCEPT !.plan = plan]
  OBVIOUS
<1> HIDE DEF old, plan, st
<1>7. /\ st \in Job /\ st.todo = old.todo /\ st.plan = plan /\ st.rung = old.rung
      /\ Carries(old, st)
  BY <1>1, <1>5, <1>6 DEF Job, Carries
<1>8. /\ worker'[w].plan = plan /\ (plan # <<>> => worker'[w] = st)
      /\ (plan = <<>> => worker'[w] = Idle) /\ Alone(w)
  BY <1>1, <1>2, <1>7, GoKeepsJobs DEF Alone
<1>9. /\ Busy(w) /\ Alone(w) /\ Over(w) /\ old.plan \in ToLook
      /\ opens => /\ worker'[w].plan \in ToOpen
                  /\ old.plan = <<"look", "row">> => worker'[w].plan = <<"open", "row">>
                  /\ old.plan = <<"look">> => worker'[w].plan = <<"open">>
      /\ ~opens => worker'[w].plan = Tail(old.plan)
      /\ worker'[w].plan # <<>> => Carries(old, worker'[w]) /\ worker'[w].rung = old.rung
      /\ warned' = IF wanted /\ ~opens /\ ~muted THEN Tell(old) ELSE warned
  BY <1>1, <1>2, <1>3, <1>5, <1>7, <1>8 DEF Over
<1>10. QED
  BY <1>9 DEF old, opens, wanted, muted

\* An open incident is found, or there is none.
LEMMA FindMoves ==
  ASSUME JobsInv, NEW w \in Workers, Find(w)
  PROVE  LET old == worker[w]
             new == worker'[w]
         IN  /\ Busy(w) /\ Alone(w) /\ Over(w) /\ old.plan \in ToFind
             /\ new.plan # <<>> => Carries(old, new)
             /\ \/ incidents = {} /\ new.plan = Tail(old.plan)
                \/ /\ incidents # {} /\ new.plan \in ToResolve
                   /\ old.plan = <<"find", "row">> => new.plan = <<"resolve", "row">>
                   /\ kind # "performance" => \E i \in incidents : new.todo = {i.id}
<1> DEFINE old == worker[w]
           open == {i.id : i \in incidents}
           Resolving(ids) == [old EXCEPT !.plan = <<"resolve">> \o Tail(@), !.todo = ids]
<1>1. old \in Job /\ IsFiniteSet(old.todo) /\ old.plan \in ToFind /\ Busy(w)
  BY ZenonT(30), AtAStep, ByStep DEF Find
<1>2. IsFiniteSet(open) /\ open \in SUBSET (Nat \ {0}) /\ (open = {} <=> incidents = {})
  <2> DEFINE f == [i \in incidents |-> i.id]
  <2>1. f \in Surjection(incidents, open)
    BY DEF Surjection
  <2>2. IsFiniteSet(open)
    BY <2>1, FS_Surjection DEF JobsInv
  <2>3. open \in SUBSET (Nat \ {0})
    BY DEF JobsInv
  <2>4. QED
    BY <2>2, <2>3
<1> DEFINE plan == <<"resolve">> \o Tail(old.plan)
<1>3. /\ plan \in {<<"resolve", "row">>, <<"resolve">>}
      /\ old.plan = <<"find", "row">> => plan = <<"resolve", "row">>
  <2>1. CASE old.plan = <<"find", "row">>
    <3>1. Tail(old.plan) = <<"row">>
      BY <2>1, Tails
    <3>2. plan = <<"resolve", "row">>
      BY <3>1, Joins
    <3>3. QED
      BY <3>2
  <2>2. CASE old.plan = <<"find">>
    <3>1. Tail(old.plan) = <<>>
      BY <2>2, Tails
    <3>2. plan = <<"resolve">>
      BY <3>1, Joins
    <3>3. <<"find">> # <<"find", "row">>
      OBVIOUS
    <3>4. QED
      BY <2>2, <3>2, <3>3
  <2>3. QED
    BY <1>1, <2>1, <2>2 DEF ToFind
<1>4. plan \in Plans /\ plan \in ToResolve /\ plan # <<>>
  <2>1. <<"resolve", "row">> # <<>> /\ <<"resolve">> # <<>>
    OBVIOUS
  <2>2. QED
    BY <1>3, <2>1 DEF Plans, ToResolve
<1>5. ASSUME NEW ids \in SUBSET (Nat \ {0}), IsFiniteSet(ids)
      PROVE  /\ Resolving(ids) \in Job /\ Resolving(ids).todo = ids
             /\ Resolving(ids).plan = plan /\ Carries(old, Resolving(ids))
  <2> HIDE DEF plan
  <2>1. Resolving(ids) = [old EXCEPT !.plan = plan, !.todo = ids]
    BY DEF plan
  <2> HIDE DEF Resolving, old
  <2>2. QED
    BY <1>1, <1>4, <1>5, <2>1 DEF Job, Carries
<1>6. \/ incidents = {} /\ Go(w, Onward(old))
      \/ incidents # {} /\ kind = "performance" /\ Go(w, Resolving(open))
      \/ kind # "performance" /\ \E id \in open : Go(w, Resolving({id}))
  BY <1>2 DEF Find
<1> HIDE DEF plan, Resolving
<1>7. CASE incidents = {} /\ Go(w, Onward(old))
  BY <1>1, <1>7, OnwardMoves DEF Find
<1>8. ASSUME NEW ids \in SUBSET (Nat \ {0}), IsFiniteSet(ids), Go(w, Resolving(ids))
      PROVE  /\ worker'[w] = Resolving(ids) /\ worker'[w].plan = plan /\ worker'[w].todo = ids
             /\ Alone(w) /\ Over(w) /\ Carries(old, worker'[w])
  <2>1. /\ Resolving(ids) \in Job /\ Resolving(ids).todo = ids
        /\ Resolving(ids).plan = plan /\ Carries(old, Resolving(ids))
    BY <1>5, <1>8
  <2>2. worker'[w] = Resolving(ids) /\ Alone(w)
    BY <1>4, <1>8, <2>1, GoKeepsJobs DEF Alone
  <2>3. QED
    BY <1>4, <2>1, <2>2 DEF Over
<1>9. CASE incidents # {} /\ kind = "performance" /\ Go(w, Resolving(open))
  BY <1>1, <1>2, <1>3, <1>4, <1>8, <1>9
<1>10. CASE kind # "performance" /\ \E id \in open : Go(w, Resolving({id}))
  <2>1. PICK id \in open : Go(w, Resolving({id}))
    BY <1>10
  <2>2. PICK i \in incidents : i.id = id
    BY <2>1
  <2>3. {id} \in SUBSET (Nat \ {0}) /\ IsFiniteSet({id})
    BY <1>2, FS_Singleton
  <2>4. /\ worker'[w].plan = plan /\ worker'[w].todo = {id}
        /\ Alone(w) /\ Over(w) /\ Carries(old, worker'[w])
    BY <1>8, <2>1, <2>3
  <2>5. QED
    BY <1>1, <1>3, <1>4, <1>10, <2>2, <2>4
<1>11. QED
  BY <1>6, <1>7, <1>9, <1>10

\* One incident that was found is resolved.
LEMMA ResolveMoves ==
  ASSUME JobsInv, NEW w \in Workers, Resolve(w)
  PROVE  LET old == worker[w]
             new == worker'[w]
         IN  /\ Busy(w) /\ Alone(w) /\ Over(w) /\ old.plan \in ToResolve
             /\ new.plan \in {old.plan, Tail(old.plan)}
             /\ new.plan # <<>> => Carries(old, new)
             /\ incidents' \subseteq incidents
             /\ \A n \in Nat : old.todo = {n} =>
                  /\ incidents' = {i \in incidents : i.id # n}
                  /\ new.plan = Tail(old.plan)
<1> DEFINE old == worker[w]
           id == Min(old.todo)
           less == [old EXCEPT !.todo = @ \ {id}]
<1>1. /\ AtStep(w, "resolve") /\ incidents' = {i \in incidents : i.id # id}
      /\ Go(w, IF old.todo = {id} THEN Onward(old) ELSE less)
  BY DEF Resolve
<1>2. /\ old \in Job /\ IsFiniteSet(old.todo) /\ old.plan \in ToResolve /\ Busy(w)
      /\ old.plan # <<>>
  BY <1>1, AtAStep, ByStep
<1>3. \A n \in Nat : old.todo = {n} => id = n
  <2>1. ASSUME NEW n \in Nat, old.todo = {n} PROVE id = n
    <3>1. Min({n}) \in {n}
      BY LeastExists
    <3>2. QED
      BY <2>1, <3>1
  <2>2. QED
    BY <2>1
<1>4. /\ Alone(w) /\ Over(w) /\ (worker'[w].plan # <<>> => Carries(old, worker'[w]))
      /\ worker'[w].plan \in {old.plan, Tail(old.plan)}
      /\ old.todo = {id} => worker'[w].plan = Tail(old.plan)
  <2>1. CASE old.todo = {id}
    BY <1>1, <2>1, OnwardMoves
  <2>2. CASE old.todo # {id}
    <3>1. Go(w, less)
      BY <1>1, <2>2
    <3>2. IsFiniteSet(old.todo \ {id})
      BY <1>2, FS_RemoveElement
    <3>3. less \in Job /\ IsFiniteSet(less.todo) /\ less.plan = old.plan /\ Carries(old, less)
      BY <1>2, <3>2 DEF Job, Carries
    <3> HIDE DEF less
    <3>4. worker'[w] = less /\ Alone(w)
      BY <1>2, <3>1, <3>3, GoKeepsJobs DEF Alone
    <3>5. QED
      BY <1>2, <2>2, <3>3, <3>4 DEF Over
  <2>3. QED
    BY <2>1, <2>2
<1>5. QED
  BY <1>1, <1>2, <1>3, <1>4

(***************************************************************************)
(* One open incident.                                                      *)
(***************************************************************************)
\* The plans that have still to look, or to open.
Looking == ToLook \cup ToOpen \cup
  {<<"read", "record", "look", "row">>, <<"record", "look", "row">>, <<"row", "look">>}
Own == kind \in {"ssl", "dns_blocklist", "ai_check", "performance"}
Solo == \A v, w \in Workers : Busy(v) /\ Busy(w) => v = w

\* A handler about to open has seen that nothing stands, and nobody else works.
SoloInv ==
  Calm({"overlap"}) =>
    /\ Solo
    /\ \A w \in Workers : worker[w].plan \in ToOpen => Standing(worker[w]) = {}
    /\ \A i, j \in incidents : i.cause = j.cause \/ Own => i = j

\* What is left of a plan has nothing to open, and looks only if the plan did.
LEMMA TailLooks ==
  ASSUME NEW p \in Plans, p # <<>>
  PROVE  /\ Tail(p) \notin ToOpen
         /\ Tail(p) \in Looking => p \in Looking
<1>1. /\ \A q \in ToOpen : Head(q) = "open"
      /\ \A q \in Looking : Head(q) \in {"look", "open", "read", "record", "row"}
      /\ \A q \in Looking : Head(q) = "record" => q = <<"record", "look", "row">>
      /\ \A q \in Looking : Head(q) = "row" => q = <<"row", "look">>
      /\ \A q \in Looking : Head(q) = "read" => q = <<"read", "record", "look", "row">>
  BY DEF Looking, ToOpen, ToLook
<1>2. /\ Head(<<"observe">>) = "observe" /\ Head(<<"record", "look", "row">>) = "record"
      /\ Head(<<"record", "warn", "find", "row">>) = "record"
      /\ Head(<<"record", "warn", "row">>) = "record" /\ Head(<<"warn", "find", "row">>) = "warn"
      /\ Head(<<"warn", "row">>) = "warn" /\ Head(<<"look", "row">>) = "look"
      /\ Head(<<"find", "row">>) = "find" /\ Head(<<"row">>) = "row" /\ Head(<<"look">>) = "look"
      /\ <<"row">> # <<"row", "look">>
      /\ <<"record", "warn", "find", "row">> # <<"record", "look", "row">>
      /\ <<"record", "warn", "row">> # <<"record", "look", "row">>
  OBVIOUS
<1>3. <<>> \notin Looking /\ <<>> \notin ToOpen
  BY DEF Looking, ToOpen, ToLook
<1>4. /\ {<<"record", "look", "row">>, <<"look", "row">>, <<"look">>} \subseteq Looking
      /\ {<<"read", "record", "look", "row">>, <<"record", "look", "row">>,
          <<"row", "look">>} \subseteq Looking
      /\ ToOpen \subseteq Looking /\ ToLook \subseteq Looking
  BY DEF Looking, ToLook
<1>5. CASE p \in Beginning
  BY ZenonT(30), <1>1, <1>2, <1>3, <1>5, Tails DEF Beginning
<1>6. CASE p \in ToRead
  BY ZenonT(30), <1>1, <1>2, <1>4, <1>6, Tails DEF ToRead
<1>7. CASE p \in ToRecord
  BY ZenonT(30), <1>1, <1>2, <1>4, <1>7, Tails DEF ToRecord
<1>8. CASE p \in ToWarn
  BY <1>1, <1>2, <1>8, Tails DEF ToWarn
<1>9. CASE p \in ToLook \cup ToOpen
  <2>1. Tail(p) \in {<<"row">>, <<>>}
    BY <1>9, Tails DEF ToLook, ToOpen
  <2>2. QED
    BY <1>1, <1>2, <1>3, <2>1
<1>10. CASE p \in ToFind \cup ToResolve
  <2>1. Tail(p) \in {<<"row">>, <<>>}
    BY <1>10, Tails DEF ToFind, ToResolve
  <2>2. QED
    BY <1>1, <1>2, <1>3, <2>1
<1>11. CASE p \in ToRow
  BY <1>1, <1>2, <1>3, <1>4, <1>11, Tails DEF ToRow
<1>12. QED
  BY <1>5, <1>6, <1>7, <1>8, <1>9, <1>10, <1>11 DEF Plans

\* No step forgets what it has set aside.
LEMMA MishapsStay == ASSUME [Next]_vars PROVE mishaps \subseteq mishaps'
<1>1. ASSUME NEW w \in Workers, Work(w) PROVE mishaps \subseteq mishaps'
  BY <1>1 DEF Work, Start, Observe, ReadPrevious, Record, Warn, Look, Open, Find, Resolve,
              WriteRow, Touch
<1>2. ASSUME NEW w \in Workers, Crash(w) PROVE mishaps \subseteq mishaps'
  BY <1>2 DEF Crash
<1>3. CASE DispatchDue \/ RunCheckNow \/ IntervalPasses \/ DayPasses \/ ToggleWindow
  BY <1>3 DEF DispatchDue, RunCheckNow, IntervalPasses, DayPasses, ToggleWindow
<1>4. CASE \/ \E d \in Renewed : Renew(d)
           \/ \E v \in Verdicts : Change(v)
           \/ \E i \in incidents : ResolveByHand(i)
  BY <1>4 DEF Renew, Change, ResolveByHand
<1>5. CASE UNCHANGED vars
  BY <1>5 DEF vars
<1>6. QED
  BY <1>1, <1>2, <1>3, <1>4, <1>5 DEF Next

\* The kind of the monitor does not change.
LEMMA KindStays == ASSUME [Next]_vars PROVE kind' = kind
<1> USE DEF rest
<1>1. ASSUME NEW w \in Workers, Work(w) PROVE kind' = kind
  BY <1>1 DEF Work, Start, Observe, ReadPrevious, Record, Warn, Look, Open, Find, Resolve,
              WriteRow, Touch
<1>2. ASSUME NEW w \in Workers, Crash(w) PROVE kind' = kind
  BY <1>2 DEF Crash
<1>3. CASE DispatchDue \/ RunCheckNow \/ IntervalPasses \/ DayPasses \/ ToggleWindow
  BY <1>3 DEF DispatchDue, RunCheckNow, IntervalPasses, DayPasses, ToggleWindow
<1>4. CASE \/ \E d \in Renewed : Renew(d)
           \/ \E v \in Verdicts : Change(v)
           \/ \E i \in incidents : ResolveByHand(i)
  BY <1>4 DEF Renew, Change, ResolveByHand
<1>5. CASE UNCHANGED vars
  BY <1>5 DEF vars
<1>6. QED
  BY <1>1, <1>2, <1>3, <1>4, <1>5 DEF Next

\* Of the plans a handler can hold after a statement only Look makes one that
\* opens, and none begins to look that had not set out to.
LEMMA WorkLooks ==
  ASSUME JobsInv, NEW w \in Workers, Work(w)
  PROVE  LET old == worker[w]
             new == worker'[w]
         IN  /\ Alone(w)
             /\ \/ ~Busy(w) /\ new.plan \in Beginning /\ (\E j \in {1, 2} : Start(w, j))
                \/ Busy(w) /\ old.plan = <<"observe">> /\ new.plan = Plan(target, old.job)
                   /\ (new.plan # <<>> => new.seen = target)
                \/ Busy(w) /\ new.seen = old.seen /\ (new.plan \in Looking => old.plan \in Looking)
                \/ Busy(w) /\ new.plan = <<>>
             /\ new.plan \in ToOpen => Look(w)
<1> DEFINE old == worker[w]
           new == worker'[w]
<1>1. /\ \A p \in Beginning : p \notin ToOpen
      /\ {<<"row", "look">>, <<"touch">>, <<"row">>, <<>>, <<"look">>, <<"find">>,
          <<"look", "row">>, <<"find", "row">>, <<"record", "look", "row">>,
          <<"read", "record", "look", "row">>, <<"read", "record", "warn", "find", "row">>,
          <<"read", "record", "warn", "row">>} \cap ToOpen = {}
  BY DEF Beginning, ToOpen
<1>2. ASSUME NEW s, AtStep(w, s), Go(w, Onward(old))
      PROVE  /\ Busy(w) /\ Alone(w) /\ new.plan \notin ToOpen
             /\ \/ new.plan = <<>>
                \/ new.seen = old.seen /\ (new.plan \in Looking => old.plan \in Looking)
  BY <1>2, OnwardMoves, TailLooks DEF Carries
<1>3. ASSUME NEW j \in {1, 2}, Start(w, j)
      PROVE  ~Busy(w) /\ Alone(w) /\ new.plan \in Beginning /\ new.plan \notin ToOpen
  BY <1>1, <1>3, StartMoves
<1>4. ASSUME Observe(w)
      PROVE  /\ Busy(w) /\ Alone(w) /\ old.plan = <<"observe">> /\ new.plan = Plan(target, old.job)
             /\ new.plan # <<>> => new.seen = target
             /\ new.plan \notin ToOpen
  <2>1. kind \in AllKinds
    BY ChecksAssumption DEF JobsInv, ChecksAssumption
  <2>2. Plan(target, old.job) \in {<<"row", "look">>, <<"touch">>, <<"row">>, <<>>, <<"look">>,
          <<"find">>, <<"look", "row">>, <<"find", "row">>, <<"record", "look", "row">>,
          <<"read", "record", "look", "row">>, <<"read", "record", "warn", "find", "row">>,
          <<"read", "record", "warn", "row">>}
    BY <2>1, PlanIs DEF AllKinds
  <2>3. QED
    BY <1>1, <1>4, <2>2, ObserveMoves
<1>5. ASSUME ReadPrevious(w)
      PROVE  /\ Busy(w) /\ Alone(w) /\ new.seen = old.seen /\ new.plan \notin ToOpen
             /\ new.plan \in Looking => old.plan \in Looking
  <2>1. /\ Busy(w) /\ Alone(w) /\ new.seen = old.seen
        /\ old.plan \in ToRead \cup {<<"read", "observe">>}
        /\ Follows(old) => new.plan = Tail(old.plan)
        /\ ~Follows(old) => new.plan = <<"record">> \o SubSeq(old.plan, 4, Len(old.plan))
        /\ new.plan \in ToRecord \cup {<<"observe">>}
    BY <1>5, ReadMoves DEF Carries
  <2>2. old.plan \in Plans /\ old.plan # <<>>
    BY <1>5, AtAStep DEF ReadPrevious
  <2>3. CASE Follows(old)
    BY <2>1, <2>2, <2>3, TailLooks
  <2>4. CASE ~Follows(old)
    <3>1. ~(old.plan = <<"read", "observe">>)
      BY <2>4 DEF Follows, JobsInv
    <3>2. new.plan \in {<<"record", "row">>, <<"record", "find", "row">>}
      BY <2>1, <2>4, <3>1, Skips DEF ToRead
    <3>3. <<"record", "row">> \notin Looking /\ <<"record", "find", "row">> \notin Looking
      BY DEF Looking, ToLook, ToOpen
    <3>4. ToOpen \subseteq Looking
      BY DEF Looking
    <3>5. QED
      BY <2>1, <3>2, <3>3, <3>4
  <2>5. QED
    BY <2>3, <2>4
<1>6. ASSUME Record(w)
      PROVE  /\ Busy(w) /\ Alone(w) /\ new.seen = old.seen /\ new.plan \notin ToOpen
             /\ new.plan \in Looking => old.plan \in Looking
  <2>1. Busy(w) /\ Alone(w) /\ new.seen = old.seen /\ new.plan = Tail(old.plan)
    BY <1>6, RecordMoves DEF Carries
  <2>2. old.plan \in Plans /\ old.plan # <<>>
    BY <1>6, AtAStep DEF Record
  <2>3. QED
    BY <2>1, <2>2, TailLooks
<1>7. ASSUME Look(w)
      PROVE  /\ Busy(w) /\ Alone(w)
             /\ new.plan = <<>> \/ (new.seen = old.seen /\ old.plan \in Looking)
  <2>1. Busy(w) /\ Alone(w) /\ old.plan \in ToLook /\ (new.plan # <<>> => Carries(old, new))
    BY <1>7, LookMoves
  <2>2. QED
    BY <2>1 DEF Looking, Carries
<1>8. \A p \in ToResolve : p \notin Looking /\ p \notin ToOpen
  BY DEF ToResolve, ToOpen, Looking, ToLook
<1>9. ASSUME Find(w)
      PROVE  /\ Busy(w) /\ Alone(w) /\ new.plan \notin ToOpen
             /\ \/ new.plan = <<>>
                \/ new.seen = old.seen /\ (new.plan \in Looking => old.plan \in Looking)
  <2>1. /\ Busy(w) /\ Alone(w) /\ (new.plan # <<>> => Carries(old, new))
        /\ new.plan = Tail(old.plan) \/ new.plan \in ToResolve
    BY <1>9, FindMoves
  <2>2. old.plan \in Plans /\ old.plan # <<>>
    BY <1>9, AtAStep DEF Find
  <2>3. QED
    BY <1>8, <2>1, <2>2, TailLooks DEF Carries
<1>10. ASSUME Resolve(w)
       PROVE  /\ Busy(w) /\ Alone(w) /\ new.plan \notin ToOpen
              /\ \/ new.plan = <<>>
                 \/ new.seen = old.seen /\ (new.plan \in Looking => old.plan \in Looking)
  <2>1. /\ Busy(w) /\ Alone(w) /\ (new.plan # <<>> => Carries(old, new))
        /\ new.plan \in {old.plan, Tail(old.plan)} /\ old.plan \in ToResolve
    BY <1>10, ResolveMoves
  <2>2. old.plan \in Plans /\ old.plan # <<>>
    BY <1>10, AtAStep DEF Resolve
  <2>3. QED
    BY <1>8, <2>1, <2>2, TailLooks DEF Carries
<1>11. QED
  BY <1>2, <1>3, <1>4, <1>5, <1>6, <1>7, <1>9, <1>10 DEF Work, Warn, Open, WriteRow, Touch

\* Who works alone stays alone until a second worker takes a job, which is the
\* overlap set aside.
LEMMA SoloStays ==
  ASSUME JobsInv, SoloInv, [Next]_vars, "overlap" \notin mishaps'
  PROVE  /\ Solo /\ Solo'
         /\ \A w \in Workers : Work(w) => \A v \in Workers : Busy(v) => v = w
<1>0. "overlap" \notin mishaps
  BY MishapsStay
<1>1. Solo
  BY <1>0 DEF SoloInv, Calm
<1>2. ASSUME NEW w \in Workers, Work(w)
      PROVE  \A v \in Workers : v # w => ~Busy(v) /\ worker'[v].plan = <<>>
  <2>1. CASE Busy(w)
    BY <1>1, <1>2, <2>1, WorkLooks DEF Solo, Alone, Busy
  <2>2. CASE ~Busy(w)
    <3>1. PICK j \in {1, 2} : Start(w, j)
      BY <1>2, <2>2, WorkLooks
    <3>2. ~ \E v \in Workers : Busy(v)
      BY <3>1 DEF Start
    <3>3. QED
      BY <1>2, <3>2, WorkLooks DEF Alone, Busy
  <2>3. QED
    BY <2>1, <2>2
<1>3. Solo'
  <2>1. ASSUME NEW w \in Workers, Work(w) PROVE Solo'
    BY <1>2, <2>1 DEF Solo, Busy
  <2>2. ASSUME NEW w \in Workers, Crash(w) PROVE Solo'
    <3>1. Busy(w) /\ \A v \in Workers : v # w => worker'[v] = worker[v]
      BY <2>2, CrashKeepsJobs DEF Crash
    <3>2. QED
      BY <1>1, <3>1 DEF Solo, Busy
  <2>3. CASE DayPasses
    <3>1. \A w \in Workers : worker'[w].plan = worker[w].plan
      BY <2>3, DayKeepsJobs
    <3>2. QED
      BY <1>1, <3>1 DEF Solo, Busy
  <2>4. CASE worker' = worker
    BY <1>1, <2>4 DEF Solo, Busy
  <2>5. QED
    BY <2>1, <2>2, <2>3, <2>4
       DEF Next, DispatchDue, RunCheckNow, IntervalPasses, ToggleWindow, Renew, Change,
           ResolveByHand, vars, rest
<1>4. QED
  BY <1>1, <1>2, <1>3

\* What stands in the way of a handler is a matter of what it saw and of the
\* incidents; with fewer incidents it is no more.
LEMMA StandingShrinks ==
  ASSUME NEW w \in Workers, kind' = kind, incidents' \subseteq incidents,
         worker'[w].seen = worker[w].seen, worker'[w].rung = worker[w].rung,
         Standing(worker[w]) = {}
  PROVE  Standing(worker[w])' = {}
<1>1. CauseOf(worker[w])' = CauseOf(worker[w])
  BY DEF CauseOf
<1>2. CASE Own
  BY <1>2 DEF Own, Standing
<1>3. CASE ~Own
  <2>1. \A i \in incidents : i.cause # CauseOf(worker[w])
    BY <1>3 DEF Own, Standing
  <2>2. Standing(worker[w])' = {i \in incidents' : i.cause = CauseOf(worker[w])'}
    BY <1>3 DEF Own, Standing
  <2>3. QED
    BY <1>1, <2>1, <2>2
<1>4. QED
  BY <1>2, <1>3

\* Nobody opens beside what stands.
LEMMA SoloStep == JobsInv /\ SoloInv /\ [Next]_vars => SoloInv'
<1> SUFFICES ASSUME JobsInv, SoloInv, [Next]_vars, "overlap" \notin mishaps'
             PROVE  /\ Solo'
                    /\ \A w \in Workers : worker'[w].plan \in ToOpen => Standing(worker[w])' = {}
                    /\ \A i, j \in incidents' : i.cause = j.cause \/ Own' => i = j
  BY DEF SoloInv, Calm
<1> USE DEF rest
<1>0. kind' = kind /\ "overlap" \notin mishaps
  BY KindStays, MishapsStay
<1>1. /\ \A w \in Workers : worker[w].plan \in ToOpen => Standing(worker[w]) = {}
      /\ \A i, j \in incidents : i.cause = j.cause \/ Own => i = j
  BY <1>0 DEF SoloInv, Calm
<1>2. /\ Solo /\ Solo'
      /\ \A w \in Workers : Work(w) => \A v \in Workers : Busy(v) => v = w
  BY SoloStays
<1>3. <<>> \notin ToOpen /\ \A p \in Beginning : p \notin ToOpen
  BY DEF ToOpen, Beginning
<1>4. Own' <=> Own
  BY <1>0 DEF Own
<1>5. ASSUME NEW w \in Workers, Work(w)
      PROVE  /\ \A v \in Workers : worker'[v].plan \in ToOpen => Standing(worker[v])' = {}
             /\ \A i, j \in incidents' : i.cause = j.cause \/ Own' => i = j
  <2>1. \A v \in Workers : v # w => worker'[v].plan \notin ToOpen
    BY <1>2, <1>3, <1>5, WorkLooks DEF Alone, Busy
  <2>2. worker'[w].plan \in ToOpen => Standing(worker[w])' = {}
    <3>1. SUFFICES ASSUME worker'[w].plan \in ToOpen PROVE Standing(worker[w])' = {}
      OBVIOUS
    <3>2. Look(w)
      BY <1>5, <3>1, WorkLooks
    <3>3. worker[w].plan \in ToLook /\ worker[w].plan \in Plans /\ worker[w].plan # <<>>
      BY <3>2, AtAStep, LookMoves DEF Look
    <3>4. Tail(worker[w].plan) \notin ToOpen
      BY <3>3, TailLooks
    <3>5. Standing(worker[w]) = {} /\ worker'[w].seen = worker[w].seen
          /\ worker'[w].rung = worker[w].rung
      BY <1>3, <3>1, <3>2, <3>4, LookMoves DEF Carries
    <3>6. incidents' = incidents
      BY <3>2 DEF Look
    <3>7. QED
      BY <1>0, <3>5, <3>6, StandingShrinks
  <2>3. CASE Open(w)
    <3>1. worker[w].plan \in ToOpen
      BY <2>3, AtAStep, ByStep DEF Open
    <3>2. Standing(worker[w]) = {}
      BY <1>1, <3>1
    <3> DEFINE new == [id |-> FreshId, cause |-> CauseOf(worker[w])]
    <3>3. incidents' = incidents \cup {new}
      BY <2>3 DEF Open
    <3>4. new.cause = CauseOf(worker[w])
      OBVIOUS
    <3> HIDE DEF new
    <3>5. CASE Own
      <4>1. incidents = {}
        BY <3>2, <3>5 DEF Standing, Own
      <4>2. QED
        BY <2>1, <2>2, <3>3, <4>1
    <3>6. CASE ~Own
      <4>1. \A i \in incidents : i.cause # new.cause
        BY <3>2, <3>4, <3>6 DEF Standing, Own
      <4>2. \A i, j \in incidents' : i.cause = j.cause => i = j
        BY <1>1, <3>3, <4>1
      <4>3. QED
        BY <1>4, <2>1, <2>2, <3>6, <4>2
    <3>7. QED
      BY <3>5, <3>6
  <2>4. CASE ~Open(w)
    <3>1. incidents' \subseteq incidents
      BY <1>5, <2>4 DEF Work, Start, Observe, ReadPrevious, Record, Warn, Look, Find, Resolve,
                        WriteRow, Touch
    <3>2. QED
      BY <1>1, <1>4, <2>1, <2>2, <3>1
  <2>5. QED
    BY <2>3, <2>4
<1>6. ASSUME incidents' \subseteq incidents,
             \A v \in Workers : worker'[v].plan \in ToOpen =>
               /\ worker[v].plan \in ToOpen
               /\ worker'[v].seen = worker[v].seen /\ worker'[v].rung = worker[v].rung
      PROVE  /\ \A v \in Workers : worker'[v].plan \in ToOpen => Standing(worker[v])' = {}
             /\ \A i, j \in incidents' : i.cause = j.cause \/ Own' => i = j
  BY <1>0, <1>1, <1>4, <1>6, StandingShrinks
<1>7. ASSUME NEW w \in Workers, Crash(w)
      PROVE  /\ \A v \in Workers : worker'[v].plan \in ToOpen => Standing(worker[v])' = {}
             /\ \A i, j \in incidents' : i.cause = j.cause \/ Own' => i = j
  <2>1. /\ worker'[w].plan \in Beginning \cup {<<>>}
        /\ \A v \in Workers : v # w => worker'[v] = worker[v]
    BY <1>7, CrashKeepsJobs
  <2>2. incidents' \subseteq incidents
    BY <1>7 DEF Crash
  <2>3. \A v \in Workers : worker'[v].plan \in ToOpen => worker'[v] = worker[v]
    BY <1>3, <2>1
  <2>4. QED
    BY <1>6, <2>2, <2>3
<1>8. CASE DayPasses
  <2>1. \A v \in Workers : /\ worker'[v].plan = worker[v].plan
                           /\ worker'[v].seen = worker[v].seen /\ worker'[v].rung = worker[v].rung
    BY <1>8, DayKeepsJobs
  <2>2. incidents' \subseteq incidents
    BY <1>8 DEF DayPasses
  <2>3. QED
    BY <1>2, <1>6, <2>1, <2>2
<1>9. CASE worker' = worker /\ incidents' \subseteq incidents
  BY <1>2, <1>6, <1>9
<1>10. QED
  BY <1>2, <1>5, <1>7, <1>8, <1>9
     DEF Next, DispatchDue, RunCheckNow, IntervalPasses, ToggleWindow, Renew, Change,
         ResolveByHand, vars

\* Initially nothing is open and nobody works.
LEMMA SoloInit == Init => SoloInv
<1> SUFFICES ASSUME Init PROVE SoloInv
  OBVIOUS
<1>1. \A w \in Workers : worker[w].plan = <<>>
  BY IdleJob DEF Init
<1>2. <<>> \notin ToOpen
  BY DEF ToOpen
<1>3. incidents = {}
  BY DEF Init
<1>4. QED
  BY <1>1, <1>2, <1>3 DEF SoloInv, Solo, Busy

\* A set whose members are all the same has at most one.
LEMMA AtMostOne ==
  ASSUME NEW S, \A x, y \in S : x = y
  PROVE  Cardinality(S) <= 1
<1>1. CASE S = {}
  BY <1>1, FS_EmptySet
<1>2. CASE S # {}
  <2>1. PICK x \in S : S = {x}
    BY <1>2
  <2>2. QED
    BY <2>1, FS_Singleton
<1>3. QED
  BY <1>1, <1>2

\* OneOpenIncident (openIncident and the handlers that open by themselves):
\* whatever the order of days, renewals, changes, windows, crashes, retries and
\* manual resolves, for any number of workers, two incidents are open for one
\* problem only if checks of the monitor overlapped.
THEOREM OneOpen == Spec => []OneOpenIncident
<1>1. JobsInv /\ SoloInv => OneOpenIncident
  <2> DEFINE k == kind \in {"domain"} \cup Compared
  <2> SUFFICES ASSUME JobsInv, SoloInv, Calm({"overlap"})
               PROVE  IF k THEN \A i, j \in incidents : i.cause = j.cause => i = j
                      ELSE Cardinality(incidents) <= 1
    BY DEF OneOpenIncident
  <2>1. \A i, j \in incidents : i.cause = j.cause \/ Own => i = j
    BY DEF SoloInv
  <2>2. CASE k
    BY <2>1, <2>2
  <2>3. CASE ~k
    <3>1. kind \in AllKinds
      BY ChecksAssumption DEF JobsInv, ChecksAssumption
    <3>2. Own
      BY <2>3, <3>1 DEF Own, AllKinds, Compared
    <3>3. \A i, j \in incidents : i = j
      BY <2>1, <3>2
    <3>4. QED
      BY <2>3, <3>3, AtMostOne
  <2>4. QED
    BY <2>2, <2>3
<1>2. QED
  BY <1>1, JobsThroughout, SoloInit, SoloStep, PTL DEF Spec

(***************************************************************************)
(* Status and incidents.                                                   *)
(***************************************************************************)
Mended == kind \in {"ssl", "dns_blocklist"}
Agree == status \in {"down", "degraded"} <=> incidents # {}

\* No window means that no job began in one.
WindowInv == "window" \notin mishaps => ~window /\ \A w \in Workers : ~worker[w].inWindow

\* Where a handler stands between what it found and what it has written.
Settling(st) ==
  LET failing == Failing(st.seen, st.job)
  IN  /\ st.plan \in ToRead => kind = "ssl"
      /\ \/ st.plan \in {<<"observe">>, <<"touch">>} /\ Agree
         \/ st.plan = <<"row", "look">> /\ failing /\ Agree
         \/ st.plan \in {<<"look">>, <<"open">>} /\ status \in {"down", "degraded"}
         \/ st.plan \in {<<"read", "record", "look", "row">>, <<"record", "look", "row">>,
                         <<"look", "row">>, <<"open", "row">>} /\ failing
         \/ st.plan \in {<<"read", "record", "warn", "find", "row">>,
                         <<"record", "warn", "find", "row">>, <<"record", "find", "row">>,
                         <<"warn", "find", "row">>, <<"find", "row">>} /\ ~failing
         \/ /\ st.plan = <<"resolve", "row">> /\ ~failing
            /\ \E n \in Nat : st.todo = {n} /\ \A i \in incidents : i.id = n
         \/ st.plan = <<"row">> /\ (failing <=> incidents # {})

Undone == Calm({"overlap", "crash", "window", "resolve"})
StatusInv ==
  Mended /\ Undone =>
    /\ AtRest => Agree
    /\ \A w \in Workers : Busy(w) => Settling(worker[w])

\* A job takes the window it began in along.
LEMMA WindowStep == JobsInv /\ WindowInv /\ [Next]_vars => WindowInv'
<1> SUFFICES ASSUME JobsInv, WindowInv, [Next]_vars, "window" \notin mishaps'
             PROVE  ~window' /\ \A w \in Workers : ~worker'[w].inWindow
  BY DEF WindowInv
<1> USE DEF rest
<1>0. ~window /\ (\A w \in Workers : ~worker[w].inWindow) /\ ~Idle.inWindow
  BY MishapsStay DEF WindowInv, Idle
<1>1. ASSUME NEW w \in Workers, Work(w) PROVE ~worker'[w].inWindow /\ Alone(w) /\ window' = window
  <2>1. window' = window
    BY <1>1 DEF Work, Start, Observe, ReadPrevious, Record, Warn, Look, Open, Find, Resolve,
                WriteRow, Touch
  <2>2. Alone(w)
    BY <1>1, WorkLooks
  <2>3. ASSUME NEW j \in {1, 2}, Start(w, j) PROVE ~worker'[w].inWindow
    BY <1>0, <2>3, StartMoves
  <2>4. ASSUME NEW s, AtStep(w, s), Go(w, Onward(worker[w])) PROVE ~worker'[w].inWindow
    BY <1>0, <2>4, OnwardMoves DEF Over, Carries
  <2>5. ASSUME Observe(w) PROVE ~worker'[w].inWindow
    BY <1>0, <2>5, ObserveMoves DEF Over
  <2>6. ASSUME ReadPrevious(w) PROVE ~worker'[w].inWindow
    BY <1>0, <2>6, ReadMoves DEF Carries
  <2>7. ASSUME Record(w) PROVE ~worker'[w].inWindow
    BY <1>0, <2>7, RecordMoves DEF Carries
  <2>8. ASSUME Look(w) PROVE ~worker'[w].inWindow
    BY <1>0, <2>8, LookMoves DEF Over, Carries
  <2>9. ASSUME Find(w) PROVE ~worker'[w].inWindow
    BY <1>0, <2>9, FindMoves DEF Over, Carries
  <2>10. ASSUME Resolve(w) PROVE ~worker'[w].inWindow
    BY <1>0, <2>10, ResolveMoves DEF Over, Carries
  <2>11. ~worker'[w].inWindow
    BY <1>1, <2>3, <2>4, <2>5, <2>6, <2>7, <2>8, <2>9, <2>10
       DEF Work, Warn, Open, WriteRow, Touch
  <2>12. QED
    BY <2>1, <2>2, <2>11
<1>2. ASSUME NEW w \in Workers, Work(w)
      PROVE  ~window' /\ \A v \in Workers : ~worker'[v].inWindow
  BY <1>0, <1>1, <1>2 DEF Alone
<1>3. ASSUME NEW w \in Workers, Crash(w)
      PROVE  ~window' /\ \A v \in Workers : ~worker'[v].inWindow
  <2>1. window' = window
    BY <1>3 DEF Crash
  <2>2. QED
    BY <1>0, <1>3, <2>1, CrashKeepsJobs
<1>4. CASE DayPasses
  <2>1. window' = window
    BY <1>4 DEF DayPasses
  <2>2. QED
    BY <1>0, <1>4, <2>1, DayKeepsJobs
<1>5. CASE worker' = worker /\ window' = window
  BY <1>0, <1>5
<1>6. CASE ToggleWindow
  BY <1>6 DEF ToggleWindow
<1>7. QED
  BY <1>2, <1>3, <1>4, <1>5, <1>6
     DEF Next, DispatchDue, RunCheckNow, IntervalPasses, Renew, Change, ResolveByHand, vars

\* Every plan a settling handler can hold says where it stands.
LEMMA SettlingSays ==
  ASSUME NEW st, Settling(st)
  PROVE  LET failing == Failing(st.seen, st.job)
         IN  /\ st.plan \in ToRead => kind = "ssl"
             /\ st.plan \in {<<"observe">>, <<"touch">>} => Agree
             /\ st.plan = <<"row", "look">> => failing /\ Agree
             /\ st.plan \in {<<"look">>, <<"open">>} => status \in {"down", "degraded"}
             /\ st.plan \in {<<"read", "record", "look", "row">>, <<"record", "look", "row">>,
                             <<"look", "row">>, <<"open", "row">>} => failing
             /\ st.plan \in {<<"read", "record", "warn", "find", "row">>,
                             <<"record", "warn", "find", "row">>, <<"record", "find", "row">>,
                             <<"warn", "find", "row">>, <<"find", "row">>} => ~failing
             /\ st.plan = <<"resolve", "row">> =>
                  /\ ~failing
                  /\ \E n \in Nat : st.todo = {n} /\ \A i \in incidents : i.id = n
             /\ st.plan = <<"row">> => (failing <=> incidents # {})
             /\ st.plan \notin {<<"read", "observe">>, <<"read", "record", "warn", "row">>,
                               <<"record", "row">>, <<"record", "warn", "row">>,
                               <<"warn", "row">>, <<"find">>, <<"resolve">>}
<1> DEFINE failing == Failing(st.seen, st.job)
           one == \E n \in Nat : st.todo = {n} /\ \A i \in incidents : i.id = n
           none == incidents # {}
           bad == status \in {"down", "degraded"}
           A == {<<"observe">>, <<"touch">>}
           B == <<"row", "look">>
           C == {<<"look">>, <<"open">>}
           D == {<<"read", "record", "look", "row">>, <<"record", "look", "row">>,
                 <<"look", "row">>, <<"open", "row">>}
           E == {<<"read", "record", "warn", "find", "row">>,
                 <<"record", "warn", "find", "row">>, <<"record", "find", "row">>,
                 <<"warn", "find", "row">>, <<"find", "row">>}
           F == <<"resolve", "row">>
           G == <<"row">>
           Z == {<<"read", "observe">>, <<"read", "record", "warn", "row">>, <<"record", "row">>,
                 <<"record", "warn", "row">>, <<"warn", "row">>, <<"find">>, <<"resolve">>}
<1>1. /\ B \notin A \cup C \cup D \cup E /\ F \notin A \cup C \cup D \cup E
      /\ G \notin A \cup C \cup D \cup E /\ B # F /\ B # G /\ F # G
  OBVIOUS
<1>2. \A p \in A : p \notin C /\ p \notin D /\ p \notin E
  OBVIOUS
<1>3. \A p \in C : p \notin D /\ p \notin E
  OBVIOUS
<1>4. \A p \in D : p \notin E
  OBVIOUS
<1>0. /\ \A p \in Z : p \notin A /\ p # B /\ p \notin C
      /\ \A p \in Z : p \notin D
      /\ \A p \in Z : p \notin E
      /\ \A p \in Z : p # F /\ p # G
  OBVIOUS
<1>5. /\ st.plan \in ToRead => kind = "ssl"
      /\ \/ st.plan \in A /\ Agree
         \/ st.plan = B /\ failing /\ Agree
         \/ st.plan \in C /\ bad
         \/ st.plan \in D /\ failing
         \/ st.plan \in E /\ ~failing
         \/ st.plan = F /\ ~failing /\ one
         \/ st.plan = G /\ (failing <=> none)
  BY DEF Settling
<1>6. /\ st.plan \in A => Agree
      /\ st.plan = B => failing /\ Agree
      /\ st.plan \in C => bad
      /\ st.plan \in D => failing
      /\ st.plan \in E => ~failing
      /\ st.plan = F => ~failing /\ one
      /\ st.plan = G => (failing <=> none)
      /\ st.plan \notin Z
  <2> HIDE DEF A, B, C, D, E, F, G, Z, failing, one, none, bad
  <2>1. QED
    BY <1>0, <1>1, <1>2, <1>3, <1>4, <1>5
<1>7. QED
  BY <1>5, <1>6

\* A certificate or a blocklist check that works alone moves status and
\* incidents to where they agree again.
LEMMA WorkSettles ==
  ASSUME JobsInv, SoloInv, WindowInv, Mended, Undone,
         NEW w \in Workers, Work(w), kind' = kind,
         Busy(w) => Settling(worker[w]), ~Busy(w) => Agree
  PROVE  IF worker'[w].plan = <<>> THEN Agree' ELSE Settling(worker[w])'
<1> USE DEF rest
<1> DEFINE old == worker[w]
           new == worker'[w]
           failing == Failing(old.seen, old.job)
<1>0. /\ "overlap" \notin mishaps /\ "window" \notin mishaps
      /\ kind \in {"ssl", "dns_blocklist"} /\ kind \in AllKinds
  BY ChecksAssumption DEF Undone, Calm, Mended, JobsInv, ChecksAssumption
<1>1. SoloInv /\ Calm({"overlap"}) /\ \A i, j \in incidents : i = j
  <2>1. Own
    BY <1>0 DEF Own
  <2>2. QED
    BY <1>0, <2>1 DEF SoloInv, Calm
<1>2. ASSUME Carries(old, new) PROVE Failing(worker[w].seen, worker[w].job)' <=> failing
  BY <1>2 DEF Carries, Failing
<1>3. Busy(w) => ~old.inWindow
  BY <1>0 DEF WindowInv
<1>4. ASSUME NEW j \in {1, 2}, Start(w, j)
      PROVE  IF new.plan = <<>> THEN Agree' ELSE Settling(worker[w])'
  <2>1. new.plan \in Beginning /\ ~Busy(w)
    BY <1>4, StartMoves
  <2>2. JobsInv'
    BY WorkKeepsJobs
  <2>3. new.plan \in {<<"observe">>, <<"touch">>}
    BY <1>0, <2>1, <2>2 DEF Beginning, JobsInv
  <2>4. UNCHANGED <<status, incidents>>
    BY <1>4 DEF Start
  <2>5. <<"observe">> \notin ToRead /\ <<"touch">> \notin ToRead /\ <<"observe">> # <<>>
        /\ <<"touch">> # <<>>
    BY DEF ToRead
  <2>6. Agree'
    BY <2>1, <2>4 DEF Agree
  <2>7. QED
    BY <2>3, <2>5, <2>6 DEF Settling
<1>5. ASSUME Observe(w)
      PROVE  IF new.plan = <<>> THEN Agree' ELSE Settling(worker[w])'
  <2>1. /\ Busy(w) /\ old.plan = <<"observe">> /\ new.plan = Plan(target, old.job)
        /\ new.plan # <<>> => new.seen = target /\ new.job = old.job
    BY <1>5, ObserveMoves
  <2>2. Agree
    BY <2>1 DEF Settling
  <2>3. UNCHANGED <<status, incidents>>
    BY <1>5 DEF Observe
  <2>4. Agree'
    BY <2>2, <2>3 DEF Agree
  <2> DEFINE fails == Failing(target, old.job)
  <2>5. new.plan # <<>> => (Failing(worker[w].seen, worker[w].job)' <=> fails)
    BY <2>1 DEF Failing
  <2>6. kind = "ssl" =>
          /\ target.verdict = "none" => fails
          /\ \/ new.plan = <<"row", "look">> /\ target.verdict = "none"
             \/ new.plan = <<"read", "record", "look", "row">> /\ fails
             \/ new.plan = <<"read", "record", "warn", "find", "row">> /\ ~fails
    BY <1>0, <2>1, PlanIs DEF Failing
  <2>7. kind = "dns_blocklist" =>
          \/ new.plan = <<"touch">>
          \/ new.plan = <<"look", "row">> /\ fails
          \/ new.plan = <<"find", "row">> /\ ~fails
    BY <1>0, <2>1, PlanIs
  <2>8. /\ <<"touch">> \notin ToRead /\ <<"look", "row">> \notin ToRead
        /\ <<"find", "row">> \notin ToRead
        /\ <<"touch">> # <<>> /\ <<"look", "row">> # <<>> /\ <<"find", "row">> # <<>>
        /\ <<"row", "look">> # <<>> /\ <<"read", "record", "look", "row">> # <<>>
        /\ <<"read", "record", "warn", "find", "row">> # <<>>
    BY DEF ToRead
  <2> HIDE DEF fails
  <2>9. CASE kind = "ssl"
    BY <2>4, <2>5, <2>6, <2>8, <2>9 DEF Settling
  <2>10. CASE kind = "dns_blocklist"
    BY <2>4, <2>5, <2>7, <2>8, <2>10 DEF Settling
  <2>11. QED
    BY <1>0, <2>9, <2>10
<1> DEFINE settled == IF new.plan = <<>> THEN Agree' ELSE Settling(worker[w])'
           failed == {<<"record", "look", "row">>, <<"look", "row">>, <<"open", "row">>}
           passed == {<<"record", "warn", "find", "row">>, <<"record", "find", "row">>,
                      <<"warn", "find", "row">>, <<"find", "row">>}
\* The plans of a handler under way say whether it failed.
<1>6. ASSUME Carries(old, new),
             \/ new.plan \in failed /\ failing
             \/ new.plan \in passed /\ ~failing
      PROVE  settled
  <2>1. /\ \A q \in failed \cup passed : q # <<>>
        /\ \A q \in failed \cup passed : Head(q) # "read"
        /\ \A q \in ToRead : Head(q) = "read"
    BY DEF ToRead
  <2>2. Failing(worker[w].seen, worker[w].job)' <=> failing
    BY <1>2, <1>6
  <2>3. QED
    BY <1>6, <2>1, <2>2 DEF Settling
<1>7. ASSUME Busy(w)
      PROVE  /\ Settling(old) /\ old.plan \in Plans /\ old.plan # <<>>
             /\ old.plan \notin {<<"read", "observe">>, <<"read", "record", "warn", "row">>,
                               <<"record", "row">>, <<"record", "warn", "row">>,
                               <<"warn", "row">>, <<"find">>, <<"resolve">>}
  BY <1>7, SettlingSays DEF Busy, JobsInv, Job
<1>8. ASSUME ReadPrevious(w) PROVE settled
  <2>1. Busy(w) /\ Carries(old, new) /\ old.plan \in ToRead \cup {<<"read", "observe">>}
    BY <1>8, ReadMoves
  <2>2. old.plan \in {<<"read", "record", "look", "row">>,
                     <<"read", "record", "warn", "find", "row">>}
    BY <1>7, <2>1 DEF ToRead
  <2>3. kind = "ssl"
    BY <1>7, <2>1, <2>2, SettlingSays DEF ToRead
  <2>4. CASE old.plan = <<"read", "record", "look", "row">>
    <3>1. failing
      BY <1>7, <2>1, <2>4, SettlingSays
    <3>2. <<"read", "record", "look", "row">>[3] # "warn"
      OBVIOUS
    <3>3. Follows(old)
      BY <2>3, <2>4, <3>2 DEF Follows
    <3>4. new.plan = <<"record", "look", "row">>
      BY <1>8, <2>4, <3>3, ReadMoves, Tails
    <3>5. QED
      BY <1>6, <2>1, <3>1, <3>4
  <2>5. CASE old.plan = <<"read", "record", "warn", "find", "row">>
    <3>1. ~failing
      BY <1>7, <2>1, <2>5, SettlingSays
    <3>2. new.plan \in {<<"record", "warn", "find", "row">>, <<"record", "find", "row">>}
      BY <1>8, <2>5, ReadMoves, Tails, Skips
    <3>3. QED
      BY <1>6, <2>1, <3>1, <3>2
  <2>6. QED
    BY <2>2, <2>4, <2>5
<1>9. ASSUME Record(w) PROVE settled
  <2>1. Busy(w) /\ Carries(old, new) /\ old.plan \in ToRecord /\ new.plan = Tail(old.plan)
    BY <1>9, RecordMoves
  <2>2. CASE old.plan = <<"record", "look", "row">>
    BY <1>6, <1>7, <2>1, <2>2, SettlingSays, Tails
  <2>3. CASE old.plan = <<"record", "find", "row">>
    BY <1>6, <1>7, <2>1, <2>3, SettlingSays, Tails
  <2>4. CASE old.plan = <<"record", "warn", "find", "row">>
    BY <1>6, <1>7, <2>1, <2>4, SettlingSays, Tails
  <2>5. QED
    BY <1>7, <2>1, <2>2, <2>3, <2>4 DEF ToRecord
<1>10. ASSUME Warn(w) PROVE settled
  <2>1. AtStep(w, "warn") /\ Go(w, Onward(old))
    BY <1>10 DEF Warn
  <2>2. Busy(w) /\ old.plan \in ToWarn /\ new.plan = Tail(old.plan)
        /\ (new.plan # <<>> => Carries(old, new))
    BY <2>1, OnwardMoves, ByStep
  <2>3. old.plan = <<"warn", "find", "row">>
    BY <1>7, <2>2 DEF ToWarn
  <2>4. new.plan = <<"find", "row">> /\ new.plan # <<>>
    BY <2>2, <2>3, Tails
  <2>5. ~failing
    BY <1>7, <2>2, <2>3, SettlingSays
  <2>6. QED
    BY <1>6, <2>2, <2>4, <2>5
\* Before the row is written nothing else is left to do.
<1>11. ASSUME new.plan = <<"row">>, Carries(old, new), failing <=> incidents' # {}
       PROVE  settled
  <2>1. <<"row">> \notin ToRead /\ <<"row">> # <<>>
    BY DEF ToRead
  <2>2. QED
    BY <1>2, <1>11, <2>1 DEF Settling
<1>12. ASSUME Look(w) PROVE settled
  <2>1. /\ Busy(w) /\ old.plan \in ToLook
        /\ new.plan # <<>> => Carries(old, new)
    BY <1>12, LookMoves
  <2> DEFINE opens == incidents = {}
  <2>2. /\ opens => /\ old.plan = <<"look", "row">> => new.plan = <<"open", "row">>
                    /\ old.plan = <<"look">> => new.plan = <<"open">>
        /\ ~opens => new.plan = Tail(old.plan)
    BY <1>0, <1>3, <1>12, <2>1, LookMoves DEF Standing
  <2>3. UNCHANGED <<status, incidents>>
    BY <1>12 DEF Look
  <2>4. CASE old.plan = <<"look", "row">>
    <3>1. failing
      BY <1>7, <2>1, <2>4, SettlingSays
    <3>2. CASE opens
      <4>1. new.plan = <<"open", "row">> /\ new.plan # <<>>
        BY <2>2, <2>4, <3>2
      <4>2. QED
        BY <1>6, <2>1, <3>1, <4>1
    <3>3. CASE ~opens
      <4>1. new.plan = <<"row">> /\ new.plan # <<>>
        BY <2>2, <2>4, <3>3, Tails
      <4>2. QED
        BY <1>11, <2>1, <2>3, <3>1, <3>3, <4>1
    <3>4. QED
      BY <3>2, <3>3
  <2>5. CASE old.plan = <<"look">>
    <3>1. status \in {"down", "degraded"}
      BY <1>7, <2>1, <2>5, SettlingSays
    <3>2. CASE opens
      <4>1. new.plan = <<"open">>
        BY <2>2, <2>5, <3>2
      <4>2. <<"open">> \notin ToRead /\ <<"open">> # <<>>
        BY DEF ToRead
      <4>3. QED
        BY <2>3, <3>1, <4>1, <4>2 DEF Settling
    <3>3. CASE ~opens
      <4>1. new.plan = <<>>
        BY <2>2, <2>5, <3>3, Tails
      <4>2. QED
        BY <2>3, <3>1, <3>3, <4>1 DEF Agree
    <3>4. QED
      BY <3>2, <3>3
  <2>6. QED
    BY <2>1, <2>4, <2>5 DEF ToLook
<1>13. ASSUME Open(w) PROVE settled
  <2>1. AtStep(w, "open") /\ Go(w, Onward(old)) /\ UNCHANGED status /\ incidents' # {}
    BY <1>13 DEF Open
  <2>2. Busy(w) /\ old.plan \in ToOpen /\ new.plan = Tail(old.plan)
        /\ (new.plan # <<>> => Carries(old, new))
    BY <2>1, OnwardMoves, ByStep
  <2>3. CASE old.plan = <<"open", "row">>
    <3>1. new.plan = <<"row">> /\ new.plan # <<>>
      BY <2>2, <2>3, Tails
    <3>2. failing
      BY <1>7, <2>2, <2>3, SettlingSays
    <3>3. QED
      BY <1>11, <2>1, <2>2, <3>1, <3>2
  <2>4. CASE old.plan = <<"open">>
    <3>1. new.plan = <<>>
      BY <2>2, <2>4, Tails
    <3>2. status \in {"down", "degraded"}
      BY <1>7, <2>2, <2>4, SettlingSays
    <3>3. QED
      BY <2>1, <3>1, <3>2 DEF Agree
  <2>5. QED
    BY <2>2, <2>3, <2>4 DEF ToOpen
<1>14. ASSUME Find(w) PROVE settled
  <2>1. Busy(w) /\ old.plan = <<"find", "row">> /\ (new.plan # <<>> => Carries(old, new))
    BY <1>7, <1>14, FindMoves DEF ToFind
  <2>2. ~failing
    BY <1>7, <2>1, SettlingSays
  <2>3. incidents' = incidents
    BY <1>14, Zenon DEF Find
  <2>4. \/ incidents = {} /\ new.plan = <<"row">>
        \/ new.plan = <<"resolve", "row">> /\ \E i \in incidents : new.todo = {i.id}
    BY <1>0, <1>14, <2>1, FindMoves, Tails
  <2>5. CASE incidents = {} /\ new.plan = <<"row">>
    <3>1. new.plan # <<>>
      BY <2>5
    <3>2. QED
      BY <1>11, <2>1, <2>2, <2>3, <2>5, <3>1
  <2>6. CASE new.plan = <<"resolve", "row">> /\ \E i \in incidents : new.todo = {i.id}
    <3>1. <<"resolve", "row">> \notin ToRead /\ <<"resolve", "row">> # <<>>
      BY DEF ToRead
    <3>2. PICK i \in incidents : new.todo = {i.id}
      BY <2>6
    <3>3. i.id \in Nat /\ \A k \in incidents' : k.id = i.id
      BY <1>1, <2>3 DEF JobsInv
    <3>4. Failing(worker[w].seen, worker[w].job)' <=> failing
      BY <1>2, <2>1, <2>6, <3>1
    <3>5. QED
      BY <2>2, <2>6, <3>1, <3>2, <3>3, <3>4 DEF Settling
  <2>7. QED
    BY <2>4, <2>5, <2>6
<1>15. ASSUME Resolve(w) PROVE settled
  <2>1. Busy(w) /\ old.plan = <<"resolve", "row">> /\ (new.plan # <<>> => Carries(old, new))
    BY <1>7, <1>15, ResolveMoves DEF ToResolve
  <2>2. ~failing
    BY <1>7, <2>1, SettlingSays
  <2>3. PICK n \in Nat : old.todo = {n} /\ \A i \in incidents : i.id = n
    BY <1>7, <2>1, SettlingSays
  <2>4. incidents' = {i \in incidents : i.id # n} /\ new.plan = Tail(old.plan)
    BY <1>15, <2>3, ResolveMoves
  <2>5. incidents' = {} /\ new.plan = <<"row">> /\ new.plan # <<>>
    BY <2>1, <2>3, <2>4, Tails
  <2>6. QED
    BY <1>11, <2>1, <2>2, <2>5
<1>16. ASSUME WriteRow(w) PROVE settled
  <2>1. /\ AtStep(w, "row") /\ Go(w, Onward(old)) /\ UNCHANGED incidents
        /\ status' = StatusOf(old)
    BY <1>16 DEF WriteRow
  <2>2. Busy(w) /\ old.plan \in ToRow /\ new.plan = Tail(old.plan)
    BY <2>1, OnwardMoves, ByStep
  <2>3. status' \in {"down", "degraded"} <=> failing
    BY <1>0, <2>1 DEF StatusOf
  <2>4. CASE old.plan = <<"row">>
    <3>1. new.plan = <<>>
      BY <2>2, <2>4, Tails
    <3>2. failing <=> incidents # {}
      BY <1>7, <2>2, <2>4, SettlingSays
    <3>3. QED
      BY <2>1, <2>3, <3>1, <3>2 DEF Agree
  <2>5. CASE old.plan = <<"row", "look">>
    <3>1. new.plan = <<"look">>
      BY <2>2, <2>5, Tails
    <3>2. status' \in {"down", "degraded"}
      BY <1>7, <2>2, <2>3, <2>5, SettlingSays
    <3>3. <<"look">> \notin ToRead /\ <<"look">> # <<>>
      BY DEF ToRead
    <3>4. QED
      BY <3>1, <3>2, <3>3 DEF Settling
  <2>6. QED
    BY <2>2, <2>4, <2>5 DEF ToRow
<1>17. ASSUME Touch(w) PROVE settled
  <2>1. AtStep(w, "touch") /\ Go(w, Onward(old)) /\ UNCHANGED <<status, incidents>>
    BY <1>17 DEF Touch
  <2>2. Busy(w) /\ old.plan = <<"touch">> /\ new.plan = Tail(old.plan)
    BY <2>1, OnwardMoves, ByStep
  <2>3. new.plan = <<>> /\ Agree
    BY <1>7, <2>2, SettlingSays, Tails
  <2>4. QED
    BY <2>1, <2>3 DEF Agree
<1>18. QED
  BY <1>4, <1>5, <1>8, <1>9, <1>10, <1>12, <1>13, <1>14, <1>15, <1>16, <1>17 DEF Work

\* The worker that moves settles; nothing else moves status or incidents.
LEMMA StatusStep ==
  JobsInv /\ SoloInv /\ WindowInv /\ StatusInv /\ [Next]_vars => StatusInv'
<1> SUFFICES ASSUME JobsInv, SoloInv, WindowInv, StatusInv, [Next]_vars, Mended', Undone'
             PROVE  (AtRest => Agree)' /\ \A w \in Workers : (Busy(w) => Settling(worker[w]))'
  BY DEF StatusInv
<1> USE DEF rest
<1>0. kind' = kind /\ mishaps \subseteq mishaps'
  BY KindStays, MishapsStay
<1>1. Mended /\ Undone
  BY <1>0 DEF Mended, Undone, Calm
<1>2. (AtRest => Agree) /\ \A w \in Workers : Busy(w) => Settling(worker[w])
  BY <1>1 DEF StatusInv
<1>3. /\ "overlap" \notin mishaps' /\ "crash" \notin mishaps'
      /\ "window" \notin mishaps' /\ "resolve" \notin mishaps'
  BY DEF Undone, Calm
<1>4. \A w \in Workers : Work(w) => \A v \in Workers : Busy(v) => v = w
  BY <1>3, SoloStays
<1>5. ASSUME NEW w \in Workers, Work(w)
      PROVE  (AtRest => Agree)' /\ \A v \in Workers : (Busy(v) => Settling(worker[v]))'
  <2>1. (Busy(w) => Settling(worker[w])) /\ (~Busy(w) => Agree)
    BY <1>2, <1>4, <1>5 DEF AtRest
  <2>2. IF worker'[w].plan = <<>> THEN Agree' ELSE Settling(worker[w])'
    BY <1>0, <1>1, <1>5, <2>1, WorkSettles
  <2>3. \A v \in Workers : v # w => worker'[v].plan = <<>>
    BY <1>4, <1>5, WorkLooks DEF Alone, Busy
  <2>4. (AtRest => Agree)'
    BY <2>2 DEF AtRest, Busy
  <2>5. ASSUME NEW v \in Workers PROVE (Busy(v) => Settling(worker[v]))'
    <3>1. CASE v = w
      BY <2>2, <3>1 DEF Busy
    <3>2. CASE v # w
      BY <2>3, <3>2 DEF Busy
    <3>3. QED
      BY <3>1, <3>2
  <2>6. QED
    BY <2>4, <2>5
<1>6. ASSUME UNCHANGED <<status, incidents>>,
             \A w \in Workers : /\ worker'[w].plan = worker[w].plan
                                /\ worker'[w].seen = worker[w].seen
                                /\ worker'[w].job = worker[w].job
                                /\ worker'[w].todo = worker[w].todo
      PROVE  (AtRest => Agree)' /\ \A w \in Workers : (Busy(w) => Settling(worker[w]))'
  <2>1. (AtRest' <=> AtRest) /\ (Agree' <=> Agree)
    BY <1>6 DEF AtRest, Busy, Agree
  <2>2. ASSUME NEW w \in Workers, Busy(w)'
        PROVE  Settling(worker[w])'
    <3>1. Settling(worker[w])
      BY <1>2, <1>6, <2>2 DEF Busy
    <3>2. Failing(worker[w].seen, worker[w].job)' <=> Failing(worker[w].seen, worker[w].job)
      BY <1>0, <1>6 DEF Failing
    <3>3. QED
      BY <1>0, <1>6, <2>1, <3>1, <3>2 DEF Settling
  <2>3. QED
    BY <1>2, <2>1, <2>2
<1>7. ASSUME NEW w \in Workers, Crash(w) PROVE FALSE
  BY <1>3, <1>7 DEF Crash
<1>8. ~ToggleWindow /\ \A i \in incidents : ~ResolveByHand(i)
  BY <1>3 DEF ToggleWindow, ResolveByHand
<1>9. CASE DayPasses
  <2>1. UNCHANGED <<status, incidents>>
    BY <1>9 DEF DayPasses
  <2>2. QED
    BY <1>6, <1>9, <2>1, DayKeepsJobs
<1>10. CASE UNCHANGED <<worker, status, incidents>>
  BY <1>6, <1>10
<1>11. \/ \E w \in Workers : Work(w)
       \/ DayPasses
       \/ UNCHANGED <<worker, status, incidents>>
  <2>1. ASSUME NEW d, Renew(d) PROVE UNCHANGED <<worker, status, incidents>>
    BY <2>1 DEF Renew
  <2>2. ASSUME NEW v, Change(v) PROVE UNCHANGED <<worker, status, incidents>>
    BY <2>2 DEF Change
  <2>3. ASSUME DispatchDue \/ RunCheckNow \/ IntervalPasses \/ UNCHANGED vars
        PROVE  UNCHANGED <<worker, status, incidents>>
    BY <2>3 DEF DispatchDue, RunCheckNow, IntervalPasses, vars
  <2>4. QED
    BY <1>7, <1>8, <2>1, <2>2, <2>3 DEF Next
<1>12. QED
  BY <1>5, <1>9, <1>10, <1>11

\* Nothing has been found yet, and nothing is open.
LEMMA StatusInit == Init => WindowInv /\ StatusInv
<1> SUFFICES ASSUME Init PROVE WindowInv /\ StatusInv
  OBVIOUS
<1>1. \A w \in Workers : worker[w].plan = <<>> /\ ~worker[w].inWindow
  BY IdleJob DEF Init, Idle
<1>2. incidents = {} /\ status = "unknown" /\ window = FALSE
  BY DEF Init
<1>3. Agree
  BY <1>2 DEF Agree
<1>4. QED
  BY <1>1, <1>2, <1>3 DEF WindowInv, StatusInv, Busy

\* StatusAgrees (RunSslCheck, RunBlocklistCheck: the incident and the
\* row are two statements, in either order): between the checks of a
\* certificate or of a blocklist the monitor is down or degraded exactly while
\* an incident is open, for any ladder and any sequence of days, renewals and
\* answers, as long as checks do not overlap or die and nobody moves a window
\* or resolves by hand.
THEOREM StatusAndIncidentsAgree == Spec => []StatusAgrees
<1>1. StatusInv => StatusAgrees
  BY DEF StatusInv, StatusAgrees, Mended, Undone, Agree
<1>2. QED
  BY <1>1, JobsThroughout, SoloInit, SoloStep, StatusInit, StatusStep, WindowStep, PTL
     DEF Spec

(***************************************************************************)
(* The ladder of warnings.                                                 *)
(***************************************************************************)
Laddered == kind \in {"ssl", "domain"}
Rungs == ToRead \cup ToRecord \cup ToWarn
Warning == ToWarn \cup
  {<<"read", "record", "warn", "find", "row">>, <<"read", "record", "warn", "row">>,
   <<"record", "warn", "find", "row">>, <<"record", "warn", "row">>}

\* One reading of the target is not later than another.
Before(s, t) == s.serial <= t.serial /\ (s.serial = t.serial => t.days <= s.days)

\* The handler holds the rung of what it saw, and nobody was told of it yet.
NotYetWarned(st) ==
  /\ st.rung # None /\ st.rung = CrossedThreshold(st.seen.days)
  /\ <<st.seen.serial, st.rung>> \notin warned

\* What was announced is no further down the ladder than the stored row.
AllWarned ==
  \A a \in warned :
    /\ a \in Nat \X Nat /\ 1 <= a[1] /\ a[1] <= history.serial
    /\ a[1] = history.serial => /\ CrossedThreshold(history.days) # None
                                /\ CrossedThreshold(history.days) <= a[2]

\* A reading lies between the stored row and the target; past the record the
\* stored row is the reading.
OnLadder(st) ==
  /\ st.plan \in ToRead \cup ToRecord =>
       /\ Before(history, st.seen) /\ Before(st.seen, target)
       /\ st.seen.serial # 0 /\ st.stamp = st.seen.days
  /\ st.plan \in ToRecord \cap Warning => NotYetWarned(st)
  /\ st.plan \in ToWarn =>
       /\ NotYetWarned(st)
       /\ history.serial = st.seen.serial /\ history.days = st.seen.days
       /\ st.seen.serial # 0

Orderly == Calm({"overlap", "crash", "crossed"})
WaitInv ==
  /\ ~Laddered => \A w \in Workers : worker[w].plan \notin Warning
  /\ "crossed" \notin mishaps => \A w \in Workers : worker[w].elapsed = 0
LadderInv ==
  /\ Orderly => ~repeated
  /\ Orderly /\ Laddered =>
       /\ AllWarned
       /\ Before(history, target)
       /\ \A w \in Workers : OnLadder(worker[w])

\* Fewer days are never on a higher rung.
LEMMA RungFalls ==
  ASSUME NEW d \in Int, NEW e \in Int, d <= e, CrossedThreshold(e) # None
  PROVE  CrossedThreshold(d) # None /\ CrossedThreshold(d) <= CrossedThreshold(e)
<1>1. CrossedThreshold(e) \in Thresholds /\ CrossedThreshold(e) \in Nat
      /\ e <= CrossedThreshold(e)
  BY RungIs
<1>2. d <= CrossedThreshold(e)
  BY <1>1
<1>3. QED
  BY <1>1, <1>2, RungIs

\* The plans that are past the warning, or had none to begin with.
LEMMA PastTheLadder ==
  \A p \in {<<>>} \cup Beginning \cup ToLook \cup ToOpen \cup ToFind \cup ToResolve \cup ToRow :
    p \notin Rungs /\ p \notin Warning
<1>1. Warning \subseteq Rungs
  BY DEF Warning, Rungs, ToRead, ToRecord
<1>2. \A q \in Rungs : Head(q) \in {"read", "record", "warn"} /\ q # <<>>
                       /\ q # <<"read", "observe">>
  <2>1. \A q \in ToRead : Head(q) = "read" /\ q # <<>> /\ q # <<"read", "observe">>
    BY DEF ToRead
  <2>2. \A q \in ToRecord : Head(q) = "record" /\ q # <<>> /\ q # <<"read", "observe">>
    BY DEF ToRecord
  <2>3. \A q \in ToWarn : Head(q) = "warn" /\ q # <<>> /\ q # <<"read", "observe">>
    BY DEF ToWarn
  <2>4. QED
    BY <2>1, <2>2, <2>3 DEF Rungs
<1>3. \A q \in Beginning : q = <<"read", "observe">> \/ Head(q) \in {"observe", "touch"}
  BY DEF Beginning
<1>4. (\A q \in ToLook : Head(q) = "look") /\ (\A q \in ToOpen : Head(q) = "open")
  BY DEF ToLook, ToOpen
<1>5. (\A q \in ToFind : Head(q) = "find") /\ (\A q \in ToResolve : Head(q) = "resolve")
      /\ (\A q \in ToRow : Head(q) = "row")
  BY DEF ToFind, ToResolve, ToRow
<1>6. QED
  BY <1>1, <1>2, <1>3, <1>4, <1>5

\* What is left of a plan leaves the reading and recording behind, and warns
\* only if the plan did.
LEMMA TailClimbs ==
  ASSUME NEW p \in Plans, p # <<>>
  PROVE  /\ Tail(p) \in Warning => p \in Warning
         /\ p \notin ToRead \cup ToRecord => Tail(p) \notin Rungs
         /\ p \in ToRecord /\ Tail(p) \in Rungs => Tail(p) \in ToWarn /\ p \in Warning
<1>1. \A q \in {<<"observe">>, <<"row">>, <<"look">>, <<>>, <<"look", "row">>, <<"find", "row">>} :
        q \notin Rungs /\ q \notin Warning
  BY PastTheLadder DEF Beginning, ToRow, ToLook, ToFind
<1>2. CASE p \in ToRead
  <2>1. <<"record", "look", "row">> \notin Warning
    BY DEF Warning, ToWarn
  <2>2. p \notin ToRecord
    BY <1>2 DEF ToRead, ToRecord
  <2>3. QED
    BY <1>2, <2>1, <2>2, Tails DEF ToRead, Warning
<1>3. CASE p \in ToRecord
  BY <1>1, <1>3, Tails DEF ToRecord, ToWarn, Warning
<1>4. CASE p \in ToWarn \cup Beginning
  BY <1>1, <1>4, Tails DEF ToWarn, Beginning
<1>5. CASE p \in ToLook \cup ToOpen \cup ToFind \cup ToResolve \cup ToRow
  BY <1>1, <1>5, Tails DEF ToLook, ToOpen, ToFind, ToResolve, ToRow
<1>6. QED
  BY <1>2, <1>3, <1>4, <1>5 DEF Plans

\* What each statement does to the wait and to the place on the ladder.
LEMMA WorkClimbs ==
  ASSUME JobsInv, NEW w \in Workers, Work(w)
  PROVE  LET old == worker[w]
             new == worker'[w]
         IN  /\ Alone(w)
             /\ old.elapsed = 0 => new.elapsed = 0
             /\ Laddered \/ (new.plan \in Warning => old.plan \in Warning)
             /\ new.plan \in Rungs => Observe(w) \/ ReadPrevious(w) \/ Record(w)
<1> DEFINE old == worker[w]
           new == worker'[w]
           climbs == /\ Alone(w)
                     /\ old.elapsed = 0 => new.elapsed = 0
                     /\ Laddered \/ (new.plan \in Warning => old.plan \in Warning)
                     /\ new.plan \in Rungs => Observe(w) \/ ReadPrevious(w) \/ Record(w)
<1>0. Idle.elapsed = 0 /\ kind \in AllKinds
  BY ChecksAssumption DEF Idle, JobsInv, ChecksAssumption
<1>1. ASSUME NEW j \in {1, 2}, Start(w, j) PROVE climbs
  BY <1>1, StartMoves, PastTheLadder
<1>2. ASSUME Observe(w) PROVE climbs
  <2>1. ~Laddered => new.plan \notin Warning
    <3>1. /\ {<<"row">>, <<"touch">>, <<"look", "row">>, <<"find", "row">>, <<"look">>,
              <<"find">>, <<>>} \subseteq {<<>>} \cup Beginning \cup ToLook \cup ToFind \cup ToRow
          /\ <<"read", "record", "look", "row">> \notin Warning
          /\ <<"record", "look", "row">> \notin Warning
      BY DEF Beginning, ToLook, ToFind, ToRow, Warning, ToWarn
    <3>2. \A p \in {<<"row">>, <<"touch">>, <<"look", "row">>, <<"find", "row">>, <<"look">>,
                    <<"find">>, <<>>} : p \notin Warning
      BY <3>1, PastTheLadder
    <3>3. new.plan = Plan(target, old.job)
      BY <1>2, ObserveMoves
    <3> DEFINE p == Plan(target, old.job)
               some == {<<"row">>, <<"touch">>, <<"look", "row">>, <<"find", "row">>, <<"look">>,
                        <<"find">>, <<>>, <<"read", "record", "look", "row">>,
                        <<"record", "look", "row">>}
    <3>4. ~Laddered => p \in some
      BY <1>0, PlanIs DEF Laddered, AllKinds
    <3>5. \A q \in some : q \notin Warning
      BY <3>1, <3>2
    <3> HIDE DEF p, some
    <3>6. QED
      BY <3>3, <3>4, <3>5 DEF p
  <2>2. QED
    BY <1>0, <1>2, <2>1, ObserveMoves DEF Over
<1>3. ASSUME ReadPrevious(w) PROVE climbs
  <2>1. /\ Busy(w) /\ Alone(w) /\ Carries(old, new)
        /\ old.plan \in ToRead \cup {<<"read", "observe">>}
        /\ new.plan \in {Tail(old.plan)} \cup
                          {<<"record">> \o SubSeq(old.plan, 4, Len(old.plan))}
        /\ new.plan \in ToRecord \cup {<<"observe">>}
    BY <1>3, ReadMoves
  <2>2. {<<"record", "row">>, <<"record", "find", "row">>, <<"record", "look", "row">>,
         <<"observe">>} \cap Warning = {}
    BY DEF Warning, ToWarn
  <2>3. new.plan \in Warning => old.plan \in Warning
    <3>1. CASE old.plan = <<"read", "observe">>
      <4>1. Tail(old.plan) = <<"observe">>
        BY <3>1, Tails
      <4>2. Follows(old)
        BY <3>1 DEF Follows, JobsInv
      <4>3. new.plan = <<"observe">>
        BY <1>3, <4>1, <4>2, ReadMoves
      <4>4. QED
        BY <2>2, <4>3
    <3>2. CASE old.plan = <<"read", "record", "look", "row">>
      BY <2>1, <2>2, <3>2, Tails, Skips
    <3>3. CASE old.plan \in {<<"read", "record", "warn", "find", "row">>,
                             <<"read", "record", "warn", "row">>}
      BY <3>3 DEF Warning
    <3>4. QED
      BY <2>1, <3>1, <3>2, <3>3 DEF ToRead
  <2>4. QED
    BY <1>3, <2>1, <2>3 DEF Carries
<1>4. ASSUME Record(w) PROVE climbs
  <2>1. /\ Alone(w) /\ old.plan \in ToRecord /\ new.plan = Tail(old.plan) /\ Carries(old, new)
    BY <1>4, RecordMoves
  <2>2. old.plan \in Plans /\ old.plan # <<>>
    BY <1>4, AtAStep DEF Record
  <2>3. QED
    BY <1>4, <2>1, <2>2, TailClimbs DEF Carries
<1>5. ASSUME NEW s \in {"warn", "open", "row", "touch"}, AtStep(w, s), Go(w, Onward(old))
      PROVE  climbs
  <2>1. /\ Alone(w) /\ Over(w) /\ old.plan \in Plans /\ old.plan # <<>>
        /\ Head(old.plan) = s /\ new.plan = Tail(old.plan)
        /\ new.plan # <<>> => Carries(old, new)
    BY <1>5, OnwardMoves
  <2>2. /\ \A q \in ToRead : Head(q) = "read"
        /\ \A q \in ToRecord : Head(q) = "record"
    BY DEF ToRead, ToRecord
  <2>3. old.plan \notin ToRead \cup ToRecord
    BY <2>1, <2>2
  <2>4. QED
    BY <1>0, <2>1, <2>3, TailClimbs DEF Carries, Over
<1>6. ASSUME Look(w) PROVE climbs
  <2>1. /\ Alone(w) /\ Over(w) /\ old.plan \in ToLook
        /\ new.plan \in ToOpen \cup {Tail(old.plan)}
        /\ new.plan # <<>> => Carries(old, new)
    BY <1>6, LookMoves
  <2>2. Tail(old.plan) \in {<<"row">>, <<>>}
    BY <2>1, Tails DEF ToLook
  <2>3. new.plan \in ToOpen \cup ToRow \cup {<<>>}
    BY <2>1, <2>2 DEF ToRow
  <2>4. QED
    BY <1>0, <2>1, <2>3, PastTheLadder DEF Carries, Over
<1>7. ASSUME Find(w) PROVE climbs
  <2>1. /\ Alone(w) /\ Over(w) /\ old.plan \in ToFind
        /\ new.plan \in ToResolve \cup {Tail(old.plan)}
        /\ new.plan # <<>> => Carries(old, new)
    BY <1>7, FindMoves
  <2>2. Tail(old.plan) \in {<<"row">>, <<>>}
    BY <2>1, Tails DEF ToFind
  <2>3. new.plan \in ToResolve \cup ToRow \cup {<<>>}
    BY <2>1, <2>2 DEF ToRow
  <2>4. QED
    BY <1>0, <2>1, <2>3, PastTheLadder DEF Carries, Over
<1>8. ASSUME Resolve(w) PROVE climbs
  <2>1. /\ Alone(w) /\ Over(w) /\ old.plan \in ToResolve
        /\ new.plan \in {old.plan, Tail(old.plan)}
        /\ new.plan # <<>> => Carries(old, new)
    BY <1>8, ResolveMoves
  <2>2. Tail(old.plan) \in {<<"row">>, <<>>}
    BY <2>1, Tails DEF ToResolve
  <2>3. new.plan \in ToResolve \cup ToRow \cup {<<>>}
    BY <2>1, <2>2 DEF ToRow
  <2>4. QED
    BY <1>0, <2>1, <2>3, PastTheLadder DEF Carries, Over
<1>9. QED
  BY <1>1, <1>2, <1>3, <1>4, <1>5, <1>6, <1>7, <1>8
     DEF Work, Warn, Open, WriteRow, Touch

\* A step is a statement of a handler, a crash, a day, or leaves jobs, history
\* and announcements alone.
LEMMA StepIs ==
  ASSUME [Next]_vars
  PROVE  \/ \E w \in Workers : Work(w)
         \/ \E w \in Workers : Crash(w)
         \/ DayPasses
         \/ UNCHANGED <<worker, history, warned, repeated>>
<1> DEFINE same == UNCHANGED <<worker, history, warned, repeated>>
<1> USE DEF rest
<1>1. ASSUME NEW d, Renew(d) PROVE same
  BY <1>1 DEF Renew
<1>2. ASSUME NEW v, Change(v) PROVE same
  BY <1>2 DEF Change
<1>3. ASSUME NEW i, ResolveByHand(i) PROVE same
  BY <1>3 DEF ResolveByHand
<1>4. ASSUME DispatchDue \/ RunCheckNow \/ IntervalPasses \/ ToggleWindow \/ UNCHANGED vars
      PROVE  same
  BY <1>4 DEF DispatchDue, RunCheckNow, IntervalPasses, ToggleWindow, vars
<1>5. QED
  BY <1>1, <1>2, <1>3, <1>4 DEF Next

\* Only a ladder warns; without a day that ends during a check none has waited.
LEMMA WaitStep == JobsInv /\ WaitInv /\ [Next]_vars => WaitInv'
<1> SUFFICES ASSUME JobsInv, WaitInv, [Next]_vars PROVE WaitInv'
  OBVIOUS
<1> USE DEF rest
<1>0. kind' = kind /\ mishaps \subseteq mishaps' /\ Idle.elapsed = 0
  BY KindStays, MishapsStay DEF Idle
<1>1. ASSUME NEW w \in Workers,
             /\ "crossed" \notin mishaps' /\ worker[w].elapsed = 0 => worker'[w].elapsed = 0
             /\ ~Laddered => (worker'[w].plan \in Warning => worker[w].plan \in Warning),
             \A v \in Workers : v # w => worker'[v] = worker[v]
      PROVE  WaitInv'
  BY <1>0, <1>1 DEF WaitInv, Laddered
<1>2. ASSUME NEW w \in Workers, Work(w) PROVE WaitInv'
  BY <1>1, <1>2, WorkClimbs DEF Alone
<1>3. ASSUME NEW w \in Workers, Crash(w) PROVE WaitInv'
  <2>1. worker'[w].plan \notin Warning
    BY <1>3, CrashKeepsJobs, PastTheLadder
  <2>2. QED
    BY <1>1, <1>3, <2>1, CrashKeepsJobs
<1>4. CASE DayPasses
  <2>1. \A w \in Workers : worker'[w].plan = worker[w].plan
    BY <1>4, DayKeepsJobs
  <2>2. "crossed" \notin mishaps' => \A w \in Workers : ~AtStep(w, "observe")
    BY <1>4 DEF DayPasses
  <2>3. "crossed" \notin mishaps' => \A w \in Workers : worker'[w] = worker[w]
    BY <1>4, <2>2, DayKeepsJobs
  <2>4. QED
    BY <1>0, <2>1, <2>3 DEF WaitInv, Laddered
<1>5. CASE UNCHANGED worker
  BY <1>0, <1>5 DEF WaitInv, Laddered
<1>6. QED
  BY <1>2, <1>3, <1>4, <1>5, StepIs

\* The target only moves on: what is not later than it stays so.
LEMMA TargetMoves ==
  ASSUME JobsInv, [Next]_vars, NEW s, s.serial \in Nat, s.days \in Int, Before(s, target)
  PROVE  Before(s, target')
<1> USE DEF rest
<1>0. target \in Seen /\ target.serial \in Nat /\ target.days \in Int
  BY DEF JobsInv, Seen
<1>1. \/ target'.serial = target.serial + 1
      \/ target'.serial = target.serial /\ target'.days <= target.days
  <2>1. ASSUME NEW d, Renew(d) PROVE target'.serial = target.serial + 1
    <3>1. target' = [target EXCEPT !.days = d, !.serial = @ + 1]
      BY <2>1 DEF Renew
    <3>2. QED
      BY <1>0, <3>1 DEF Seen
  <2>2. ASSUME NEW v, Change(v) PROVE target'.serial = target.serial /\ target'.days = target.days
    <3>1. target' = [target EXCEPT !.verdict = v]
      BY <2>2 DEF Change
    <3>2. QED
      BY <1>0, <3>1 DEF Seen
  <2>3. ASSUME NEW w \in Workers, Work(w) \/ Crash(w) PROVE target' = target
    <3>1. ASSUME Find(w) PROVE target' = target
      BY <3>1, Zenon DEF Find
    <3>2. QED
      BY <2>3, <3>1 DEF Work, Crash, Start, Observe, ReadPrevious, Record, Warn, Look, Open,
                        Resolve, WriteRow, Touch
  <2>4. ASSUME NEW i, ResolveByHand(i) PROVE target' = target
    BY <2>4 DEF ResolveByHand
  <2>5. ASSUME DispatchDue \/ RunCheckNow \/ IntervalPasses \/ ToggleWindow \/ UNCHANGED vars
        PROVE  target' = target
    BY <2>5 DEF DispatchDue, RunCheckNow, IntervalPasses, ToggleWindow, vars
  <2>6. ASSUME DayPasses PROVE target'.serial = target.serial /\ target'.days <= target.days
    BY <2>6, DayKeepsJobs
  <2>7. ASSUME target' = target PROVE target'.serial = target.serial /\ target'.days <= target.days
    BY <1>0, <2>7
  <2>8. QED
    BY <1>0, <2>1, <2>2, <2>3, <2>4, <2>5, <2>6, <2>7 DEF Next
<1>2. target'.days \in Int
  BY JobsStep DEF JobsInv, Seen
<1>3. QED
  BY <1>0, <1>1, <1>2 DEF Before

\* A statement that neither stores nor announces nothing on a ladder.
LEMMA QuietWork ==
  ASSUME NEW w \in Workers, Work(w), ~Record(w), ~Warn(w), Laddered
  PROVE  history' = history /\ warned' = warned
<1> USE DEF rest
<1>1. Tell(worker[w]) = warned
  BY DEF Tell, Laddered, Compared
<1>2. ASSUME Find(w) PROVE history' = history /\ warned' = warned
  BY <1>2, Zenon DEF Find
<1>3. ASSUME Look(w) PROVE history' = history /\ warned' = warned
  BY <1>1, <1>3 DEF Look
<1>4. ASSUME Open(w) PROVE history' = history /\ warned' = warned
  BY <1>1, <1>4 DEF Open
<1>5. QED
  BY <1>2, <1>3, <1>4
     DEF Work, Start, Observe, ReadPrevious, Resolve, WriteRow, Touch

\* Only Warn can announce a second time.
LEMMA OnlyWarnRepeats ==
  ASSUME [Next]_vars, repeated' # repeated
  PROVE  \E w \in Workers : Warn(w)
<1> USE DEF rest
<1>1. ASSUME NEW w \in Workers, Crash(w) PROVE repeated' = repeated
  BY <1>1 DEF Crash
<1>2. ASSUME DayPasses PROVE repeated' = repeated
  BY <1>2 DEF DayPasses
<1>3. ASSUME NEW w \in Workers, Work(w), ~Warn(w) PROVE repeated' = repeated
  <2>1. ASSUME Find(w) PROVE repeated' = repeated
    BY <2>1, Zenon DEF Find
  <2>2. QED
    BY <1>3, <2>1 DEF Work, Start, Observe, ReadPrevious, Record, Look, Open, Resolve,
                      WriteRow, Touch
<1>4. QED
  BY <1>1, <1>2, <1>3, StepIs

\* What the previous row decides: a handler goes on to warn only at a rung
\* nobody was told of.
LEMMA RungIsNew ==
  ASSUME JobsInv, Laddered, AllWarned, NEW seen \in Seen, seen.serial # 0,
         Before(history, seen), WarnAt(seen) # None
  PROVE  WarnAt(seen) = CrossedThreshold(seen.days) /\ <<seen.serial, WarnAt(seen)>> \notin warned
<1> DEFINE rung == CrossedThreshold(seen.days)
<1>0. /\ history.serial \in Nat /\ history.days \in Int
      /\ seen.serial \in Nat /\ seen.days \in Int
  BY DEF JobsInv, Seen
<1>1. WarnAt(seen) = rung /\ rung # None
  BY DEF WarnAt
<1>2. ~(SameCertificate(seen) /\ CrossedThreshold(history.days) = rung)
  BY <1>1 DEF WarnAt
<1>3. ASSUME <<seen.serial, rung>> \in warned PROVE FALSE
  <2>1. /\ 1 <= seen.serial /\ seen.serial <= history.serial
        /\ seen.serial = history.serial => /\ CrossedThreshold(history.days) # None
                                           /\ CrossedThreshold(history.days) <= rung
    BY <1>3 DEF AllWarned
  <2>2. seen.serial = history.serial /\ seen.days <= history.days
    BY <1>0, <2>1 DEF Before
  <2>3. history # NoHistory
    BY <1>0, <2>1, <2>2 DEF NoHistory
  <2>4. SameCertificate(seen)
    BY <2>2, <2>3 DEF SameCertificate
  <2>5. /\ CrossedThreshold(history.days) # None /\ CrossedThreshold(history.days) <= rung
        /\ rung <= CrossedThreshold(history.days)
    BY <1>0, <2>1, <2>2, RungFalls
  <2>6. CrossedThreshold(history.days) \in Nat /\ rung \in Nat
    BY <1>0, <1>1, <2>5, RungIs
  <2>7. QED
    BY <1>2, <2>4, <2>5, <2>6
<1>4. QED
  BY <1>1, <1>3

\* A worker that climbs alone keeps the ladder in order.
LEMMA WorkKeepsLadder ==
  ASSUME JobsInv, JobsInv', WaitInv, Orderly, Laddered, kind' = kind,
         AllWarned, Before(history, target), NEW w \in Workers, OnLadder(worker[w]), Work(w),
         target' = target
  PROVE  AllWarned' /\ Before(history, target)' /\ OnLadder(worker[w])'
<1> DEFINE old == worker[w]
           new == worker'[w]
           kept == AllWarned' /\ Before(history, target)' /\ OnLadder(worker[w])'
<1>0. /\ history.serial \in Nat /\ history.days \in Int
      /\ target \in Seen /\ target.serial \in Nat /\ target.days \in Int /\ target.serial # 0
      /\ old \in Job /\ old.seen \in Seen /\ old.seen.serial \in Nat /\ old.seen.days \in Int
      /\ old.elapsed = 0
  BY DEF JobsInv, Seen, Job, WaitInv, Orderly, Calm
<1>1. ASSUME history' = history, warned' = warned PROVE AllWarned' /\ Before(history, target)'
  BY <1>1 DEF AllWarned, Before, CrossedThreshold
<1>2. ASSUME new.plan \notin Rungs PROVE OnLadder(worker[w])'
  BY <1>2 DEF OnLadder, Rungs
<1>3. CASE ~Observe(w) /\ ~ReadPrevious(w) /\ ~Record(w) /\ ~Warn(w)
  BY <1>1, <1>2, <1>3, QuietWork, WorkClimbs
<1>4. CASE Observe(w)
  <2>1. history' = history /\ warned' = warned
    BY <1>4 DEF Observe, rest
  <2>2. CASE new.plan \notin Rungs
    BY <1>1, <1>2, <2>1, <2>2
  <2>3. CASE new.plan \in Rungs
    <3>1. new.plan # <<>>
      BY <2>3, PastTheLadder
    <3>2. new.plan = Plan(target, old.job) /\ new.seen = target /\ new.stamp = target.days + 0
      BY <1>0, <1>4, <3>1, ObserveMoves
    <3>3. new.stamp = target.days
      BY <1>0, <3>2
    <3>4. Plan(target, old.job)
            \in {<<"row", "look">>, <<"touch">>, <<"read", "record", "look", "row">>,
                 <<"read", "record", "warn", "find", "row">>, <<"read", "record", "warn", "row">>}
      <4>1. kind \in AllKinds
        BY DEF Laddered, AllKinds
      <4>2. QED
        BY <4>1, PlanIs DEF Laddered
    <3>5. /\ <<"row", "look">> \notin Rungs /\ <<"touch">> \notin Rungs
          /\ \A q \in ToRead : Head(q) = "read"
          /\ \A q \in ToRecord \cup ToWarn : Head(q) # "read"
      BY PastTheLadder DEF ToRow, Beginning, ToRead, ToRecord, ToWarn
    <3>6. new.plan \in ToRead
      BY <2>3, <3>2, <3>4, <3>5 DEF ToRead
    <3>7. new.plan \notin ToRecord /\ new.plan \notin ToWarn
      BY <3>5, <3>6
    <3>8. Before(history', new.seen) /\ Before(new.seen, target') /\ new.seen.serial # 0
          /\ new.stamp = new.seen.days
      BY <1>0, <2>1, <3>2, <3>3 DEF Before
    <3>9. OnLadder(worker[w])'
      BY <3>7, <3>8 DEF OnLadder, Before
    <3>10. QED
      BY <1>1, <2>1, <3>9
  <2>4. QED
    BY <2>2, <2>3
<1>5. CASE ReadPrevious(w)
  <2>1. history' = history /\ warned' = warned
    BY <1>5 DEF ReadPrevious, rest
  <2>2. CASE new.plan \notin Rungs
    BY <1>1, <1>2, <2>1, <2>2
  <2>3. CASE new.plan \in Rungs
    <3>1. /\ Carries(old, new) /\ old.plan \in ToRead \cup {<<"read", "observe">>}
          /\ new.plan \in ToRecord \cup {<<"observe">>}
          /\ new.stamp = old.stamp /\ new.rung = WarnAt(old.seen)
          /\ Follows(old) => new.plan = Tail(old.plan)
          /\ ~Follows(old) => new.plan = <<"record">> \o SubSeq(old.plan, 4, Len(old.plan))
      BY <1>5, ReadMoves DEF Laddered
    <3>2. <<"observe">> \notin Rungs
      BY PastTheLadder DEF Beginning
    <3>3. new.plan \in ToRecord /\ new.plan \notin ToRead /\ new.plan \notin ToWarn
      BY <2>3, <3>1, <3>2 DEF ToRecord, ToRead, ToWarn
    <3>4. old.plan # <<"read", "observe">>
      BY DEF JobsInv, Laddered
    <3>5. /\ Before(history, old.seen) /\ Before(old.seen, target)
          /\ old.seen.serial # 0 /\ old.stamp = old.seen.days
      BY <3>1, <3>4 DEF OnLadder
    <3>6. new.plan \in Warning => WarnAt(old.seen) # None
      <4>1. CASE old.plan = <<"read", "record", "look", "row">>
        <5>1. <<"record", "look", "row">> \notin Warning /\ <<"record", "row">> \notin Warning
          BY DEF Warning, ToWarn
        <5>2. QED
          BY <3>1, <4>1, <5>1, Tails, Skips
      <4>2. CASE old.plan \in {<<"read", "record", "warn", "find", "row">>,
                               <<"read", "record", "warn", "row">>}
        <5>1. <<"record", "find", "row">> \notin Warning /\ <<"record", "row">> \notin Warning
          BY DEF Warning, ToWarn
        <5>2. ~Follows(old) => new.plan \notin Warning
          BY <3>1, <4>2, <5>1, Skips
        <5>3. old.plan[3] = "warn"
          BY <4>2
        <5>4. Follows(old) => WarnAt(old.seen) # None
          BY <5>3 DEF Follows, Laddered
        <5>5. QED
          BY <5>2, <5>4
      <4>3. QED
        BY <3>1, <3>4, <4>1, <4>2 DEF ToRead
    <3>7. new.plan \in Warning => NotYetWarned(worker[w])'
      <4>1. SUFFICES ASSUME new.plan \in Warning PROVE NotYetWarned(worker[w])'
        OBVIOUS
      <4>2. WarnAt(old.seen) = CrossedThreshold(old.seen.days) /\ WarnAt(old.seen) # None
            /\ <<old.seen.serial, WarnAt(old.seen)>> \notin warned
        BY <1>0, <3>5, <3>6, <4>1, RungIsNew
      <4>3. new.seen = old.seen
        BY <3>1 DEF Carries
      <4>4. CrossedThreshold(worker[w].seen.days)' = CrossedThreshold(old.seen.days)
        BY <4>3 DEF CrossedThreshold
      <4>5. QED
        BY <2>1, <3>1, <4>2, <4>3, <4>4 DEF NotYetWarned
    <3>8. Before(history', new.seen) /\ Before(new.seen, target') /\ new.seen.serial # 0
          /\ new.stamp = new.seen.days
      BY <2>1, <3>1, <3>5 DEF Carries
    <3>9. OnLadder(worker[w])'
      BY <3>3, <3>7, <3>8 DEF OnLadder, Before
    <3>10. QED
      BY <1>1, <2>1, <3>9
  <2>4. QED
    BY <2>2, <2>3
<1>6. CASE Record(w)
  <2>1. /\ Carries(old, new) /\ old.plan \in ToRecord /\ new.plan = Tail(old.plan)
        /\ new.rung = old.rung
        /\ history'.days = old.stamp /\ history'.serial = old.seen.serial
    BY <1>6, RecordMoves DEF Laddered
  <2>2. warned' = warned
    BY <1>6 DEF Record, rest
  <2>3. /\ Before(history, old.seen) /\ Before(old.seen, target)
        /\ old.seen.serial # 0 /\ old.stamp = old.seen.days
        /\ old.plan \in Warning => NotYetWarned(old)
    BY <2>1 DEF OnLadder
  <2>4. Before(history, target)'
    BY <2>1, <2>3 DEF Before
  <2>5. AllWarned'
    <3>1. SUFFICES ASSUME NEW a \in warned
                   PROVE  /\ a \in Nat \X Nat /\ 1 <= a[1] /\ a[1] <= history'.serial
                          /\ a[1] = history'.serial =>
                               /\ CrossedThreshold(history'.days) # None
                               /\ CrossedThreshold(history'.days) <= a[2]
      BY <2>2 DEF AllWarned, CrossedThreshold
    <3>2. /\ a \in Nat \X Nat /\ 1 <= a[1] /\ a[1] <= history.serial
          /\ a[1] = history.serial => /\ CrossedThreshold(history.days) # None
                                      /\ CrossedThreshold(history.days) <= a[2]
      BY DEF AllWarned
    <3>3. a[1] \in Nat /\ a[2] \in Nat
      BY <3>2
    <3>4. history.serial <= old.seen.serial
          /\ (history.serial = old.seen.serial => old.seen.days <= history.days)
      BY <2>3 DEF Before
    <3>5. ASSUME a[1] = history'.serial
          PROVE  /\ CrossedThreshold(history'.days) # None
                 /\ CrossedThreshold(history'.days) <= a[2]
      <4>1. history.serial = old.seen.serial /\ a[1] = history.serial
            /\ old.seen.days <= history.days /\ history'.days = old.seen.days
        BY <1>0, <2>1, <2>3, <3>2, <3>3, <3>4, <3>5
      <4>2. CrossedThreshold(history.days) # None /\ CrossedThreshold(history.days) <= a[2]
        BY <3>2, <4>1
      <4>3. /\ CrossedThreshold(old.seen.days) # None
            /\ CrossedThreshold(old.seen.days) <= CrossedThreshold(history.days)
        BY <1>0, <4>1, <4>2, RungFalls
      <4>4. CrossedThreshold(old.seen.days) \in Nat /\ CrossedThreshold(history.days) \in Nat
        BY <1>0, <4>2, <4>3, RungIs
      <4>5. QED
        BY <3>3, <4>1, <4>2, <4>3, <4>4
    <3>6. QED
      BY <1>0, <2>1, <3>2, <3>3, <3>4, <3>5
  <2>6. OnLadder(worker[w])'
    <3>1. CASE new.plan \notin Rungs
      BY <1>2, <3>1
    <3>2. CASE new.plan \in Rungs
      <4>1. old.plan \in Plans /\ old.plan # <<>>
        BY <1>6, AtAStep DEF Record
      <4>2. new.plan \in ToWarn /\ old.plan \in Warning
        BY <2>1, <3>2, <4>1, TailClimbs
      <4>3. new.plan \notin ToRead /\ new.plan \notin ToRecord
        BY <4>2 DEF ToWarn, ToRead, ToRecord
      <4>4. new.seen = old.seen
        BY <2>1 DEF Carries
      <4>5. CrossedThreshold(worker[w].seen.days)' = CrossedThreshold(old.seen.days)
        BY <4>4 DEF CrossedThreshold
      <4>6. NotYetWarned(worker[w])'
        BY <2>1, <2>2, <2>3, <4>2, <4>4, <4>5 DEF NotYetWarned
      <4>7. QED
        BY <2>1, <2>3, <4>2, <4>3, <4>4, <4>6 DEF OnLadder
    <3>3. QED
      BY <3>1, <3>2
  <2>7. QED
    BY <2>4, <2>5, <2>6
<1>7. CASE Warn(w)
  <2>1. /\ AtStep(w, "warn") /\ history' = history
        /\ warned' = warned \cup {<<old.seen.serial, old.rung>>}
    BY <1>7 DEF Warn
  <2>2. old.plan \in ToWarn
    BY <2>1, AtAStep, ByStep
  <2>3. /\ old.rung # None /\ old.rung = CrossedThreshold(old.seen.days)
        /\ history.serial = old.seen.serial /\ history.days = old.seen.days
        /\ old.seen.serial # 0
    BY <2>2 DEF OnLadder, NotYetWarned
  <2>4. old.rung \in Nat
    BY <1>0, <2>3, RungIs
  <2>5. AllWarned'
    <3>1. SUFFICES ASSUME NEW a \in warned'
                   PROVE  /\ a \in Nat \X Nat /\ 1 <= a[1] /\ a[1] <= history.serial
                          /\ a[1] = history.serial =>
                               /\ CrossedThreshold(history.days) # None
                               /\ CrossedThreshold(history.days) <= a[2]
      BY <2>1 DEF AllWarned, CrossedThreshold
    <3>2. CASE a \in warned
      BY <3>2 DEF AllWarned
    <3>3. CASE a = <<old.seen.serial, old.rung>>
      <4>1. a \in Nat \X Nat /\ a[1] = old.seen.serial /\ a[2] = old.rung
        BY <1>0, <2>4, <3>3
      <4>2. QED
        BY <1>0, <2>3, <2>4, <4>1
    <3>4. QED
      BY <2>1, <3>2, <3>3
  <2>6. Before(history, target)'
    BY <2>1 DEF Before
  <2>7. new.plan \notin Rungs
    <3>1. ~Observe(w) /\ ~ReadPrevious(w) /\ ~Record(w)
      BY <2>1 DEF AtStep, Observe, ReadPrevious, Record
    <3>2. QED
      BY <3>1, WorkClimbs
  <2>8. QED
    BY <1>2, <2>5, <2>6, <2>7
<1>8. QED
  BY <1>3, <1>4, <1>5, <1>6, <1>7

\* The ladder stays in order with every step of a behaviour without overlaps,
\* crashes and days that end during a check.
LEMMA LadderStep ==
  JobsInv /\ SoloInv /\ WaitInv /\ LadderInv /\ [Next]_vars => LadderInv'
<1> SUFFICES ASSUME JobsInv, SoloInv, WaitInv, LadderInv, [Next]_vars, Orderly'
             PROVE  /\ ~repeated'
                    /\ Laddered' => /\ AllWarned' /\ Before(history, target)'
                                    /\ \A w \in Workers : OnLadder(worker[w])'
  BY DEF LadderInv
<1>0. /\ kind' = kind /\ (Laddered' <=> Laddered) /\ Orderly
      /\ "overlap" \notin mishaps' /\ "crash" \notin mishaps' /\ JobsInv'
  BY KindStays, MishapsStay, JobsStep DEF Orderly, Calm, Laddered
<1>1. /\ ~repeated
      /\ Laddered => /\ AllWarned /\ Before(history, target)
                     /\ \A w \in Workers : OnLadder(worker[w])
  BY <1>0 DEF LadderInv
<1>2. ~repeated'
  <2>1. ASSUME NEW w \in Workers, Warn(w) PROVE ~repeated'
    <3>1. /\ AtStep(w, "warn")
          /\ repeated' = (repeated \/ <<worker[w].seen.serial, worker[w].rung>> \in warned)
      BY <2>1 DEF Warn
    <3>2. worker[w].plan \in ToWarn
      BY <3>1, AtAStep, ByStep
    <3>3. Laddered
      BY <3>2 DEF WaitInv, Warning
    <3>4. <<worker[w].seen.serial, worker[w].rung>> \notin warned
      BY <1>1, <3>2, <3>3 DEF OnLadder, NotYetWarned
    <3>5. QED
      BY <1>1, <3>1, <3>4
  <2>2. QED
    BY <1>1, <2>1, OnlyWarnRepeats
<1>3. SUFFICES ASSUME Laddered
               PROVE  /\ AllWarned' /\ Before(history, target)'
                      /\ \A w \in Workers : OnLadder(worker[w])'
  BY <1>0, <1>2
<1>4. ASSUME NEW w \in Workers, Work(w)
      PROVE  /\ AllWarned' /\ Before(history, target)'
             /\ \A v \in Workers : OnLadder(worker[v])'
  <2>1. target' = target
    <3>1. ASSUME Find(w) PROVE target' = target
      BY <3>1, Zenon DEF Find
    <3>2. QED
      BY <1>4, <3>1 DEF Work, Start, Observe, ReadPrevious, Record, Warn, Look, Open,
                        Resolve, WriteRow, Touch, rest
  <2>2. AllWarned' /\ Before(history, target)' /\ OnLadder(worker[w])'
    BY <1>0, <1>1, <1>3, <1>4, <2>1, WorkKeepsLadder
  <2>3. ASSUME NEW v \in Workers, v # w PROVE OnLadder(worker[v])'
    <3>1. worker'[v].plan = <<>>
      BY <1>0, <1>4, <2>3, SoloStays, WorkLooks DEF Alone, Busy
    <3>2. worker'[v].plan \notin Rungs
      BY <3>1, PastTheLadder
    <3>3. QED
      BY <3>2 DEF OnLadder, Rungs
  <2>4. QED
    BY <2>2, <2>3
<1>5. ASSUME NEW w \in Workers, Crash(w) PROVE FALSE
  BY <1>0, <1>5 DEF Crash
<1>6. ASSUME UNCHANGED <<history, warned>>,
             \A w \in Workers : /\ worker'[w].plan = worker[w].plan
                                /\ worker'[w].seen = worker[w].seen
                                /\ worker'[w].rung = worker[w].rung
                                /\ worker'[w].stamp = worker[w].stamp
      PROVE  /\ AllWarned' /\ Before(history, target)'
             /\ \A w \in Workers : OnLadder(worker[w])'
  <2>1. AllWarned'
    BY <1>1, <1>3, <1>6 DEF AllWarned, CrossedThreshold
  <2>2. Before(history, target)'
    <3>1. history.serial \in Nat /\ history.days \in Int
      BY DEF JobsInv
    <3>2. Before(history, target')
      BY <1>1, <1>3, <3>1, TargetMoves
    <3>3. QED
      BY <1>6, <3>2 DEF Before
  <2>3. ASSUME NEW w \in Workers PROVE OnLadder(worker[w])'
    <3>1. OnLadder(worker[w]) /\ worker[w].seen.serial \in Nat /\ worker[w].seen.days \in Int
      BY <1>1, <1>3 DEF JobsInv, Job, Seen
    <3>2. NotYetWarned(worker[w]) => NotYetWarned(worker[w])'
      BY <1>6 DEF NotYetWarned, CrossedThreshold
    <3>3. Before(worker[w].seen, target) => Before(worker[w].seen, target')
      BY <3>1, TargetMoves
    <3>4. QED
      BY <1>6, <3>1, <3>2, <3>3 DEF OnLadder, Before
  <2>4. QED
    BY <2>1, <2>2, <2>3
<1>7. CASE DayPasses
  <2>1. UNCHANGED <<history, warned>>
    BY <1>7 DEF DayPasses, rest
  <2>2. QED
    BY <1>6, <1>7, <2>1, DayKeepsJobs
<1>8. CASE UNCHANGED <<worker, history, warned, repeated>>
  BY <1>6, <1>8
<1>9. QED
  BY <1>4, <1>5, <1>7, <1>8, StepIs

\* Nobody has climbed yet.
LEMMA LadderInit == Init => WaitInv /\ LadderInv
<1> SUFFICES ASSUME Init PROVE WaitInv /\ LadderInv
  OBVIOUS
<1>1. \A w \in Workers : worker[w].plan = <<>> /\ worker[w].elapsed = 0
  BY IdleJob DEF Init, Idle
<1>2. <<>> \notin Warning /\ <<>> \notin Rungs
  BY PastTheLadder
<1>3. target.serial = 1 /\ history.serial = 0 /\ warned = {} /\ repeated = FALSE
  BY DEF Init, NoHistory
<1>4. Before(history, target)
  BY <1>3 DEF Before
<1>5. WaitInv
  BY <1>1, <1>2 DEF WaitInv
<1>6. LadderInv
  BY <1>1, <1>2, <1>3, <1>4 DEF LadderInv, AllWarned, OnLadder, Rungs
<1>7. QED
  BY <1>5, <1>6

\* OncePerRung (RunSslCheck, RunDomainCheck, crossedThreshold and the
\* rung worked out again from the previous row): for any ladder of thresholds
\* and any sequence of days, renewals and answers, no rung of a certificate or
\* of a registration is announced a second time, as long as checks do not
\* overlap, none dies, and no day ends while one waits for an answer.
THEOREM EachRungOnce == Spec => []OncePerRung
<1>1. LadderInv => OncePerRung
  BY DEF LadderInv, OncePerRung, Orderly
<1>2. QED
  BY <1>1, JobsThroughout, SoloInit, SoloStep, LadderInit, WaitStep, LadderStep, PTL
     DEF Spec

(***************************************************************************)
(* What the history has stored, and who was told.                          *)
(***************************************************************************)
OnRung(serial, days) ==
  days >= 0 /\ CrossedThreshold(days) # None => <<serial, CrossedThreshold(days)>> \in warned
Levelled == kind \in Compared
Announced ==
  /\ kind = "ssl" /\ history # NoHistory => OnRung(history.serial, history.days)
  /\ Levelled /\ RoseTo(history.before, history.days) => <<history.serial, 0>> \in warned

\* Between the record and the statement that tells, history is ahead.
Telling == IF kind = "ssl" THEN ToWarn ELSE ToLook \cup ToOpen

\* What a handler knows of the history on its way to that statement.
SslOnWay(st) ==
  /\ st.plan \in {<<"read", "record", "look", "row">>, <<"record", "look", "row">>} =>
       st.seen.days < 0
  /\ st.plan = <<"record", "find", "row">> => OnRung(st.seen.serial, st.seen.days)
  /\ st.plan \notin {<<"record", "row">>, <<"read", "record", "warn", "row">>,
                     <<"record", "warn", "row">>, <<"warn", "row">>}
OtherOnWay(st) ==
  /\ st.plan \in Rungs =>
       st.plan \in {<<"read", "record", "look", "row">>, <<"record", "look", "row">>,
                    <<"record", "row">>}
  /\ st.plan # <<"row", "look">>
  /\ st.plan \in Rungs => st.stamp = st.seen.days
  /\ st.plan = <<"record", "row">> => ~RoseTo(st.rung, st.seen.days)
  /\ st.plan \in ToLook \cup ToOpen =>
       /\ history.serial = st.seen.serial
       /\ history.days = st.seen.days /\ history.before = st.rung
OnWay(st) ==
  /\ kind = "ssl" => SslOnWay(st)
  /\ Levelled => OtherOnWay(st)

Undisturbed == Calm({"crash", "overlap", "crossed", "window"})
ToldInv ==
  Undisturbed =>
    /\ (\A w \in Workers : worker[w].plan \notin Telling) => Announced
    /\ \A w \in Workers : OnWay(worker[w])

\* The same rows, announcements and job tell the same.
LEMMA SameTold ==
  ASSUME kind' = kind, history' = history, warned' = warned
  PROVE  /\ Announced' <=> Announced
         /\ Telling' = Telling
         /\ Levelled' <=> Levelled
<1>1. (Levelled' <=> Levelled) /\ Telling' = Telling
  BY DEF Levelled, Telling
<1>2. OnRung(history.serial, history.days)' <=> OnRung(history.serial, history.days)
  BY DEF OnRung, CrossedThreshold
<1>3. RoseTo(history.before, history.days)' <=> RoseTo(history.before, history.days)
  BY DEF RoseTo
<1>4. QED
  BY <1>1, <1>2, <1>3 DEF Announced

\* Which statement a worker runs is what its plan begins with.
LEMMA WorkAtStep ==
  ASSUME JobsInv, NEW w \in Workers, Work(w)
  PROVE  /\ worker[w].plan \in ToRecord => Record(w)
         /\ worker[w].plan \in ToWarn => Warn(w)
         /\ worker[w].plan \in ToLook => Look(w)
         /\ worker[w].plan \in ToOpen => Open(w)
         /\ worker[w].plan = <<"row", "look">> => WriteRow(w)
<1>1. /\ \A q \in ToRecord : Head(q) = "record" /\ q # <<>>
      /\ \A q \in ToWarn : Head(q) = "warn" /\ q # <<>>
      /\ \A q \in ToLook : Head(q) = "look" /\ q # <<>>
      /\ \A q \in ToOpen : Head(q) = "open" /\ q # <<>>
      /\ Head(<<"row", "look">>) = "row" /\ <<"row", "look">> # <<>>
  BY DEF ToRecord, ToWarn, ToLook, ToOpen
<1>2. ASSUME NEW s \in {"record", "warn", "look", "open", "row"},
             Head(worker[w].plan) = s, worker[w].plan # <<>>
      PROVE  /\ s = "record" => Record(w)
             /\ s = "warn" => Warn(w)
             /\ s = "look" => Look(w)
             /\ s = "open" => Open(w)
             /\ s = "row" => WriteRow(w)
  <2>1. \A t : AtStep(w, t) => t = s
    BY <1>2 DEF AtStep
  <2>2. \A j : ~Start(w, j)
    BY <1>2 DEF Start, Busy
  <2>3. /\ (Observe(w) => AtStep(w, "observe")) /\ (ReadPrevious(w) => AtStep(w, "read"))
        /\ (Record(w) => AtStep(w, "record")) /\ (Warn(w) => AtStep(w, "warn"))
        /\ (Look(w) => AtStep(w, "look")) /\ (Open(w) => AtStep(w, "open"))
        /\ (Find(w) => AtStep(w, "find")) /\ (Resolve(w) => AtStep(w, "resolve"))
        /\ (WriteRow(w) => AtStep(w, "row")) /\ (Touch(w) => AtStep(w, "touch"))
    <3>1. Find(w) => AtStep(w, "find")
      BY Zenon DEF Find
    <3>2. QED
      BY <3>1 DEF Observe, ReadPrevious, Record, Warn, Look, Open, Resolve, WriteRow, Touch
  <2>4. QED
    BY <2>1, <2>2, <2>3 DEF Work
<1>3. QED
  BY <1>1, <1>2

\* The certificate: its row is told of before it is stored, or right after.
LEMMA SslTells ==
  ASSUME JobsInv, WaitInv, Undisturbed, kind = "ssl", kind' = kind,
         Before(history, target), NEW w \in Workers, OnLadder(worker[w]),
         SslOnWay(worker[w]), Work(w),
         worker[w].plan \notin ToWarn => Announced
  PROVE  SslOnWay(worker[w])' /\ (worker'[w].plan \notin ToWarn => Announced')
<1> DEFINE old == worker[w]
           new == worker'[w]
           told == SslOnWay(worker[w])' /\ (new.plan \notin ToWarn => Announced')
<1>0. /\ Laddered /\ kind \in AllKinds
      /\ history.serial \in Nat /\ history.days \in Int
      /\ target \in Seen /\ target.serial \in Nat /\ target.days \in Int /\ target.serial # 0
      /\ old \in Job /\ old.seen \in Seen /\ old.seen.serial \in Nat /\ old.seen.days \in Int
      /\ old.elapsed = 0
  BY DEF JobsInv, Seen, Job, WaitInv, Undisturbed, Calm, Laddered, AllKinds
<1>1. ASSUME new.plan \notin Rungs PROVE SslOnWay(worker[w])'
  <2>1. /\ {<<"read", "record", "look", "row">>, <<"record", "look", "row">>,
            <<"record", "find", "row">>, <<"record", "row">>,
            <<"read", "record", "warn", "row">>, <<"record", "warn", "row">>,
            <<"warn", "row">>} \subseteq Rungs
    BY DEF Rungs, ToRead, ToRecord, ToWarn
  <2>2. QED
    BY <1>1, <2>1 DEF SslOnWay
<1>2. CASE ~Observe(w) /\ ~ReadPrevious(w) /\ ~Record(w) /\ ~Warn(w)
  <2>1. new.plan \notin Rungs
    BY <1>2, WorkClimbs
  <2>2. old.plan \notin ToWarn
    BY <1>2, WorkAtStep
  <2>3. Announced'
    BY <1>0, <1>2, <2>2, QuietWork, SameTold
  <2>4. QED
    BY <1>1, <2>1, <2>3
<1>3. CASE Observe(w)
  <2>1. history' = history /\ warned' = warned
    BY <1>3 DEF Observe, rest
  <2>2. old.plan = <<"observe">> /\ new.plan = Plan(target, old.job)
        /\ (new.plan # <<>> => new.seen = target)
    BY <1>3, ObserveMoves
  <2>3. <<"observe">> \notin ToWarn
    BY DEF ToWarn
  <2>4. Announced'
    BY <2>1, <2>2, <2>3, SameTold
  <2>5. \/ new.plan = <<"row", "look">>
        \/ new.plan = <<"read", "record", "look", "row">> /\ target.days < 0
        \/ new.plan = <<"read", "record", "warn", "find", "row">>
    BY <1>0, <2>2, PlanIs DEF Failing
  <2>6. /\ <<"row", "look">> \notin Rungs
        /\ <<"read", "record", "look", "row">> # <<>>
        /\ <<"read", "record", "look", "row">> # <<"record", "find", "row">>
        /\ <<"read", "record", "look", "row">> \notin
             {<<"record", "row">>, <<"read", "record", "warn", "row">>,
              <<"record", "warn", "row">>, <<"warn", "row">>}
        /\ <<"read", "record", "warn", "find", "row">> \notin
             {<<"read", "record", "look", "row">>, <<"record", "look", "row">>,
              <<"record", "find", "row">>, <<"record", "row">>,
              <<"read", "record", "warn", "row">>, <<"record", "warn", "row">>,
              <<"warn", "row">>}
    BY PastTheLadder DEF ToRow
  <2>7. SslOnWay(worker[w])'
    BY <1>1, <2>2, <2>5, <2>6 DEF SslOnWay
  <2>8. QED
    BY <2>4, <2>7
<1>4. CASE ReadPrevious(w)
  <2>1. history' = history /\ warned' = warned
    BY <1>4 DEF ReadPrevious, rest
  <2>2. /\ Carries(old, new) /\ old.plan \in ToRead \cup {<<"read", "observe">>}
        /\ Follows(old) => new.plan = Tail(old.plan)
        /\ ~Follows(old) => new.plan = <<"record">> \o SubSeq(old.plan, 4, Len(old.plan))
    BY <1>4, ReadMoves
  <2>3. old.plan \notin ToWarn /\ old.plan # <<"read", "observe">>
    BY <2>2 DEF JobsInv, ToRead, ToWarn
  <2>4. Announced /\ Announced'
    BY <2>1, <2>3, SameTold
  <2>5. old.plan \in {<<"read", "record", "look", "row">>,
                    <<"read", "record", "warn", "find", "row">>}
    BY <2>2, <2>3 DEF SslOnWay, ToRead
  <2>6. CASE old.plan = <<"read", "record", "look", "row">>
    <3>1. <<"read", "record", "look", "row">>[3] # "warn"
      OBVIOUS
    <3>2. Follows(old)
      BY <1>0, <2>6, <3>1 DEF Follows
    <3>3. new.plan = <<"record", "look", "row">> /\ new.seen = old.seen
      BY <2>2, <2>6, <3>2, Tails DEF Carries
    <3>4. new.seen.days < 0
      BY <2>6, <3>3 DEF SslOnWay
    <3>5. <<"record", "look", "row">> \notin
            {<<"record", "find", "row">>, <<"record", "row">>,
             <<"read", "record", "warn", "row">>, <<"record", "warn", "row">>, <<"warn", "row">>}
      OBVIOUS
    <3>6. SslOnWay(worker[w])'
      BY <3>3, <3>4, <3>5 DEF SslOnWay
    <3>7. QED
      BY <2>4, <3>6
  <2>7. CASE old.plan = <<"read", "record", "warn", "find", "row">>
    <3>1. <<"read", "record", "warn", "find", "row">>[3] = "warn"
      OBVIOUS
    <3>2. Follows(old) <=> WarnAt(old.seen) # None
      BY <1>0, <2>7, <3>1 DEF Follows
    <3>3. /\ <<"record", "warn", "find", "row">> \notin
               {<<"read", "record", "look", "row">>, <<"record", "look", "row">>,
                <<"record", "find", "row">>, <<"record", "row">>,
                <<"read", "record", "warn", "row">>, <<"record", "warn", "row">>,
                <<"warn", "row">>}
          /\ <<"record", "find", "row">> \notin
               {<<"read", "record", "look", "row">>, <<"record", "look", "row">>,
                <<"record", "row">>, <<"read", "record", "warn", "row">>,
                <<"record", "warn", "row">>, <<"warn", "row">>}
      OBVIOUS
    <3>4. CASE Follows(old)
      <4>1. new.plan = <<"record", "warn", "find", "row">>
        BY <2>2, <2>7, <3>4, Tails
      <4>2. SslOnWay(worker[w])'
        BY <3>3, <4>1 DEF SslOnWay
      <4>3. QED
        BY <2>4, <4>2
    <3>5. CASE ~Follows(old)
      <4>1. new.plan = <<"record", "find", "row">> /\ new.seen = old.seen
        BY <2>2, <2>7, <3>5, Skips DEF Carries
      <4> DEFINE rung == CrossedThreshold(old.seen.days)
      <4>2. rung = None \/ (SameCertificate(old.seen) /\ CrossedThreshold(history.days) = rung)
        BY <3>2, <3>5 DEF WarnAt
      <4>3. OnRung(old.seen.serial, old.seen.days)
        <5>1. CASE rung = None
          BY <5>1 DEF OnRung
        <5>2. CASE SameCertificate(old.seen) /\ CrossedThreshold(history.days) = rung
          <6>1. history # NoHistory /\ history.serial = old.seen.serial
            BY <5>2 DEF SameCertificate
          <6>2. old.seen.days <= history.days
            BY <2>2, <2>3, <6>1 DEF OnLadder, Before
          <6>3. OnRung(history.serial, history.days)
            BY <2>4, <6>1 DEF Announced
          <6>4. old.seen.days >= 0 => history.days >= 0
            BY <1>0, <6>2
          <6>5. QED
            BY <5>2, <6>1, <6>3, <6>4 DEF OnRung
        <5>3. QED
          BY <4>2, <5>1, <5>2
      <4>4. OnRung(worker[w].seen.serial, worker[w].seen.days)'
        BY <2>1, <4>1, <4>3 DEF OnRung, CrossedThreshold
      <4>5. SslOnWay(worker[w])'
        BY <3>3, <4>1, <4>4 DEF SslOnWay
      <4>6. QED
        BY <2>4, <4>5
    <3>6. QED
      BY <3>4, <3>5
  <2>8. QED
    BY <2>5, <2>6, <2>7
<1>5. CASE Record(w)
  <2>1. /\ Carries(old, new) /\ old.plan \in ToRecord /\ new.plan = Tail(old.plan)
        /\ history'.days = old.stamp /\ history'.serial = old.seen.serial
    BY <1>0, <1>5, RecordMoves
  <2>2. warned' = warned
    BY <1>5 DEF Record, rest
  <2>3. history'.days = old.seen.days
    BY <2>1 DEF OnLadder
  <2>4. OnRung(old.seen.serial, old.seen.days) => Announced'
    <3>1. OnRung(old.seen.serial, old.seen.days) => OnRung(history.serial, history.days)'
      BY <2>1, <2>2, <2>3 DEF OnRung, CrossedThreshold
    <3>2. ~Levelled'
      BY DEF Levelled, Compared
    <3>3. QED
      BY <3>1, <3>2 DEF Announced
  <2>5. CASE old.plan = <<"record", "warn", "find", "row">>
    <3>1. new.plan = <<"warn", "find", "row">>
      BY <2>1, <2>5, Tails
    <3>2. <<"warn", "find", "row">> \in ToWarn
          /\ <<"warn", "find", "row">> \notin
               {<<"read", "record", "look", "row">>, <<"record", "look", "row">>,
                <<"record", "find", "row">>, <<"record", "row">>,
                <<"read", "record", "warn", "row">>, <<"record", "warn", "row">>,
                <<"warn", "row">>}
      BY DEF ToWarn
    <3>3. SslOnWay(worker[w])'
      BY <3>1, <3>2 DEF SslOnWay
    <3>4. QED
      BY <3>1, <3>2, <3>3
  <2>6. CASE old.plan \in {<<"record", "look", "row">>, <<"record", "find", "row">>}
    <3>1. new.plan \in {<<"look", "row">>, <<"find", "row">>}
      BY <2>1, <2>6, Tails
    <3>2. new.plan \notin Rungs
      BY <3>1, PastTheLadder DEF ToLook, ToFind
    <3>3. OnRung(old.seen.serial, old.seen.days)
      <4>1. old.seen.days < 0 => OnRung(old.seen.serial, old.seen.days)
        BY <1>0 DEF OnRung
      <4>2. QED
        BY <2>6, <4>1 DEF SslOnWay
    <3>4. QED
      BY <1>1, <2>4, <3>2, <3>3
  <2>7. QED
    BY <2>1, <2>5, <2>6 DEF ToRecord, SslOnWay
<1>6. CASE Warn(w)
  <2>1. /\ AtStep(w, "warn") /\ history' = history
        /\ warned' = warned \cup {<<old.seen.serial, old.rung>>}
    BY <1>6 DEF Warn
  <2>2. old.plan \in ToWarn
    BY <2>1, AtAStep, ByStep
  <2>3. /\ old.rung = CrossedThreshold(old.seen.days)
        /\ history.serial = old.seen.serial /\ history.days = old.seen.days
    BY <2>2 DEF OnLadder, NotYetWarned
  <2>4. OnRung(history.serial, history.days)'
    BY <2>1, <2>3 DEF OnRung, CrossedThreshold
  <2>5. ~Levelled'
    BY DEF Levelled, Compared
  <2>6. Announced'
    BY <2>4, <2>5 DEF Announced
  <2>7. new.plan \notin Rungs
    <3>1. ~Observe(w) /\ ~ReadPrevious(w) /\ ~Record(w)
      BY <2>1 DEF AtStep, Observe, ReadPrevious, Record
    <3>2. QED
      BY <3>1, WorkClimbs
  <2>8. QED
    BY <1>1, <2>6, <2>7
<1>7. QED
  BY <1>2, <1>3, <1>4, <1>5, <1>6

\* What is left of a plan without a record or a look has neither.
LEMMA TailIsPast ==
  ASSUME NEW p \in Plans, p # <<>>, p \notin ToRead, p \notin ToRecord, p \notin ToWarn,
         p # <<"row", "look">>
  PROVE  Tail(p) \notin Rungs \cup ToLook \cup ToOpen /\ Tail(p) # <<"row", "look">>
<1>1. /\ \A q \in Rungs : Head(q) \in {"read", "record", "warn"} /\ q # <<>>
      /\ \A q \in ToLook \cup ToOpen : Head(q) \in {"look", "open"} /\ q # <<>>
  <2>1. \A q \in ToRead : Head(q) = "read" /\ q # <<>>
    BY DEF ToRead
  <2>2. \A q \in ToRecord : Head(q) = "record" /\ q # <<>>
    BY DEF ToRecord
  <2>3. \A q \in ToWarn : Head(q) = "warn" /\ q # <<>>
    BY DEF ToWarn
  <2>4. \A q \in ToLook \cup ToOpen : Head(q) \in {"look", "open"} /\ q # <<>>
    BY DEF ToLook, ToOpen
  <2>5. QED
    BY <2>1, <2>2, <2>3, <2>4 DEF Rungs
<1>2. Head(<<"observe">>) = "observe" /\ Head(<<"row">>) = "row"
  OBVIOUS
<1>3. Tail(p) \in {<<>>, <<"observe">>, <<"row">>}
  <2>1. CASE p \in Beginning
    BY <2>1, Tails DEF Beginning
  <2>2. CASE p \in ToLook \cup ToOpen \cup ToFind \cup ToResolve
    BY <2>2, Tails DEF ToLook, ToOpen, ToFind, ToResolve
  <2>3. CASE p \in ToRow
    BY <2>3, Tails DEF ToRow
  <2>4. QED
    BY <2>1, <2>2, <2>3 DEF Plans
<1>4. \A q \in {<<>>, <<"observe">>, <<"row">>} :
        q # <<"row", "look">> /\ q \notin Rungs /\ q \notin ToLook \cup ToOpen
  BY <1>1, <1>2
<1>5. QED
  BY <1>3, <1>4

\* A statement that neither stores nor tells.
LEMMA StillWork ==
  ASSUME NEW w \in Workers, Work(w), ~Record(w), ~Warn(w), ~Look(w), ~Open(w)
  PROVE  history' = history /\ warned' = warned
<1> USE DEF rest
<1>1. ASSUME Find(w) PROVE history' = history /\ warned' = warned
  BY <1>1, Zenon DEF Find
<1>2. QED
  BY <1>1 DEF Work, Start, Observe, ReadPrevious, Resolve, WriteRow, Touch

\* Comparing checks: what the history stores is told with the incident, or to
\* the one that stands.
LEMMA OthersTell ==
  ASSUME JobsInv, WaitInv, WindowInv, Undisturbed, Levelled, kind' = kind,
         NEW w \in Workers, OtherOnWay(worker[w]), Work(w),
         worker[w].plan \notin ToLook \cup ToOpen => Announced
  PROVE  OtherOnWay(worker[w])' /\ (worker'[w].plan \notin ToLook \cup ToOpen => Announced')
<1> DEFINE old == worker[w]
           new == worker'[w]
           Tells == ToLook \cup ToOpen
           told == OtherOnWay(worker[w])' /\ (new.plan \notin Tells => Announced')
<1>0. /\ ~Laddered /\ kind \in {"broken_links", "lighthouse"} /\ Levelled'
      /\ target \in Seen /\ target.days \in Int
      /\ old \in Job /\ old.plan \in Plans /\ old.elapsed = 0 /\ ~window /\ ~old.inWindow
  BY DEF JobsInv, Seen, Job, WaitInv, WindowInv, Undisturbed, Calm, Laddered, Levelled, Compared
<1>1. ASSUME new.plan \notin Rungs \cup Tells, new.plan # <<"row", "look">>
      PROVE  OtherOnWay(worker[w])'
  <2>1. <<"record", "row">> \in Rungs /\ <<"record", "look", "row">> \in Rungs
    BY DEF Rungs, ToRecord
  <2>2. QED
    BY <1>1, <2>1 DEF OtherOnWay
<1>2. /\ \A q \in Beginning \cup ToFind \cup ToResolve \cup {<<>>, <<"row">>} :
           q \notin Rungs \cup Tells /\ q # <<"row", "look">>
      /\ \A q \in Rungs : q \notin Tells /\ q # <<"row", "look">>
  <2>1. \A q \in Tells : Head(q) \in {"look", "open"} /\ q # <<>>
    BY DEF ToLook, ToOpen
  <2>2. \A q \in Beginning \cup ToFind \cup ToResolve \cup {<<>>, <<"row">>} :
           q = <<>> \/ Head(q) \in {"observe", "touch", "read", "find", "resolve", "row"}
    BY DEF Beginning, ToFind, ToResolve
  <2>3. /\ \A q \in Beginning : q # <<"row", "look">>
        /\ \A q \in ToFind \cup ToResolve : q # <<"row", "look">>
        /\ \A q \in {<<>>, <<"row">>} : q # <<"row", "look">>
    <3>1. \A q \in Beginning : q # <<"row", "look">>
      BY DEF Beginning
    <3>2. \A q \in ToFind : q # <<"row", "look">>
      BY DEF ToFind
    <3>3. \A q \in ToResolve : q # <<"row", "look">>
      BY DEF ToResolve
    <3>4. <<>> # <<"row", "look">> /\ <<"row">> # <<"row", "look">>
      OBVIOUS
    <3>5. QED
      BY <3>1, <3>2, <3>3, <3>4
  <2>4. \A q \in Rungs : q \notin Tells /\ q # <<"row", "look">>
    BY PastTheLadder DEF ToRow
  <2>5. <<"row">> \in ToRow
    BY DEF ToRow
  <2>6. QED
    BY <2>1, <2>2, <2>3, <2>4, <2>5, PastTheLadder
<1>3. ASSUME ~Record(w), ~Warn(w), ~Look(w), ~Open(w)
      PROVE  history' = history /\ warned' = warned /\ Announced /\ Announced'
  BY <1>3, StillWork, SameTold, WorkAtStep
<1>4. ASSUME NEW j \in {1, 2}, Start(w, j) PROVE told
  <2>1. ~Record(w) /\ ~Warn(w) /\ ~Look(w) /\ ~Open(w)
    BY <1>4 DEF Start, Record, Warn, Look, Open, AtStep
  <2>2. QED
    BY <1>1, <1>2, <1>3, <1>4, <2>1, StartMoves
<1>5. ASSUME Observe(w) PROVE told
  <2>1. ~Record(w) /\ ~Warn(w) /\ ~Look(w) /\ ~Open(w)
    BY <1>5 DEF Observe, Record, Warn, Look, Open, AtStep
  <2>2. /\ new.plan = Plan(target, old.job)
        /\ new.plan # <<>> => new.seen = target /\ new.stamp = target.days + 0
    BY <1>0, <1>5, ObserveMoves
  <2>3. \/ new.plan = <<"touch">>
        \/ new.plan = <<"read", "record", "look", "row">>
        \/ new.plan = <<"record", "look", "row">>
    BY <1>0, <2>2, PlanIs DEF AllKinds
  <2>4. CASE new.plan = <<"touch">>
    BY <1>1, <1>2, <1>3, <2>1, <2>4 DEF Beginning
  <2>5. CASE \/ new.plan = <<"read", "record", "look", "row">>
             \/ new.plan = <<"record", "look", "row">>
    <3>0. /\ <<"read", "record", "look", "row">> \in Rungs /\ <<"record", "look", "row">> \in Rungs
          /\ <<"read", "record", "look", "row">> # <<"record", "look", "row">>
          /\ <<"read", "record", "look", "row">> # <<"record", "row">>
          /\ <<"record", "look", "row">> # <<"record", "row">>
          /\ <<"read", "record", "look", "row">> # <<>> /\ <<"record", "look", "row">> # <<>>
      BY DEF Rungs, ToRead, ToRecord
    <3>1. /\ new.plan \in {<<"read", "record", "look", "row">>, <<"record", "look", "row">>}
          /\ new.plan \in Rungs /\ new.plan # <<>> /\ new.plan # <<"record", "row">>
      BY <2>5, <3>0
    <3>2. new.stamp = new.seen.days
      BY <1>0, <2>2, <3>1
    <3>3. OtherOnWay(worker[w])'
      BY <1>0, <1>2, <3>1, <3>2 DEF OtherOnWay
    <3>4. QED
      BY <1>3, <2>1, <3>3
  <2>6. QED
    BY <2>3, <2>4, <2>5
<1>6. ASSUME ReadPrevious(w) PROVE told
  <2>1. ~Record(w) /\ ~Warn(w) /\ ~Look(w) /\ ~Open(w)
    BY <1>6 DEF ReadPrevious, Record, Warn, Look, Open, AtStep
  <2>2. /\ Carries(old, new) /\ old.plan \in ToRead \cup {<<"read", "observe">>}
        /\ Follows(old) => new.plan = Tail(old.plan)
        /\ ~Follows(old) => new.plan = <<"record">> \o SubSeq(old.plan, 4, Len(old.plan))
        /\ new.stamp = old.stamp /\ new.rung = Previous
    BY <1>0, <1>6, ReadMoves DEF Laddered
  <2>3. CASE old.plan = <<"read", "observe">>
    <3>1. Follows(old)
      BY <2>3 DEF Follows, JobsInv
    <3>2. new.plan = <<"observe">>
      BY <2>2, <2>3, <3>1, Tails
    <3>3. QED
      BY <1>1, <1>2, <1>3, <2>1, <3>2 DEF Beginning
  <2>4. CASE old.plan # <<"read", "observe">>
    <3>1. old.plan \in Rungs /\ old.plan \in ToRead
      BY <2>2, <2>4 DEF Rungs
    <3>2. old.plan = <<"read", "record", "look", "row">>
      BY <3>1 DEF OtherOnWay, ToRead
    <3>3. new.stamp = new.seen.days
      BY <2>2, <3>1 DEF OtherOnWay, Carries
    <3>4. history' = history
      BY <1>3, <2>1
    <3>5. CASE Follows(old)
      <4>1. new.plan = <<"record", "look", "row">>
        BY <2>2, <3>2, <3>5, Tails
      <4>2. new.plan \in Rungs /\ new.plan # <<"record", "row">>
        BY <4>1 DEF Rungs, ToRecord
      <4>3. OtherOnWay(worker[w])'
        BY <1>2, <3>3, <4>1, <4>2 DEF OtherOnWay
      <4>4. QED
        BY <1>3, <2>1, <4>3
    <3>6. CASE ~Follows(old)
      <4>1. new.plan = <<"record", "row">> /\ new.seen = old.seen
        BY <2>2, <3>2, <3>6, Skips DEF Carries
      <4>2. ~RoseTo(new.rung, new.seen.days)
        BY <1>0, <2>2, <3>6, <4>1 DEF Follows
      <4>3. new.plan \in Rungs /\ new.plan # <<"record", "look", "row">>
        BY <4>1 DEF Rungs, ToRecord
      <4>4. RoseTo(worker[w].rung, worker[w].seen.days)' <=> RoseTo(new.rung, new.seen.days)
        BY DEF RoseTo
      <4>5. OtherOnWay(worker[w])'
        BY <1>0, <1>2, <3>3, <4>1, <4>2, <4>3, <4>4 DEF OtherOnWay
      <4>6. QED
        BY <1>3, <2>1, <4>5
    <3>7. QED
      BY <3>5, <3>6
  <2>5. QED
    BY <2>3, <2>4
<1>7. ASSUME new.plan = Tail(old.plan), old.plan \notin ToRead, old.plan \notin ToRecord,
             old.plan \notin ToWarn, old.plan # <<"row", "look">>, old.plan # <<>>
      PROVE  OtherOnWay(worker[w])'
  BY <1>0, <1>1, <1>7, TailIsPast
<1>8. ASSUME NEW s \in {"open", "row", "touch", "look", "find", "resolve"}, AtStep(w, s)
      PROVE  old.plan \notin ToRead /\ old.plan \notin ToRecord /\ old.plan \notin ToWarn
             /\ old.plan # <<"row", "look">> /\ old.plan # <<>>
  <2>1. Head(old.plan) = s /\ old.plan # <<>>
    BY <1>8, AtAStep
  <2>2. /\ \A q \in ToRead : Head(q) = "read"
        /\ \A q \in ToRecord : Head(q) = "record"
        /\ \A q \in ToWarn : Head(q) = "warn"
    BY DEF ToRead, ToRecord, ToWarn
  <2>3. QED
    BY <1>0, <2>1, <2>2 DEF OtherOnWay
<1>9. ASSUME Record(w) PROVE told
  <2>1. /\ old.plan \in ToRecord /\ new.plan = Tail(old.plan)
        /\ Carries(old, new) /\ new.rung = old.rung
        /\ history'.days = old.stamp /\ history'.serial = old.seen.serial
        /\ history'.before = old.rung
    BY <1>9, RecordMoves DEF Levelled
  <2>2. warned' = warned
    BY <1>9 DEF Record, rest
  <2>3. old.plan \in Rungs
    BY <2>1 DEF Rungs
  <2>4. Announced
    BY <1>2, <2>3
  <2>5. CASE old.plan = <<"record", "row">>
    <3>1. new.plan = <<"row">>
      BY <2>1, <2>5, Tails
    <3>2. ~RoseTo(old.rung, old.seen.days) /\ old.stamp = old.seen.days
      BY <2>3, <2>5 DEF OtherOnWay
    <3>3. ~RoseTo(history.before, history.days)'
      BY <1>0, <2>1, <3>2 DEF RoseTo
    <3>4. Announced'
      BY <1>0, <3>3 DEF Announced
    <3>5. QED
      BY <1>1, <1>2, <3>1, <3>4
  <2>6. CASE old.plan = <<"record", "look", "row">>
    <3>1. new.plan = <<"look", "row">> /\ new.seen = old.seen
      BY <2>1, <2>6, Tails DEF Carries
    <3>2. <<"look", "row">> \in Tells /\ <<"look", "row">> # <<"row", "look">>
          /\ <<"look", "row">> # <<"record", "row">>
          /\ <<"look", "row">> # <<"record", "look", "row">>
      BY DEF ToLook
    <3>3. <<"look", "row">> \notin Rungs
      BY <1>2, <3>2
    <3>4. old.stamp = old.seen.days
      BY <2>3 DEF OtherOnWay
    <3>5. /\ history'.serial = new.seen.serial
          /\ history'.days = new.seen.days /\ history'.before = new.rung
      BY <1>0, <2>1, <2>6, <3>1, <3>4 DEF OtherOnWay
    <3>6. OtherOnWay(worker[w])'
      BY <1>0, <3>1, <3>2, <3>3, <3>5 DEF OtherOnWay
    <3>7. QED
      BY <3>1, <3>2, <3>6
  <2>7. QED
    BY <2>1, <2>3, <2>5, <2>6 DEF OtherOnWay, ToRecord
\* Whoever tells of the record leaves it announced.
<1>10. /\ Tell(old) = warned \cup {<<old.seen.serial, 0>>}
       /\ old.plan \in Tells /\ warned' = Tell(old) /\ history' = history => Announced'
  <2>1. Tell(old) = warned \cup {<<old.seen.serial, 0>>}
    BY DEF Tell, Levelled
  <2>2. ASSUME old.plan \in Tells, warned' = Tell(old), history' = history PROVE Announced'
    <3>1. history'.serial = old.seen.serial
      BY <2>2 DEF OtherOnWay
    <3>2. QED
      BY <1>0, <2>1, <2>2, <3>1 DEF Announced
  <2>3. QED
    BY <2>1, <2>2
<1>11. ASSUME Look(w) PROVE told
  <2> DEFINE muted == IF kind \in {"performance", "broken_links"} THEN window ELSE old.inWindow
             wanted == kind = "broken_links" => RoseTo(old.rung, old.seen.days)
             opens == wanted /\ Standing(old) = {} /\ ~muted
  <2>1. /\ old.plan \in ToLook /\ old.plan \in Tells
        /\ opens => new.plan \in ToOpen
        /\ ~opens => new.plan = Tail(old.plan)
        /\ new.plan # <<>> => Carries(old, new) /\ new.rung = old.rung
        /\ warned' = IF wanted /\ ~opens /\ ~muted THEN Tell(old) ELSE warned
    BY <1>11, LookMoves
  <2>2. history' = history
    BY <1>11 DEF Look
  <2>3. ~muted
    BY <1>0
  <2>4. CASE opens
    <3>1. new.plan \in ToOpen
      BY <2>1, <2>4
    <3>2. /\ \A q \in ToOpen : q # <<>> /\ q # <<"row", "look">>
          /\ <<"record", "row">> \in Rungs /\ <<"record", "look", "row">> \in Rungs
      BY DEF ToOpen, Rungs, ToRecord
    <3>3. new.plan # <<>> /\ new.plan \notin Rungs /\ new.plan # <<"row", "look">>
      BY <3>1, <3>2, PastTheLadder
    <3>4. new.seen = old.seen /\ new.rung = old.rung
      BY <2>1, <3>3 DEF Carries
    <3>5. /\ history'.serial = new.seen.serial
          /\ history'.days = new.seen.days /\ history'.before = new.rung
      BY <2>1, <2>2, <3>4 DEF OtherOnWay
    <3>6. OtherOnWay(worker[w])'
      BY <1>0, <3>2, <3>3, <3>5 DEF OtherOnWay
    <3>7. QED
      BY <3>1, <3>6
  <2>5. CASE ~opens
    <3>1. OtherOnWay(worker[w])'
      BY <1>7, <1>8, <1>11, <2>1, <2>5 DEF Look
    <3>2. CASE wanted
      <4>1. warned' = Tell(old)
        BY <2>1, <2>3, <2>5, <3>2
      <4>2. QED
        BY <1>10, <2>1, <2>2, <3>1, <4>1
    <3>3. CASE ~wanted
      <4>1. kind = "broken_links" /\ ~RoseTo(old.rung, old.seen.days)
        BY <3>3
      <4>2. history.days = old.seen.days /\ history.before = old.rung
        BY <1>0, <2>1, <4>1 DEF OtherOnWay
      <4>3. ~RoseTo(history.before, history.days)'
        BY <2>2, <4>1, <4>2 DEF RoseTo
      <4>4. Announced'
        BY <1>0, <4>1, <4>3 DEF Announced
      <4>5. QED
        BY <3>1, <4>4
    <3>4. QED
      BY <3>2, <3>3
  <2>6. QED
    BY <2>4, <2>5
<1>12. ASSUME Open(w) PROVE told
  <2>1. AtStep(w, "open") /\ Go(w, Onward(old)) /\ history' = history /\ warned' = Tell(old)
    BY <1>12 DEF Open
  <2>2. old.plan \in ToOpen /\ new.plan = Tail(old.plan)
    BY <2>1, AtAStep, ByStep, OnwardMoves
  <2>3. OtherOnWay(worker[w])'
    BY <1>7, <1>8, <2>1, <2>2
  <2>4. QED
    BY <1>10, <2>1, <2>2, <2>3
<1>13. ASSUME NEW s \in {"row", "touch"}, AtStep(w, s), Go(w, Onward(old))
       PROVE  OtherOnWay(worker[w])'
  <2>1. new.plan = Tail(old.plan)
    BY <1>13, OnwardMoves
  <2>2. QED
    BY <1>7, <1>8, <1>13, <2>1
<1>14. ASSUME Find(w) PROVE OtherOnWay(worker[w])'
  <2>1. AtStep(w, "find")
    BY <1>14, Zenon DEF Find
  <2>2. new.plan = Tail(old.plan) \/ new.plan \in ToResolve
    BY <1>14, FindMoves
  <2>3. QED
    BY <1>1, <1>2, <1>7, <1>8, <2>1, <2>2
<1>15. ASSUME Resolve(w) PROVE OtherOnWay(worker[w])'
  <2>1. AtStep(w, "resolve")
    BY <1>15 DEF Resolve
  <2>2. old.plan \in ToResolve /\ new.plan \in {old.plan, Tail(old.plan)}
    BY <1>15, ResolveMoves
  <2>3. QED
    BY <1>1, <1>2, <1>7, <1>8, <2>1, <2>2
<1>16. ASSUME Find(w) \/ Resolve(w) \/ WriteRow(w) \/ Touch(w) PROVE told
  <2>1. \E s \in {"find", "resolve", "row", "touch"} : AtStep(w, s)
    <3>1. Find(w) => AtStep(w, "find")
      BY Zenon DEF Find
    <3>2. QED
      BY <1>16, <3>1 DEF Resolve, WriteRow, Touch
  <2>2. ~Record(w) /\ ~Warn(w) /\ ~Look(w) /\ ~Open(w)
    BY <2>1 DEF AtStep, Record, Warn, Look, Open
  <2>3. OtherOnWay(worker[w])'
    BY <1>13, <1>14, <1>15, <1>16 DEF WriteRow, Touch
  <2>4. QED
    BY <1>3, <2>2, <2>3
<1>17. ~Warn(w)
  <2>1. Warn(w) => worker[w].plan \in ToWarn
    BY AtAStep, ByStep DEF Warn
  <2>2. QED
    BY <1>0, <2>1 DEF WaitInv, Warning
<1>18. QED
  BY <1>4, <1>5, <1>6, <1>9, <1>11, <1>12, <1>16, <1>17 DEF Work

\* No plan is none of those on the way.
LEMMA NoPlan ==
  /\ <<>> \notin Rungs /\ <<>> \notin ToWarn /\ <<>> \notin ToLook \cup ToOpen
  /\ <<>> # <<"row", "look">>
  /\ {<<"read", "record", "look", "row">>, <<"record", "look", "row">>,
      <<"record", "find", "row">>, <<"record", "row">>,
      <<"read", "record", "warn", "row">>, <<"record", "warn", "row">>,
      <<"warn", "row">>} \subseteq Rungs
<1>1. <<>> \notin Rungs
  BY PastTheLadder
<1>2. <<>> \notin ToLook \cup ToOpen /\ <<>> # <<"row", "look">>
  BY DEF ToLook, ToOpen
<1>3. QED
  BY <1>1, <1>2 DEF Rungs, ToRead, ToRecord, ToWarn

\* A worker without a job is on no way.
LEMMA IdleOnWay ==
  ASSUME NEW st, st.plan = <<>>
  PROVE  SslOnWay(st) /\ OtherOnWay(st) /\ st.plan \notin Telling
<1>1. SslOnWay(st)
  BY NoPlan DEF SslOnWay
<1>2. OtherOnWay(st)
  BY NoPlan DEF OtherOnWay
<1>3. QED
  BY <1>1, <1>2, NoPlan DEF Telling

\* History and announcements stay in step.
LEMMA ToldStep ==
  JobsInv /\ SoloInv /\ WindowInv /\ WaitInv /\ LadderInv /\ ToldInv /\ [Next]_vars => ToldInv'
<1> SUFFICES ASSUME JobsInv, SoloInv, WindowInv, WaitInv, LadderInv, ToldInv, [Next]_vars,
                    Undisturbed'
             PROVE  /\ (\A w \in Workers : worker[w].plan \notin Telling)' => Announced'
                    /\ \A w \in Workers : OnWay(worker[w])'
  BY DEF ToldInv
<1>0. /\ kind' = kind /\ kind \in AllKinds /\ Telling' = Telling
      /\ "overlap" \notin mishaps' /\ "crash" \notin mishaps' /\ Undisturbed /\ Orderly
      /\ (Levelled' <=> Levelled)
  BY KindStays, MishapsStay, ChecksAssumption
     DEF Undisturbed, Orderly, Calm, Telling, JobsInv, ChecksAssumption, Levelled
<1>1. /\ (\A w \in Workers : worker[w].plan \notin Telling) => Announced
      /\ \A w \in Workers : OnWay(worker[w])
  BY <1>0 DEF ToldInv
<1>2. ASSUME NEW w \in Workers, Work(w)
      PROVE  /\ (\A v \in Workers : worker[v].plan \notin Telling)' => Announced'
             /\ \A v \in Workers : OnWay(worker[v])'
  <2>1. \A v \in Workers : v # w => worker[v].plan = <<>> /\ worker'[v].plan = <<>>
    BY <1>0, <1>2, SoloStays, WorkLooks DEF Alone, Busy
  <2>2. worker[w].plan \notin Telling => Announced
    BY <1>1, <2>1, IdleOnWay
  <2>3. OnWay(worker[w])' /\ (worker'[w].plan \notin Telling => Announced')
    <3>1. CASE kind = "ssl"
      <4>1. Before(history, target) /\ OnLadder(worker[w])
        BY <1>0, <3>1 DEF LadderInv, Laddered
      <4>2. SslOnWay(worker[w]) /\ (worker[w].plan \notin ToWarn => Announced)
        BY <1>1, <2>2, <3>1 DEF OnWay, Telling
      <4>3. SslOnWay(worker[w])' /\ (worker'[w].plan \notin ToWarn => Announced')
        BY <1>0, <1>2, <3>1, <4>1, <4>2, SslTells
      <4>4. QED
        BY <1>0, <3>1, <4>3 DEF OnWay, Telling, Levelled, Compared
    <3>2. CASE Levelled
      <4>1. kind # "ssl"
        BY <3>2 DEF Levelled, Compared
      <4>2. OtherOnWay(worker[w]) /\ (worker[w].plan \notin ToLook \cup ToOpen => Announced)
        BY <1>1, <2>2, <3>2, <4>1 DEF OnWay, Telling
      <4>3. OtherOnWay(worker[w])' /\ (worker'[w].plan \notin ToLook \cup ToOpen => Announced')
        BY <1>0, <1>2, <3>2, <4>2, OthersTell
      <4>4. QED
        BY <1>0, <4>1, <4>3 DEF OnWay, Telling
    <3>3. CASE kind # "ssl" /\ ~Levelled
      BY <1>0, <3>3 DEF OnWay, Announced
    <3>4. QED
      BY <3>1, <3>2, <3>3
  <2>4. ASSUME NEW v \in Workers, v # w PROVE OnWay(worker[v])'
    <3>1. worker'[v].plan = <<>>
      BY <2>1, <2>4
    <3>2. SslOnWay(worker[v])'
      BY <3>1, NoPlan DEF SslOnWay
    <3>3. OtherOnWay(worker[v])'
      BY <3>1, NoPlan DEF OtherOnWay
    <3>4. QED
      BY <3>2, <3>3 DEF OnWay
  <2>5. QED
    BY <1>0, <2>3, <2>4
<1>3. ASSUME NEW w \in Workers, Crash(w) PROVE FALSE
  BY <1>0, <1>3 DEF Crash
<1>4. ASSUME UNCHANGED <<history, warned>>,
             \A w \in Workers : /\ worker'[w].plan = worker[w].plan
                                /\ worker'[w].seen = worker[w].seen
                                /\ worker'[w].rung = worker[w].rung
                                /\ worker'[w].stamp = worker[w].stamp
      PROVE  /\ (\A w \in Workers : worker[w].plan \notin Telling)' => Announced'
             /\ \A w \in Workers : OnWay(worker[w])'
  <2>1. Announced' <=> Announced
    BY <1>0, <1>4, SameTold
  <2>2. ASSUME NEW w \in Workers PROVE OnWay(worker[w])'
    <3>1. OnWay(worker[w])
      BY <1>1
    <3>2. /\ OnRung(worker[w].seen.serial, worker[w].seen.days)'
               <=> OnRung(worker[w].seen.serial, worker[w].seen.days)
          /\ RoseTo(worker[w].rung, worker[w].seen.days)'
               <=> RoseTo(worker[w].rung, worker[w].seen.days)
      BY <1>0, <1>4 DEF OnRung, CrossedThreshold, RoseTo
    <3>3. kind = "ssl" => SslOnWay(worker[w])'
      BY <1>4, <3>1, <3>2 DEF OnWay, SslOnWay
    <3>4. Levelled => OtherOnWay(worker[w])'
      BY <1>0, <1>4, <3>1, <3>2 DEF OnWay, OtherOnWay
    <3>5. QED
      BY <1>0, <3>3, <3>4 DEF OnWay
  <2>3. QED
    BY <1>0, <1>1, <1>4, <2>1, <2>2
<1>5. CASE DayPasses
  <2>1. UNCHANGED <<history, warned>>
    BY <1>5 DEF DayPasses, rest
  <2>2. QED
    BY <1>4, <1>5, <2>1, DayKeepsJobs
<1>6. CASE UNCHANGED <<worker, history, warned, repeated>>
  BY <1>4, <1>6
<1>7. QED
  BY <1>2, <1>3, <1>5, <1>6, StepIs

\* Nothing is stored and nobody is on the way.
LEMMA ToldInit == Init => ToldInv
<1> SUFFICES ASSUME Init PROVE ToldInv
  OBVIOUS
<1>1. \A w \in Workers : worker[w].plan = <<>>
  BY IdleJob DEF Init
<1>2. history = NoHistory /\ history.before = None
  BY DEF Init, NoHistory
<1>3. Announced
  BY <1>2 DEF Announced, RoseTo
<1>4. QED
  BY <1>1, <1>3, IdleOnWay DEF ToldInv, OnWay

\* HistoryIsAnnounced (RunSslCheck stores the certificate and then
\* warns; RunCrawl and RunLighthouseAudit store what
\* they found and then open, or speak of the incident that stands): between
\* checks the stored row was told to someone, whatever days, renewals and
\* changes come, as long as checks do not overlap or die, no day ends while one
\* waits for an answer, and no maintenance window begins or ends.
THEOREM WhatIsStoredWasTold == Spec => []HistoryIsAnnounced
<1>1. ToldInv => HistoryIsAnnounced
  <2> SUFFICES ASSUME ToldInv, AtRest, Undisturbed
               PROVE  /\ (kind = "ssl" /\ history # NoHistory /\ history.days >= 0
                            /\ CrossedThreshold(history.days) # None) =>
                           <<history.serial, CrossedThreshold(history.days)>> \in warned
                      /\ kind \in Compared /\ RoseTo(history.before, history.days) =>
                           <<history.serial, 0>> \in warned
    BY DEF HistoryIsAnnounced, Undisturbed
  <2>1. \A w \in Workers : worker[w].plan = <<>>
    BY DEF AtRest, Busy
  <2>2. Announced
    BY <2>1, IdleOnWay DEF ToldInv
  <2>3. QED
    BY <2>2 DEF Announced, OnRung, Levelled
<1>2. QED
  BY <1>1, JobsThroughout, SoloInit, SoloStep, StatusInit, WindowStep, LadderInit, WaitStep,
     LadderStep, ToldInit, ToldStep, PTL
     DEF Spec
=============================================================================
