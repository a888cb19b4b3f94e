-------------------------- MODULE MigrationsProofs --------------------------
(***************************************************************************)
(* Proofs, for any number of processes and mishaps, that the next start    *)
(* brings the database to the present schema with every goal in it.        *)
(*                                                                         *)
(* The databases there may be are few: one of those that are found, or the *)
(* one its transaction leads to, with what of schema.sql is applied since  *)
(* (AsFound, Brings). A process that decided on the one may find the other *)
(* when its turn comes; but the transaction of a start cannot be run again *)
(* on what it leaves, for its first statements fail there (Once), so that  *)
(* whatever was decided either leads from the one to the other or changes  *)
(* nothing.                                                                *)
(***************************************************************************)
EXTENDS Migrations, SequenceTheorems, WellFoundedInduction, TLAPS

\* A set of naturals that is not empty has a least member.
LEMMA LeastExists ==
    ASSUME NEW S \in SUBSET Nat, S # {} PROVE \E k \in S : \A j \in S : k <= j
<1>1. PICK k \in S : \A j \in S : <<j, k>> \notin OpToRel(<, Nat)
  BY NatLessThanWellFounded, WFMin, Zenon
<1>2. ASSUME NEW j \in S, j < k PROVE <<j, k>> \in OpToRel(<, Nat)
  BY <1>2 DEF OpToRel
<1>3. ASSUME NEW j \in S PROVE ~ (j < k)
  BY <1>1, <1>2, Zenon
<1> QED BY <1>3

\* The databases a sequence of statements leaves, one after the other.
LEMMA RanSteps ==
    ASSUME NEW d, NEW s, Len(s) \in Nat
    PROVE  /\ Ran(d, s)[0] = d
           /\ \A i \in 1..Len(s) : Ran(d, s)[i] = Executed(Ran(d, s)[i - 1], s[i])
<1> DEFINE Step(f, i) == IF i = 0 THEN d ELSE Executed(f[i - 1], s[i])
           Runs(f, n) == f = [i \in 0..n |-> Step(f, i)]
           Bad == {n \in Nat : \A f : ~ Runs(f, n)}
<1>1. Bad = {}
  <2>1. SUFFICES ASSUME Bad # {} PROVE FALSE
    OBVIOUS
  <2>2. PICK k \in Bad : \A j \in Bad : k <= j
    BY <2>1, LeastExists
  <2>3. k \in Nat
    OBVIOUS
  <2>4. Runs([i \in 0..0 |-> d], 0)
    OBVIOUS
  <2>5. k # 0
    <3>1. ~ Runs([i \in 0..0 |-> d], k)
      OBVIOUS
    <3> QED BY <3>1, <2>4, Zenon
  <2>6. k - 1 \in Nat /\ k - 1 \notin Bad
    <3> HIDE DEF Bad
    <3> QED BY <2>2, <2>3, <2>5
  <2>7. PICK f : Runs(f, k - 1)
    <3> HIDE DEF Runs
    <3> QED BY <2>6
  <2> DEFINE g == [i \in 0..k |-> IF i = k THEN Executed(f[k - 1], s[k]) ELSE f[i]]
  <2>8. ASSUME NEW i \in 0..k PROVE g[i] = Step(g, i)
    <3>1. CASE i = k
      <4>1. k - 1 \in 0..k /\ k - 1 # k
        BY <2>3, <2>5
      <4>2. g[k - 1] = f[k - 1] /\ g[k] = Executed(f[k - 1], s[k])
        BY <4>1, <3>1
      <4> QED BY <4>2, <3>1, <2>5
    <3>2. CASE i # k
      <4>1. i \in 0..(k - 1) /\ (i # 0 => i - 1 \in 0..(k - 1))
        BY <3>2, <2>3
      <4>2. f[i] = Step(f, i)
        BY <2>7, <4>1
      <4>3. g[i] = f[i] /\ (i # 0 => g[i - 1] = f[i - 1])
        BY <4>1, <2>3
      <4> QED BY <4>2, <4>3
    <3> QED BY <3>1, <3>2
  <2>9. Runs(g, k)
    <3>1. g = [i \in 0..k |-> g[i]]
      OBVIOUS
    <3> HIDE DEF g
    <3>2. [i \in 0..k |-> g[i]] = [i \in 0..k |-> Step(g, i)]
      BY <2>8
    <3> QED BY <3>1, <3>2
  <2> QED BY <2>9
<1>2. PICK g : Runs(g, Len(s))
  BY <1>1
<1>3. Ran(d, s) = CHOOSE f : Runs(f, Len(s))
  BY DEF Ran
<1>4. Runs(Ran(d, s), Len(s))
  <2> HIDE DEF Runs
  <2> QED BY <1>2, <1>3
<1> QED BY <1>4

\* A start of one transaction runs its statements.
LEMMA FlattenOne == ASSUME NEW S, NEW t \in Seq(S) PROVE FlattenSeq(<<t>>) = t
<1> DEFINE Step(f, i) == IF i = 1 THEN <<t>>[i] ELSE f[i - 1] \o <<t>>[i]
           Runs(f) == f = [i \in 1..1 |-> Step(f, i)]
<1>1. Runs([i \in 1..1 |-> t])
  OBVIOUS
<1>2. FlattenSeq(<<t>>) = (CHOOSE f : Runs(f))[1]
  BY DEF FlattenSeq
<1>3. Runs(CHOOSE f : Runs(f))
  <2> HIDE DEF Runs
  <2> QED BY <1>1
<1> QED BY <1>2, <1>3

\* One of none runs nothing.
LEMMA FlattenNone == FlattenSeq(<<>>) = <<>>
  BY DEF FlattenSeq

-----------------------------------------------------------------------------
(* The transactions. *)

FreshTx   == <<HistoryTable, Stamp(3, "fresh-create")>>
AdoptTx   == <<HistoryTable, Stamp(3, "adopted-without-history")>>
UpgradeTx == <<Create("embeddings"), Stamp(3, "step")>>
LegacyTx  == <<HistoryTable, Stamp(1, "legacy-baseline"),
               Drop("coverage_maps"), Create("coverage_roots"), Create("coverage_entries"),
               GoalStep("create goals_v2"), GoalStep("copy goals"),
               GoalStep("drop goals"), GoalStep("rename goals_v2"), Stamp(2, "step"),
               Create("embeddings"), Stamp(3, "step")>>

AllStatements ==
    {HistoryTable, Stamp(1, "legacy-baseline"), Stamp(3, "fresh-create"),
     Stamp(3, "adopted-without-history"), Stamp(2, "step"), Stamp(3, "step"),
     Drop("coverage_maps"), Create("coverage_roots"), Create("coverage_entries"),
     Create("embeddings"), GoalStep("create goals_v2"), GoalStep("copy goals"),
     GoalStep("drop goals"), GoalStep("rename goals_v2")}

\* They are sequences of statements.
LEMMA TxSeqs ==
    /\ FreshTx \in Seq(AllStatements) /\ Len(FreshTx) = 2
    /\ AdoptTx \in Seq(AllStatements) /\ Len(AdoptTx) = 2
    /\ UpgradeTx \in Seq(AllStatements) /\ Len(UpgradeTx) = 2
    /\ LegacyTx \in Seq(AllStatements) /\ Len(LegacyTx) = 12
  BY DEF FreshTx, AdoptTx, UpgradeTx, LegacyTx, AllStatements

\* How a concatenation is recognised.
LEMMA ConcatIs ==
    ASSUME NEW S, NEW u \in Seq(S), NEW v \in Seq(S), NEW w \in Seq(S),
           Len(w) = Len(u) + Len(v),
           \A i \in 1..Len(u) : w[i] = u[i],
           \A i \in 1..Len(v) : w[Len(u) + i] = v[i]
    PROVE  u \o v = w
<1>1. u \o v \in Seq(S) /\ Len(u \o v) = Len(u) + Len(v)
  BY ConcatProperties
<1>2. Len(u) \in Nat /\ Len(v) \in Nat
  BY LenProperties
<1>3. ASSUME NEW i \in 1..Len(w) PROVE (u \o v)[i] = w[i]
  <2>1. (u \o v)[i] = IF i <= Len(u) THEN u[i] ELSE v[i - Len(u)]
    BY ConcatProperties
  <2>2. CASE i <= Len(u)
    BY <2>1, <2>2, <1>2
  <2>3. CASE ~ (i <= Len(u))
    <3>1. i - Len(u) \in 1..Len(v) /\ i = Len(u) + (i - Len(u))
      BY <2>3, <1>2
    <3> QED BY <2>1, <2>3, <3>1
  <2> QED BY <2>2, <2>3
<1> QED BY <1>1, <1>3, SeqEqual

\* Step 3 and its stamp are that transaction.
LEMMA UpgradeIs == UpgradeAndStamp(3) = UpgradeTx
<1> DEFINE u == <<Create("embeddings")>>
           v == <<Stamp(3, "step")>>
<1>1. u \in Seq(AllStatements) /\ v \in Seq(AllStatements) /\ Len(u) = 1 /\ Len(v) = 1
  BY DEF AllStatements
<1>2. (\A i \in 1..1 : UpgradeTx[i] = u[i]) /\ \A i \in 1..1 : UpgradeTx[1 + i] = v[i]
  BY DEF UpgradeTx
<1>3. UpgradeAndStamp(3) = u \o v
  BY DEF UpgradeAndStamp, Upgrade
<1> HIDE DEF u, v
<1>4. Len(UpgradeTx) = Len(u) + Len(v)
  BY <1>1, TxSeqs
<1>5. (\A i \in 1..Len(u) : UpgradeTx[i] = u[i]) /\ \A i \in 1..Len(v) : UpgradeTx[Len(u) + i] = v[i]
  BY <1>1, <1>2
<1> QED
  BY <1>1, <1>3, <1>4, <1>5, TxSeqs, ConcatIs

\* Step 2 and its stamp, statement by statement.
LEMMA UpgradeTwo ==
    Upgrade(2) = <<Drop("coverage_maps"), Create("coverage_roots"), Create("coverage_entries"),
                   GoalStep("create goals_v2"), GoalStep("copy goals"),
                   GoalStep("drop goals"), GoalStep("rename goals_v2")>>
<1>1. \A A, B : (CASE 2 = 2 -> A [] 2 = 3 -> B) = A
  OBVIOUS
<1> QED BY <1>1, Zenon DEF Upgrade

\* A legacy database is brought up in that one transaction.
LEMMA LegacyIs == Legacy = <<LegacyTx>>
<1> DEFINE a == <<HistoryTable, Stamp(1, "legacy-baseline")>>
           u == <<Drop("coverage_maps"), Create("coverage_roots"), Create("coverage_entries"),
                  GoalStep("create goals_v2"), GoalStep("copy goals"),
                  GoalStep("drop goals"), GoalStep("rename goals_v2")>>
           v == <<Stamp(2, "step")>>
           uv == <<Drop("coverage_maps"), Create("coverage_roots"), Create("coverage_entries"),
                   GoalStep("create goals_v2"), GoalStep("copy goals"),
                   GoalStep("drop goals"), GoalStep("rename goals_v2"), Stamp(2, "step")>>
           auv == <<HistoryTable, Stamp(1, "legacy-baseline"),
                   Drop("coverage_maps"), Create("coverage_roots"), Create("coverage_entries"),
                   GoalStep("create goals_v2"), GoalStep("copy goals"),
                   GoalStep("drop goals"), GoalStep("rename goals_v2"), Stamp(2, "step")>>
<1>1. /\ a \in Seq(AllStatements) /\ u \in Seq(AllStatements) /\ v \in Seq(AllStatements)
      /\ uv \in Seq(AllStatements) /\ auv \in Seq(AllStatements)
  BY DEF AllStatements
<1>2. Len(a) = 2 /\ Len(u) = 7 /\ Len(v) = 1 /\ Len(uv) = 8 /\ Len(auv) = 10
  OBVIOUS
<1>3. (\A i \in 1..7 : uv[i] = u[i]) /\ \A i \in 1..1 : uv[7 + i] = v[i]
  OBVIOUS
<1>4. (\A i \in 1..2 : auv[i] = a[i]) /\ \A i \in 1..8 : auv[2 + i] = uv[i]
  OBVIOUS
<1>5. (\A i \in 1..10 : LegacyTx[i] = auv[i]) /\ \A i \in 1..2 : LegacyTx[10 + i] = UpgradeTx[i]
  BY DEF LegacyTx, UpgradeTx
<1>6. UpgradeAndStamp(2) = u \o v
  <2>1. Upgrade(2) = u
    BY UpgradeTwo
  <2> HIDE DEF u
  <2> QED BY <2>1 DEF UpgradeAndStamp
<1>7. Legacy = <<(a \o UpgradeAndStamp(2)) \o UpgradeAndStamp(3)>>
  BY DEF Legacy
<1> HIDE DEF a, u, v, uv, auv
<1>8. u \o v = uv
  <2>1. Len(uv) = Len(u) + Len(v)
    BY <1>2
  <2>2. (\A i \in 1..Len(u) : uv[i] = u[i]) /\ \A i \in 1..Len(v) : uv[Len(u) + i] = v[i]
    BY <1>2, <1>3
  <2> QED BY <1>1, <2>1, <2>2, ConcatIs
<1>9. a \o uv = auv
  <2>1. Len(auv) = Len(a) + Len(uv)
    BY <1>2
  <2>2. (\A i \in 1..Len(a) : auv[i] = a[i]) /\ \A i \in 1..Len(uv) : auv[Len(a) + i] = uv[i]
    BY <1>2, <1>4
  <2> QED BY <1>1, <2>1, <2>2, ConcatIs
<1>10. auv \o UpgradeTx = LegacyTx
  <2>1. Len(LegacyTx) = Len(auv) + Len(UpgradeTx)
    BY <1>2, TxSeqs
  <2>2. /\ \A i \in 1..Len(auv) : LegacyTx[i] = auv[i]
        /\ \A i \in 1..Len(UpgradeTx) : LegacyTx[Len(auv) + i] = UpgradeTx[i]
    BY <1>2, <1>5, TxSeqs
  <2>3. /\ auv \in Seq(AllStatements)
        /\ UpgradeTx \in Seq(AllStatements) /\ LegacyTx \in Seq(AllStatements)
    BY <1>1, TxSeqs
  <2> QED BY <2>1, <2>2, <2>3, ConcatIs
<1>11. UpgradeAndStamp(2) = uv
  BY <1>6, <1>8
<1>12. Legacy = <<auv \o UpgradeAndStamp(3)>>
  BY <1>7, <1>9, <1>11
<1> QED
  BY <1>10, <1>12, UpgradeIs

\* The number of the present version.
LEMMA CurrentIs == Current = 3
  BY DEF Current

-----------------------------------------------------------------------------
(* What each statement does to a database of these tables and rows. *)

\* a database of these tables and rows
Data(ts, gs, new, history) == [tables |-> ts, goals |-> gs, goals_v2 |-> new, history |-> history]

\* A table that is not there is created.
LEMMA CreateDoes ==
    ASSUME NEW ts, NEW gs, NEW new, NEW h, NEW t, NEW more, more = ts \cup {t}, t \notin ts
    PROVE  LET d == Data(ts, gs, new, h) IN
           ~ Fails(d, Create(t)) /\ Executed(d, Create(t)) = Data(more, gs, new, h)
  BY DEF Data, Create, Fails, Executed
\* A table that is there is dropped.
LEMMA DropDoes ==
    ASSUME NEW ts, NEW gs, NEW new, NEW h, NEW t, NEW less, less = ts \ {t}, t \in ts
    PROVE  LET d == Data(ts, gs, new, h) IN
           ~ Fails(d, Drop(t)) /\ Executed(d, Drop(t)) = Data(less, gs, new, h)
  BY DEF Data, Drop, Fails, Executed
\* The table of the history is there after its statement.
LEMMA HistoryDoes ==
    ASSUME NEW ts, NEW gs, NEW new, NEW h
    PROVE  LET d == Data(ts, gs, new, h) IN
           /\ ~ Fails(d, HistoryTable)
           /\ Executed(d, HistoryTable) = Data(ts, gs, new, IF h = None THEN {} ELSE h)
  BY DEF Data, HistoryTable, Fails, Executed
\* A version that has no row gets one.
LEMMA StampDoes ==
    ASSUME NEW ts, NEW gs, NEW new, NEW h, NEW v, NEW m, h # None,
           NEW more, more = h \cup {<<v, m>>}, \A r \in h : r[1] # v
    PROVE  LET d == Data(ts, gs, new, h) IN
           ~ Fails(d, Stamp(v, m)) /\ Executed(d, Stamp(v, m)) = Data(ts, gs, new, more)
  BY DEF Data, Stamp, Fails, Executed
\* A transaction of two statements is not at its end.
LEMMA NotEmpty == \A a, b : <<a, b>> # <<>>
  OBVIOUS
\* goals_v2 is created, ...
LEMMA CreateGoalsDoes ==
    ASSUME NEW ts, NEW gs, NEW h, NEW new, new = Goals("entry_ids", {})
    PROVE  LET d == Data(ts, gs, None, h) IN
           /\ ~ Fails(d, GoalStep("create goals_v2"))
           /\ Executed(d, GoalStep("create goals_v2")) = Data(ts, gs, new, h)
  BY DEF Data, GoalStep, Fails, Executed
\* ... gets the rows of goals, ...
LEMMA CopyGoalsDoes ==
    ASSUME NEW ts, NEW gs, NEW h, NEW new, NEW copied, gs # None, new # None,
           copied = Goals("entry_ids", gs.rows)
    PROVE  LET d == Data(ts, gs, new, h) IN
           /\ ~ Fails(d, GoalStep("copy goals"))
           /\ Executed(d, GoalStep("copy goals")) = Data(ts, gs, copied, h)
  BY DEF Data, GoalStep, Fails, Executed
\* ... goals is dropped, ...
LEMMA DropGoalsDoes ==
    ASSUME NEW ts, NEW gs, NEW h, NEW new, gs # None
    PROVE  LET d == Data(ts, gs, new, h) IN
           /\ ~ Fails(d, GoalStep("drop goals"))
           /\ Executed(d, GoalStep("drop goals")) = Data(ts, None, new, h)
  BY DEF Data, GoalStep, Fails, Executed
\* ... and goals_v2 becomes it.
LEMMA RenameGoalsDoes ==
    ASSUME NEW ts, NEW h, NEW new, new # None
    PROVE  LET d == Data(ts, None, new, h) IN
           /\ ~ Fails(d, GoalStep("rename goals_v2"))
           /\ Executed(d, GoalStep("rename goals_v2")) = Data(ts, new, None, h)
  BY DEF Data, GoalStep, Fails, Executed

-----------------------------------------------------------------------------
(* Histories. *)

\* The first and the last version of a history.
LEMMA SpanIs ==
    ASSUME NEW h, NEW lo \in Nat, NEW hi \in Nat,
           \A r \in h : r[1] \in lo..hi,
           \E r \in h : r[1] = lo, \E r \in h : r[1] = hi
    PROVE  Lowest(h) = lo /\ Highest(h) = hi
<1> DEFINE V == {r[1] : r \in h}
<1>1. lo \in V /\ hi \in V /\ \A w \in V : w \in lo..hi
  OBVIOUS
<1>2. Lowest(h) = CHOOSE v \in V : \A w \in V : v <= w
  <2>1. \A v : (\A r \in h : r[1] >= v) <=> \A w \in V : v <= w
    OBVIOUS
  <2> QED BY <2>1 DEF Lowest
<1>3. Highest(h) = CHOOSE v \in V : \A w \in V : w <= v
  <2>1. \A v : (\A r \in h : r[1] <= v) <=> \A w \in V : w <= v
    OBVIOUS
  <2> QED BY <2>1 DEF Highest
<1> HIDE DEF V
<1>4. ASSUME NEW v \in V, \A w \in V : v <= w PROVE v = lo
  BY <1>1, <1>4
<1>5. ASSUME NEW v \in V, \A w \in V : w <= v PROVE v = hi
  BY <1>1, <1>5
<1>6. (CHOOSE v \in V : \A w \in V : v <= w) = lo
  <2>1. lo \in V /\ \A w \in V : lo <= w
    BY <1>1
  <2> QED BY <2>1, <1>4
<1>7. (CHOOSE v \in V : \A w \in V : w <= v) = hi
  <2>1. hi \in V /\ \A w \in V : w <= hi
    BY <1>1
  <2> QED BY <2>1, <1>5
<1> QED
  BY <1>2, <1>3, <1>6, <1>7

\* The histories a start leaves, or finds at the present version.
Present == {{<<3, "fresh-create">>}, {<<3, "adopted-without-history">>},
            {<<2, "fresh-create">>, <<3, "step">>},
            {<<1, "legacy-baseline">>, <<2, "step">>, <<3, "step">>}}
\* Those it brings to the present version.
Earlier == {{<<2, "fresh-create">>}, {<<1, "legacy-baseline">>, <<2, "step">>}}

\* The histories at the present version are valid.
LEMMA PresentHistories ==
    ASSUME NEW h \in Present PROVE h \in Histories /\ Valid(h) /\ Highest(h) = 3
<1>0. h \in Histories
  BY DEF Present, Histories, Sentinels, Current
<1>1. ASSUME NEW m \in Sentinels, h = {<<3, m>>} PROVE Valid(h) /\ Highest(h) = 3
  <2>0. <<3, m>> \in h /\ \A r \in h : r[1] = 3 /\ r[2] \in Sentinels
    BY <1>1
  <2> HIDE <1>1
  <2>1. (\A r \in h : r[1] \in 3..3) /\ \E r \in h : r[1] = 3
    BY <2>0
  <2>2. Highest(h) = 3 /\ Lowest(h) = 3
    BY <2>1, SpanIs
  <2>3. {r[1] : r \in h} = 3..3
    BY <2>0, <2>1
  <2>4. Valid(h)
    BY <2>0, <2>2, <2>3 DEF Valid, Current
  <2> QED BY <2>2, <2>4
<1>2. CASE h = {<<2, "fresh-create">>, <<3, "step">>}
  <2>00. <<2, "fresh-create">> \in h /\ <<3, "step">> \in h /\ \A r \in h : r[1] \in 2..3
    BY <1>2
  <2>0. (\A r \in h : r[1] \in 2..3) /\ (\E r \in h : r[1] = 2) /\ \E r \in h : r[1] = 3
    BY <2>00
  <2>1. Highest(h) = 3 /\ Lowest(h) = 2
    <3> HIDE <1>2, <2>00, <1>0
    <3>1. 2 \in Nat /\ 3 \in Nat
      OBVIOUS
    <3> QED BY ONLY <2>0, <3>1, SpanIs
  <2>2. {r[1] : r \in h} = 2..3
    BY <1>2
  <2>3. Valid(h)
    BY <1>2, <2>1, <2>2 DEF Valid, Sentinels, Current
  <2> QED BY <1>0, <2>1, <2>3
<1>3. CASE h = {<<1, "legacy-baseline">>, <<2, "step">>, <<3, "step">>}
  <2>00. <<1, "legacy-baseline">> \in h /\ <<2, "step">> \in h /\ <<3, "step">> \in h /\ \A r \in h : r[1] \in 1..3
    BY <1>3
  <2>0. (\A r \in h : r[1] \in 1..3) /\ (\E r \in h : r[1] = 1) /\ \E r \in h : r[1] = 3
    BY <2>00
  <2>1. Highest(h) = 3 /\ Lowest(h) = 1
    BY <2>0, SpanIs
  <2>2. {r[1] : r \in h} = 1..3
    BY <1>3
  <2>3. Valid(h)
    BY <1>3, <2>1, <2>2 DEF Valid, Sentinels, Current
  <2> QED BY <1>0, <2>1, <2>3
<1> QED BY <1>0, <1>1, <1>2, <1>3 DEF Present, Sentinels

\* So are those of version 2.
LEMMA EarlierHistories ==
    ASSUME NEW h \in Earlier PROVE h \in Histories /\ Valid(h) /\ Highest(h) = 2
<1>0. h \in Histories
  BY DEF Earlier, Histories, Sentinels, Current
<1>1. CASE h = {<<2, "fresh-create">>}
  <2>0. (\A r \in h : r[1] \in 2..2) /\ \E r \in h : r[1] = 2
    BY <1>1
  <2>1. Highest(h) = 2 /\ Lowest(h) = 2
    BY <2>0, SpanIs
  <2>2. {r[1] : r \in h} = 2..2
    BY <1>1
  <2>3. Valid(h)
    BY <1>1, <2>1, <2>2 DEF Valid, Sentinels, Current
  <2> QED BY <1>0, <2>1, <2>3
<1>2. CASE h = {<<1, "legacy-baseline">>, <<2, "step">>}
  <2>00. <<1, "legacy-baseline">> \in h /\ <<2, "step">> \in h /\ \A r \in h : r[1] \in 1..2
    BY <1>2
  <2>0. (\A r \in h : r[1] \in 1..2) /\ (\E r \in h : r[1] = 1) /\ \E r \in h : r[1] = 2
    BY <2>00
  <2>1. Highest(h) = 2 /\ Lowest(h) = 1
    BY <2>0, SpanIs
  <2>2. {r[1] : r \in h} = 1..2
    BY <1>2
  <2>3. Valid(h)
    BY <1>2, <2>1, <2>2 DEF Valid, Sentinels, Current
  <2> QED BY <1>0, <2>1, <2>3
<1> QED BY <1>1, <1>2 DEF Earlier

\* The histories that are refused: of a later version, with a sentinel that is
\* not the first row, with a gap.
LEMMA RefusedHistories ==
    /\ ~ Valid({<<4, "fresh-create">>})
    /\ ~ Valid({<<2, "step">>, <<3, "fresh-create">>})
    /\ ~ Valid({<<1, "legacy-baseline">>, <<3, "step">>})
<1>1. ~ Valid({<<4, "fresh-create">>})
  <2> DEFINE h == {<<4, "fresh-create">>}
  <2>1. (\A r \in h : r[1] \in 4..4) /\ \E r \in h : r[1] = 4
    OBVIOUS
  <2> HIDE DEF h
  <2>2. Highest(h) = 4
    BY <2>1, SpanIs
  <2>3. ~ Valid(h)
    BY <2>2 DEF Valid, Current
  <2> QED BY <2>3 DEF h
<1>2. ~ Valid({<<2, "step">>, <<3, "fresh-create">>})
  <2> DEFINE h == {<<2, "step">>, <<3, "fresh-create">>}
  <2>1. (\A r \in h : r[1] \in 2..3) /\ (\E r \in h : r[1] = 2) /\ \E r \in h : r[1] = 3
    OBVIOUS
  <2>2. <<3, "fresh-create">> \in h
    OBVIOUS
  <2> HIDE DEF h
  <2>3. Lowest(h) = 2
    BY <2>1, SpanIs
  <2>4. ~ Valid(h)
    BY <2>2, <2>3 DEF Valid, Sentinels
  <2> QED BY <2>4 DEF h
<1>3. ~ Valid({<<1, "legacy-baseline">>, <<3, "step">>})
  <2> DEFINE h == {<<1, "legacy-baseline">>, <<3, "step">>}
  <2>1. (\A r \in h : r[1] \in 1..3) /\ (\E r \in h : r[1] = 1) /\ \E r \in h : r[1] = 3
    OBVIOUS
  <2>2. 2 \in 1..3 /\ 2 \notin {r[1] : r \in h}
    OBVIOUS
  <2> HIDE DEF h
  <2>3. Lowest(h) = 1 /\ Highest(h) = 3
    BY <2>1, SpanIs
  <2>4. ~ Valid(h)
    BY <2>2, <2>3 DEF Valid
  <2> QED BY <2>4 DEF h
<1> QED BY <1>1, <1>2, <1>3

-----------------------------------------------------------------------------
(* A start on a database as the first process found it. *)

\* The one transaction of the start, and the database after it.
Tx(f)  == Statements(f)
End(f) == Ran(f, Tx(f))[Len(Tx(f))]

\* the goals in it
Rows(f) == IF f.goals = None THEN {} ELSE f.goals.rows

\* What a database that is not refused is brought to.
Brought(f) ==
    /\ End(f).history \in Present /\ End(f).goals_v2 = None
    /\ End(f).tables \subseteq Whole
    /\ \/ End(f).goals = None /\ Rows(f) = {}
       \/ End(f).goals # None /\ End(f).goals = Goals("entry_ids", Rows(f))

\* The transaction cannot be run again on what it leaves.
Once(f) ==
    /\ Len(Tx(f)) >= 2
    /\ \/ \E t \in End(f).tables : Tx(f)[1] = Create(t)
       \/ /\ Tx(f)[1] = HistoryTable
          /\ \E v, m : Tx(f)[2] = Stamp(v, m) /\ \E r \in End(f).history : r[1] = v

\* A database that starts, alone and undisturbed, in at most one transaction, which
\* brings it and cannot be run twice.
Startable(f) ==
    /\ ~ Refused(Seen(f), f) /\ Starts(f)
    /\ Tx(f) \in Seq(AllStatements)
    /\ Brought(f)
    /\ IF Tx(f) = <<>> THEN Plan(Seen(f), f) = <<>> /\ End(f) = f
       ELSE Plan(Seen(f), f) = <<Tx(f)>> /\ Once(f)

\* The databases along a start of one transaction.
LEMMA OneTransaction ==
    ASSUME NEW f, NEW t \in Seq(AllStatements), Plan(Seen(f), f) = <<t>>
    PROVE  Tx(f) = t /\ Ran(f, t)[0] = f
           /\ \A i \in 1..Len(t) : Ran(f, t)[i] = Executed(Ran(f, t)[i - 1], t[i])
<1>1. Tx(f) = t
  BY FlattenOne DEF Tx, Statements
<1>2. Len(t) \in Nat
  BY LenProperties
<1> QED BY <1>1, <1>2, RanSteps

\* A start of none leaves what it finds.
LEMMA NoTransaction ==
    ASSUME NEW f, Plan(Seen(f), f) = <<>>
    PROVE  Tx(f) = <<>> /\ End(f) = f
<1>1. Tx(f) = <<>>
  BY FlattenNone DEF Tx, Statements
<1>2. Len(<<>>) = 0
  OBVIOUS
<1>3. Ran(f, <<>>)[0] = f
  BY <1>2, RanSteps
<1> QED BY <1>1, <1>2, <1>3 DEF End

\* A transaction of two statements that do not fail.
LEMMA TwoStatements ==
    ASSUME NEW f, NEW a, NEW b, NEW mid, NEW end,
           <<a, b>> \in Seq(AllStatements),
           Plan(Seen(f), f) = << <<a, b>> >>, ~ Refused(Seen(f), f),
           ~ Fails(f, a), Executed(f, a) = mid,
           ~ Fails(mid, b), Executed(mid, b) = end
    PROVE  Tx(f) = <<a, b>> /\ Starts(f) /\ End(f) = end
<1> DEFINE t == <<a, b>>
<1>1. t \in Seq(AllStatements) /\ Len(t) = 2 /\ t[1] = a /\ t[2] = b
  OBVIOUS
<1>0. Plan(Seen(f), f) = <<t>>
  OBVIOUS
<1> HIDE DEF t
<1>2. /\ Tx(f) = t /\ Ran(f, t)[0] = f
      /\ \A i \in 1..Len(t) : Ran(f, t)[i] = Executed(Ran(f, t)[i - 1], t[i])
  BY <1>0, <1>1, OneTransaction
<1>3. Ran(f, t)[1] = mid
  <2>1. 1 \in 1..Len(t) /\ 1 - 1 = 0
    BY <1>1
  <2> QED BY <1>1, <1>2, <2>1
<1>4. Ran(f, t)[2] = end
  <2>1. 2 \in 1..Len(t) /\ 2 - 1 = 1
    BY <1>1
  <2> QED BY <1>1, <1>2, <1>3, <2>1
<1>5. ASSUME NEW i \in 1..Len(t) PROVE ~ Fails(Ran(f, t)[i - 1], t[i])
  <2>1. (i = 1 /\ i - 1 = 0) \/ (i = 2 /\ i - 1 = 1)
    BY <1>1
  <2> QED BY <2>1, <1>1, <1>2, <1>3
<1>6. Starts(f)
  BY <1>2, <1>5 DEF Starts, Tx
<1> QED BY <1>1, <1>2, <1>4, <1>6 DEF End, t

\* None is no history and no table of goals.
LEMMA NothingElse ==
    ASSUME Parameters
    PROVE  /\ \A h \in Histories : h # None
           /\ \A g \in GoalTables : g # None
           /\ Goals("entry_ids", {0}) \in GoalTables
           /\ Goals("criteria_refs", {0}) \in GoalTables
           /\ \A c, rows : Goals(c, rows).cols = c /\ Goals(c, rows).rows = rows
<1>1. 0 \in 0..MaxEvents
  BY DEF Parameters
<1> QED BY <1>1 DEF Parameters, Goals, GoalTables

\* A new database starts: it is given its history.
LEMMA EmptyStarts == ASSUME Parameters PROVE Startable(Empty)
<1> DEFINE f == Empty
           h == {<<3, "fresh-create">>}
<1>1. Seen(f) = "none"
  BY DEF Seen, AnyTable, Empty, Database
<1>2. Plan(Seen(f), f) = <<FreshTx>>
  BY <1>1 DEF Plan, FreshTx, Current
<1>3. ~ Refused(Seen(f), f)
  BY <1>1 DEF Refused
<1>4. f = Data({}, None, None, None)
  BY DEF Empty, Database, Data
<1>5. h \in Present /\ h = {} \cup {<<3, "fresh-create">>}
  BY DEF Present
<1>6. /\ ~ Fails(f, HistoryTable)
      /\ Executed(f, HistoryTable) = Data({}, None, None, {})
  BY <1>4, HistoryDoes
<1>7. {} # None
  <2>1. {} \in Histories
    BY DEF Histories
  <2> QED BY <2>1 DEF Parameters
<1>8. /\ ~ Fails(Data({}, None, None, {}), Stamp(3, "fresh-create"))
      /\ Executed(Data({}, None, None, {}), Stamp(3, "fresh-create")) = Data({}, None, None, h)
  <2> DEFINE none == {}
  <2>1. none # None /\ (\A r \in none : r[1] # 3) /\ h = none \cup {<<3, "fresh-create">>}
    BY <1>7
  <2> HIDE DEF h, none
  <2>2. LET d == Data({}, None, None, none) IN
        /\ ~ Fails(d, Stamp(3, "fresh-create"))
        /\ Executed(d, Stamp(3, "fresh-create")) = Data({}, None, None, h)
    BY <2>1, StampDoes
  <2> QED BY <2>2, Zenon DEF none
<1>9. Tx(f) = FreshTx /\ Starts(f) /\ End(f) = Data({}, None, None, h)
  <2> HIDE DEF h, f
  <2>1. FreshTx \in Seq(AllStatements)
    BY TxSeqs
  <2> QED BY <2>1, <1>2, <1>3, <1>6, <1>8, TwoStatements DEF FreshTx
<1>10. Rows(f) = {}
  BY DEF Rows, Empty, Database
<1>11. Brought(f)
  BY <1>5, <1>9, <1>10 DEF Brought, Data, Whole
<1>12. Once(f)
  <2>1. Tx(f)[1] = HistoryTable /\ Tx(f)[2] = Stamp(3, "fresh-create") /\ Len(Tx(f)) = 2
    BY <1>9 DEF FreshTx
  <2>2. \E r \in End(f).history : r[1] = 3
    <3>1. End(f).history = h /\ <<3, "fresh-create">> \in h
      BY <1>9 DEF Data
    <3> HIDE DEF h
    <3> QED BY <3>1
  <2> QED BY <2>1, <2>2 DEF Once
<1>13. Tx(f) # <<>>
  <2> HIDE DEF f
  <2> QED BY <1>9, NotEmpty, Zenon DEF FreshTx
<1> QED
  BY <1>2, <1>3, <1>9, <1>11, <1>12, <1>13, TxSeqs DEF Startable

\* A database at the present version has nothing to run, and one at version 2
\* one transaction.
LEMMA PresentPlan ==
    ASSUME Parameters, NEW d, d.history \in Present, NEW seen, seen # "none"
    PROVE  ~ Refused(seen, d) /\ Plan(seen, d) = <<>>
<1>1. d.history # None /\ Valid(d.history) /\ Highest(d.history) = 3
  BY PresentHistories, NothingElse
<1>2. ~ Refused(seen, d)
  BY <1>1 DEF Refused
<1>3. Plan(seen, d) = [i \in 1..(Current - Highest(d.history)) |-> UpgradeAndStamp(Highest(d.history) + i)]
  BY <1>1 DEF Plan
<1>4. Plan(seen, d) = [i \in 1..0 |-> UpgradeAndStamp(Highest(d.history) + i)]
  BY <1>1, <1>3, CurrentIs
<1> QED BY <1>2, <1>4

\* At version 2 the one step is to be run.
LEMMA EarlierPlan ==
    ASSUME Parameters, NEW d, d.history \in Earlier, NEW seen, seen # "none"
    PROVE  ~ Refused(seen, d) /\ Plan(seen, d) = <<UpgradeTx>>
<1>1. d.history # None /\ Valid(d.history) /\ Highest(d.history) = 2
  BY EarlierHistories, NothingElse
<1>2. ~ Refused(seen, d)
  BY <1>1 DEF Refused
<1>3. Plan(seen, d) = [i \in 1..(Current - Highest(d.history)) |-> UpgradeAndStamp(Highest(d.history) + i)]
  BY <1>1 DEF Plan
<1>4. Plan(seen, d) = [i \in 1..1 |-> UpgradeAndStamp(2 + i)]
  BY <1>1, <1>3, CurrentIs
<1>5. \A i \in 1..1 : UpgradeAndStamp(2 + i) = UpgradeTx
  <2>1. \A i \in 1..1 : 2 + i = 3
    OBVIOUS
  <2> QED BY <2>1, UpgradeIs
<1>6. Plan(seen, d) = [i \in 1..1 |-> UpgradeTx]
  BY <1>4, <1>5
<1> QED BY <1>2, <1>6

\* A database at the present version starts.
LEMMA DoneStarts ==
    ASSUME Parameters
    PROVE  Startable(Database(Whole, Goals("entry_ids", {0}), {<<3, "fresh-create">>}))
<1> DEFINE f == Database(Whole, Goals("entry_ids", {0}), {<<3, "fresh-create">>})
<1>1. f.history \in Present
  BY DEF Database, Present
<1>2. Seen(f) # "none"
  <2>1. f.tables # {}
    BY DEF Database, Whole
  <2> QED BY <2>1 DEF Seen, AnyTable
<1>3. ~ Refused(Seen(f), f) /\ Plan(Seen(f), f) = <<>>
  BY <1>1, <1>2, PresentPlan, Zenon
<1>4. f.goals_v2 = None /\ f.tables = Whole /\ f.goals = Goals("entry_ids", {0})
  BY DEF Database
<1> HIDE DEF f
<1>5. Tx(f) = <<>> /\ End(f) = f
  BY <1>3, NoTransaction
<1>6. Starts(f)
  <2>1. Statements(f) = <<>> /\ Len(<<>>) = 0
    BY <1>5 DEF Tx
  <2> QED BY <1>3, <2>1 DEF Starts
<1>7. Rows(f) = {0}
  BY <1>4, NothingElse DEF Rows
<1>8. Brought(f)
  BY <1>1, <1>4, <1>5, <1>7, NothingElse DEF Brought
<1>9. <<>> \in Seq(AllStatements)
  OBVIOUS
<1>10. Startable(f)
  BY <1>3, <1>5, <1>6, <1>8, <1>9 DEF Startable
<1> QED BY <1>10 DEF f

\* One of version 2 without a history starts: it is adopted.
LEMMA AdoptedStarts ==
    ASSUME Parameters
    PROVE  Startable(Database({Rest} \cup V2, Goals("entry_ids", {0}), None))
<1> DEFINE ts == {Rest} \cup V2
           gs == Goals("entry_ids", {0})
           f  == Database(ts, gs, None)
           none == {}
           h  == {<<3, "adopted-without-history">>}
<1>0. /\ f = Data(ts, gs, None, None)
      /\ f.tables = ts /\ f.goals = gs /\ f.goals_v2 = None /\ f.history = None
      /\ Data(ts, gs, None, h).tables = ts /\ Data(ts, gs, None, h).goals = gs
      /\ Data(ts, gs, None, h).goals_v2 = None /\ Data(ts, gs, None, h).history = h
  BY DEF Database, Data
<1>1. /\ Rest \in ts /\ "coverage_maps" \notin ts /\ V2 \subseteq ts /\ ts \subseteq Whole
  BY DEF V2, Whole, Rest
<1>2. gs # None /\ gs.cols = "entry_ids" /\ gs.rows = {0}
  BY NothingElse
<1>3. /\ none # None /\ (\A r \in none : r[1] # 3)
      /\ h = none \cup {<<3, "adopted-without-history">>} /\ h \in Present
      /\ \E r \in h : r[1] = 3
  <2>1. none \in Histories
    BY DEF Histories
  <2>2. <<3, "adopted-without-history">> \in h
    OBVIOUS
  <2>3. \E r \in h : r[1] = 3
    <3> HIDE DEF h
    <3> QED BY <2>2
  <2>4. none # None
    BY <2>1, NothingElse
  <2>5. (\A r \in none : r[1] # 3) /\ h = none \cup {<<3, "adopted-without-history">>}
    OBVIOUS
  <2>6. h \in Present
    BY DEF Present
  <2> QED BY <2>3, <2>4, <2>5, <2>6
<1>4. Current = 3
  BY DEF Current
<1> HIDE DEF ts, gs, f, none, h
<1>5. Seen(f) = "some"
  BY <1>0, <1>1 DEF Seen, AnyTable
<1>6. ~ Refused(Seen(f), f)
  BY <1>0, <1>1, <1>2, <1>5 DEF Refused, LooksLikeV2
<1>7. Plan(Seen(f), f) = <<AdoptTx>>
  BY <1>0, <1>4, <1>5 DEF Plan, AdoptTx
<1>8. ~ Fails(f, HistoryTable) /\ Executed(f, HistoryTable) = Data(ts, gs, None, none)
  BY <1>0, HistoryDoes DEF none
<1>9. /\ ~ Fails(Data(ts, gs, None, none), Stamp(3, "adopted-without-history"))
      /\ Executed(Data(ts, gs, None, none), Stamp(3, "adopted-without-history")) = Data(ts, gs, None, h)
  BY <1>3, StampDoes
<1>10. Tx(f) = AdoptTx /\ Starts(f) /\ End(f) = Data(ts, gs, None, h)
  BY <1>6, <1>7, <1>8, <1>9, TxSeqs, TwoStatements DEF AdoptTx
<1>11. Rows(f) = {0}
  BY <1>0, <1>2 DEF Rows
<1>12. Brought(f)
  <2>1. /\ End(f).history \in Present /\ End(f).goals_v2 = None /\ End(f).tables \subseteq Whole
        /\ End(f).goals = gs
    BY <1>0, <1>1, <1>3, <1>10
  <2>2. gs # None /\ gs = Goals("entry_ids", Rows(f))
    BY <1>2, <1>11 DEF gs
  <2> QED BY <2>1, <2>2 DEF Brought
<1>13. Once(f)
  <2>1. AdoptTx[1] = HistoryTable /\ AdoptTx[2] = Stamp(3, "adopted-without-history")
    BY DEF AdoptTx
  <2>2. Tx(f)[2] = Stamp(3, "adopted-without-history") /\ \E r \in End(f).history : r[1] = 3
    BY <2>1, <1>0, <1>3, <1>10
  <2>3. Len(Tx(f)) >= 2
    BY <1>10, TxSeqs
  <2> QED BY <2>1, <2>2, <2>3, <1>10 DEF Once
<1>14. Tx(f) # <<>>
  BY <1>10, NotEmpty, Zenon DEF AdoptTx
<1>15. Startable(f)
  BY <1>6, <1>7, <1>10, <1>12, <1>13, <1>14, TxSeqs DEF Startable
<1> QED BY <1>15 DEF f, ts, gs

\* One of version 2 with a history starts: step 3 is run.
LEMMA UpgradedStarts ==
    ASSUME Parameters, NEW h \in Earlier
    PROVE  Startable(Database({Rest} \cup V2, Goals("entry_ids", {0}), h))
<1> DEFINE ts == {Rest} \cup V2
           all == ts \cup {"embeddings"}
           gs == Goals("entry_ids", {0})
           f  == Database(ts, gs, h)
           new == h \cup {<<3, "step">>}
<1>0. /\ f = Data(ts, gs, None, h)
      /\ f.tables = ts /\ f.goals = gs /\ f.goals_v2 = None /\ f.history = h
      /\ Data(all, gs, None, new).tables = all /\ Data(all, gs, None, new).goals = gs
      /\ Data(all, gs, None, new).goals_v2 = None /\ Data(all, gs, None, new).history = new
  BY DEF Database, Data
<1>1. /\ Rest \in ts /\ "embeddings" \notin ts /\ all \subseteq Whole /\ "embeddings" \in all
  BY DEF V2, Whole, Rest
<1>2. gs # None /\ gs.cols = "entry_ids" /\ gs.rows = {0}
  BY NothingElse
<1>3. h # None /\ (\A r \in h : r[1] # 3) /\ new \in Present
  <2>1. h # None
    BY EarlierHistories, NothingElse
  <2>2. \A r \in h : r[1] # 3
    BY DEF Earlier
  <2>3. CASE h = {<<2, "fresh-create">>}
    <3>1. new = {<<2, "fresh-create">>, <<3, "step">>}
      BY <2>3
    <3> QED BY <2>1, <2>2, <3>1 DEF Present
  <2>4. CASE h = {<<1, "legacy-baseline">>, <<2, "step">>}
    <3>1. new = {<<1, "legacy-baseline">>, <<2, "step">>, <<3, "step">>}
      BY <2>4
    <3> QED BY <2>1, <2>2, <3>1 DEF Present
  <2> QED BY <2>3, <2>4 DEF Earlier
<1>4. new = h \cup {<<3, "step">>} /\ all = ts \cup {"embeddings"}
  OBVIOUS
<1> HIDE DEF ts, gs, f, all, new
<1>5. Seen(f) # "none"
  BY <1>0, <1>1 DEF Seen, AnyTable
<1>7. ~ Refused(Seen(f), f) /\ Plan(Seen(f), f) = <<UpgradeTx>>
  BY <1>0, <1>5, EarlierPlan
<1>8. /\ ~ Fails(f, Create("embeddings"))
      /\ Executed(f, Create("embeddings")) = Data(all, gs, None, h)
  <2>1. LET d == Data(ts, gs, None, h) IN
        ~ Fails(d, Create("embeddings")) /\ Executed(d, Create("embeddings")) = Data(all, gs, None, h)
    BY <1>1, <1>4, CreateDoes
  <2> QED BY <1>0, <2>1
<1>9. /\ ~ Fails(Data(all, gs, None, h), Stamp(3, "step"))
      /\ Executed(Data(all, gs, None, h), Stamp(3, "step")) = Data(all, gs, None, new)
  BY <1>3, <1>4, StampDoes
<1>10. Tx(f) = UpgradeTx /\ Starts(f) /\ End(f) = Data(all, gs, None, new)
  BY <1>7, <1>8, <1>9, TxSeqs, TwoStatements DEF UpgradeTx
<1>11. Rows(f) = {0}
  BY <1>0, <1>2 DEF Rows
<1>12. Brought(f)
  <2>1. /\ End(f).history \in Present /\ End(f).goals_v2 = None /\ End(f).tables \subseteq Whole
        /\ End(f).goals = gs
    BY <1>0, <1>1, <1>3, <1>10
  <2>2. gs # None /\ gs = Goals("entry_ids", Rows(f))
    BY <1>2, <1>11 DEF gs
  <2> QED BY <2>1, <2>2 DEF Brought
<1>13. Once(f)
  <2>1. UpgradeTx[1] = Create("embeddings")
    BY DEF UpgradeTx
  <2> QED BY <2>1, <1>0, <1>1, <1>10, TxSeqs DEF Once
<1>14. Tx(f) # <<>>
  BY <1>10, NotEmpty, Zenon DEF UpgradeTx
<1>15. Startable(f)
  BY <1>7, <1>10, <1>12, <1>13, <1>14, TxSeqs DEF Startable
<1> QED BY <1>15 DEF f, ts, gs

\* One of version 1 starts: both steps are run, and its goals are kept.
LEMMA LegacyStarts ==
    ASSUME Parameters
    PROVE  Startable(Database({Rest, "coverage_maps"}, Goals("criteria_refs", {0}), None))
<1> DEFINE t0 == {Rest, "coverage_maps"}
           t1 == {Rest}
           t2 == {Rest, "coverage_roots"}
           t3 == {Rest, "coverage_roots", "coverage_entries"}
           t4 == {Rest, "coverage_roots", "coverage_entries", "embeddings"}
           g0 == Goals("criteria_refs", {0})
           gn == Goals("entry_ids", {})
           g1 == Goals("entry_ids", {0})
           none == {}
           h1 == {<<1, "legacy-baseline">>}
           h2 == {<<1, "legacy-baseline">>, <<2, "step">>}
           h3 == {<<1, "legacy-baseline">>, <<2, "step">>, <<3, "step">>}
           f  == Database(t0, g0, None)
           end == Data(t4, g1, None, h3)
           T  == LegacyTx
           R(i) == Ran(f, LegacyTx)[i]
<1>0. /\ f = Data(t0, g0, None, None)
      /\ f.tables = t0 /\ f.goals = g0 /\ f.goals_v2 = None /\ f.history = None
      /\ end.tables = t4 /\ end.goals = g1 /\ end.goals_v2 = None /\ end.history = h3
  BY DEF Database, Data
<1>1. /\ "coverage_maps" \in t0 /\ t1 = t0 \ {"coverage_maps"}
      /\ "coverage_roots" \notin t1 /\ t2 = t1 \cup {"coverage_roots"}
      /\ "coverage_entries" \notin t2 /\ t3 = t2 \cup {"coverage_entries"}
      /\ "embeddings" \notin t3 /\ t4 = t3 \cup {"embeddings"} /\ t4 \subseteq Whole
  BY DEF V2, Whole, Rest
<1>2. /\ none # None /\ h1 # None /\ h2 # None
      /\ (\A r \in none : r[1] # 1) /\ (\A r \in h1 : r[1] # 2) /\ (\A r \in h2 : r[1] # 3)
      /\ h1 = none \cup {<<1, "legacy-baseline">>} /\ h2 = h1 \cup {<<2, "step">>}
      /\ h3 = h2 \cup {<<3, "step">>} /\ h3 \in Present
  <2>1. none # None /\ h1 # None /\ h2 # None
    <3>1. none \in Histories /\ h1 \in Histories /\ h2 \in Histories
      BY DEF Histories, Sentinels, Current
    <3> HIDE DEF none, h1, h2
    <3> QED BY <3>1, NothingElse
  <2>2. (\A r \in none : r[1] # 1) /\ (\A r \in h1 : r[1] # 2) /\ (\A r \in h2 : r[1] # 3)
    OBVIOUS
  <2>3. /\ h1 = none \cup {<<1, "legacy-baseline">>} /\ h2 = h1 \cup {<<2, "step">>}
        /\ h3 = h2 \cup {<<3, "step">>}
    OBVIOUS
  <2>4. h3 \in Present
    BY DEF Present
  <2> QED BY <2>1, <2>2, <2>3, <2>4
<1>3. none = IF None = None THEN {} ELSE None
  OBVIOUS
<1>4. g0 # None /\ gn # None /\ g1 # None /\ g0.rows = {0} /\ g1 = Goals("entry_ids", g0.rows)
  <2>1. g0 # None /\ g1 # None /\ g0.rows = {0}
    BY NothingElse
  <2>2. gn \in GoalTables
    BY DEF Goals, GoalTables
  <2>3. gn # None
    BY <2>2, NothingElse
  <2> QED BY <2>1, <2>3
<1>5. /\ \E r \in h3 : r[1] = 1
  <2>1. <<1, "legacy-baseline">> \in h3
    OBVIOUS
  <2> HIDE DEF h3
  <2> QED BY <2>1
<1>6. /\ T[1] = HistoryTable
      /\ T[2] = Stamp(1, "legacy-baseline")
      /\ T[3] = Drop("coverage_maps")
      /\ T[4] = Create("coverage_roots")
      /\ T[5] = Create("coverage_entries")
      /\ T[6] = GoalStep("create goals_v2")
      /\ T[7] = GoalStep("copy goals")
      /\ T[8] = GoalStep("drop goals")
      /\ T[9] = GoalStep("rename goals_v2")
      /\ T[10] = Stamp(2, "step")
      /\ T[11] = Create("embeddings")
      /\ T[12] = Stamp(3, "step")
  BY DEF LegacyTx
<1>7. Seen(f) = "v1"
  BY <1>0, <1>1 DEF Seen, AnyTable
<1>8. ~ Refused(Seen(f), f)
  BY <1>0, <1>7 DEF Refused
<1>9. Plan(Seen(f), f) = <<T>>
  BY <1>0, <1>7, LegacyIs DEF Plan
<1>10. gn = Goals("entry_ids", {})
  OBVIOUS
<1> HIDE DEF t0, t1, t2, t3, t4, g0, gn, g1, none, h1, h2, h3, f, end, T
<1>11. /\ Tx(f) = T /\ Len(T) = 12 /\ R(0) = f
       /\ \A i \in 1..12 : R(i) = Executed(R(i - 1), T[i])
  <2> T \in Seq(AllStatements)
    BY TxSeqs DEF T
  <2>1. /\ Tx(f) = T /\ Ran(f, T)[0] = f
        /\ \A i \in 1..Len(T) : Ran(f, T)[i] = Executed(Ran(f, T)[i - 1], T[i])
    BY <1>9, OneTransaction
  <2>2. Len(T) = 12
    BY TxSeqs DEF T
  <2>3. \A i : R(i) = Ran(f, T)[i]
    BY DEF T
  <2> QED BY <2>1, <2>2, <2>3
<1>12. /\ ~ Fails(Data(t0, g0, None, None), HistoryTable)
       /\ Executed(Data(t0, g0, None, None), HistoryTable) = Data(t0, g0, None, none)
  BY <1>3, HistoryDoes
<1>13. /\ ~ Fails(Data(t0, g0, None, none), Stamp(1, "legacy-baseline"))
       /\ Executed(Data(t0, g0, None, none), Stamp(1, "legacy-baseline")) = Data(t0, g0, None, h1)
  BY <1>2, <1>3, StampDoes
<1>14. /\ ~ Fails(Data(t0, g0, None, h1), Drop("coverage_maps"))
       /\ Executed(Data(t0, g0, None, h1), Drop("coverage_maps")) = Data(t1, g0, None, h1)
  BY <1>1, DropDoes
<1>15. /\ ~ Fails(Data(t1, g0, None, h1), Create("coverage_roots"))
       /\ Executed(Data(t1, g0, None, h1), Create("coverage_roots")) = Data(t2, g0, None, h1)
  <2>1. "coverage_roots" \notin t1 /\ t2 = t1 \cup {"coverage_roots"}
    BY <1>1
  <2> QED BY ONLY <2>1, CreateDoes
<1>16. /\ ~ Fails(Data(t2, g0, None, h1), Create("coverage_entries"))
       /\ Executed(Data(t2, g0, None, h1), Create("coverage_entries")) = Data(t3, g0, None, h1)
  BY <1>1, CreateDoes
<1>17. /\ ~ Fails(Data(t3, g0, None, h1), GoalStep("create goals_v2"))
       /\ Executed(Data(t3, g0, None, h1), GoalStep("create goals_v2")) = Data(t3, g0, gn, h1)
  BY <1>10, CreateGoalsDoes
<1>18. /\ ~ Fails(Data(t3, g0, gn, h1), GoalStep("copy goals"))
       /\ Executed(Data(t3, g0, gn, h1), GoalStep("copy goals")) = Data(t3, g0, g1, h1)
  BY <1>4, CopyGoalsDoes
<1>19. /\ ~ Fails(Data(t3, g0, g1, h1), GoalStep("drop goals"))
       /\ Executed(Data(t3, g0, g1, h1), GoalStep("drop goals")) = Data(t3, None, g1, h1)
  BY <1>4, DropGoalsDoes
<1>20. /\ ~ Fails(Data(t3, None, g1, h1), GoalStep("rename goals_v2"))
       /\ Executed(Data(t3, None, g1, h1), GoalStep("rename goals_v2")) = Data(t3, g1, None, h1)
  BY <1>4, RenameGoalsDoes
<1>21. /\ ~ Fails(Data(t3, g1, None, h1), Stamp(2, "step"))
       /\ Executed(Data(t3, g1, None, h1), Stamp(2, "step")) = Data(t3, g1, None, h2)
  BY <1>2, StampDoes
<1>22. /\ ~ Fails(Data(t3, g1, None, h2), Create("embeddings"))
       /\ Executed(Data(t3, g1, None, h2), Create("embeddings")) = Data(t4, g1, None, h2)
  BY <1>1, CreateDoes
<1>23. /\ ~ Fails(Data(t4, g1, None, h2), Stamp(3, "step"))
       /\ Executed(Data(t4, g1, None, h2), Stamp(3, "step")) = Data(t4, g1, None, h3)
  BY <1>2, StampDoes
<1> HIDE DEF R
<1>24. R(1) = Data(t0, g0, None, none) /\ ~ Fails(R(0), T[1])
  <2>1. 1 \in 1..12 /\ 1 - 1 = 0
    OBVIOUS
  <2> QED BY <2>1, <1>6, <1>11, <1>0, <1>11, <1>12
<1>25. R(2) = Data(t0, g0, None, h1) /\ ~ Fails(R(1), T[2])
  <2>1. 2 \in 1..12 /\ 2 - 1 = 1
    OBVIOUS
  <2> QED BY <2>1, <1>6, <1>24, <1>11, <1>13
<1>26. R(3) = Data(t1, g0, None, h1) /\ ~ Fails(R(2), T[3])
  <2>1. 3 \in 1..12 /\ 3 - 1 = 2
    OBVIOUS
  <2> QED BY <2>1, <1>6, <1>25, <1>11, <1>14
<1>27. R(4) = Data(t2, g0, None, h1) /\ ~ Fails(R(3), T[4])
  <2>1. 4 \in 1..12 /\ 4 - 1 = 3
    OBVIOUS
  <2> QED BY <2>1, <1>6, <1>26, <1>11, <1>15
<1>28. R(5) = Data(t3, g0, None, h1) /\ ~ Fails(R(4), T[5])
  <2>1. 5 \in 1..12 /\ 5 - 1 = 4
    OBVIOUS
  <2> QED BY <2>1, <1>6, <1>27, <1>11, <1>16
<1>29. R(6) = Data(t3, g0, gn, h1) /\ ~ Fails(R(5), T[6])
  <2>1. 6 \in 1..12 /\ 6 - 1 = 5
    OBVIOUS
  <2> QED BY <2>1, <1>6, <1>28, <1>11, <1>17
<1>30. R(7) = Data(t3, g0, g1, h1) /\ ~ Fails(R(6), T[7])
  <2>1. 7 \in 1..12 /\ 7 - 1 = 6
    OBVIOUS
  <2> QED BY <2>1, <1>6, <1>29, <1>11, <1>18
<1>31. R(8) = Data(t3, None, g1, h1) /\ ~ Fails(R(7), T[8])
  <2>1. 8 \in 1..12 /\ 8 - 1 = 7
    OBVIOUS
  <2> QED BY <2>1, <1>6, <1>30, <1>11, <1>19
<1>32. R(9) = Data(t3, g1, None, h1) /\ ~ Fails(R(8), T[9])
  <2>1. 9 \in 1..12 /\ 9 - 1 = 8
    OBVIOUS
  <2> QED BY <2>1, <1>6, <1>31, <1>11, <1>20
<1>33. R(10) = Data(t3, g1, None, h2) /\ ~ Fails(R(9), T[10])
  <2>1. 10 \in 1..12 /\ 10 - 1 = 9
    OBVIOUS
  <2> QED BY <2>1, <1>6, <1>32, <1>11, <1>21
<1>34. R(11) = Data(t4, g1, None, h2) /\ ~ Fails(R(10), T[11])
  <2>1. 11 \in 1..12 /\ 11 - 1 = 10
    OBVIOUS
  <2> QED BY <2>1, <1>6, <1>33, <1>11, <1>22
<1>35. R(12) = Data(t4, g1, None, h3) /\ ~ Fails(R(11), T[12])
  <2>1. 12 \in 1..12 /\ 12 - 1 = 11
    OBVIOUS
  <2> QED BY <2>1, <1>6, <1>34, <1>11, <1>23
<1>36. ASSUME NEW i \in 1..12 PROVE ~ Fails(R(i - 1), T[i])
  <2>1. i \in {1, 2, 3, 4, 5, 6, 7, 8, 9, 10, 11, 12}
    OBVIOUS
  <2> QED BY <2>1, <1>24, <1>25, <1>26, <1>27, <1>28, <1>29, <1>30, <1>31, <1>32, <1>33, <1>34, <1>35
<1>37. End(f) = end /\ Starts(f)
  BY <1>8, <1>11, <1>35, <1>36 DEF End, Starts, Tx, R, T, end
<1>38. Rows(f) = {0}
  BY <1>0, <1>4 DEF Rows
<1>39. Brought(f)
  <2>1. End(f).history \in Present /\ End(f).goals_v2 = None
    BY <1>0, <1>2, <1>37
  <2>2. End(f).tables \subseteq Whole
    BY <1>0, <1>1, <1>37
  <2>3. End(f).goals # None /\ End(f).goals = Goals("entry_ids", Rows(f))
    BY <1>0, <1>4, <1>37, <1>38
  <2> QED BY <2>1, <2>2, <2>3 DEF Brought
<1>40. Once(f)
  <2>1. \E r \in End(f).history : r[1] = 1
    BY <1>0, <1>5, <1>37
  <2>2. Tx(f)[1] = HistoryTable /\ Tx(f)[2] = Stamp(1, "legacy-baseline") /\ Len(Tx(f)) >= 2
    <3>1. T[1] = HistoryTable /\ T[2] = Stamp(1, "legacy-baseline")
      BY <1>6
    <3>2. Tx(f) = T /\ Len(T) = 12
      BY <1>11
    <3>3. \A n : n = 12 => n >= 2
      OBVIOUS
    <3> QED BY ONLY <3>1, <3>2, <3>3
  <2> QED BY <2>1, <2>2 DEF Once
<1>41. Tx(f) # <<>>
  <2>1. Len(<<>>) # 12
    <3>1. Len(<<>>) = 0
      BY EmptySeq
    <3> QED BY <3>1
  <2> QED BY <1>11, <2>1, Zenon
<1>42. Startable(f)
  BY <1>8, <1>9, <1>11, <1>37, <1>39, <1>40, <1>41, TxSeqs DEF Startable, T
<1> QED BY <1>42 DEF f, t0, g0

\* A database that is refused, as found.
Refuses(f) == Seen(f) = "some" /\ Refused("some", f)

\* A database that has neither a history nor the looks of version 2 is refused.
LEMMA WithoutHistoryRefused ==
    ASSUME Parameters PROVE Refuses(Database({Rest}, Goals("entry_ids", {0}), None))
<1> DEFINE ts == {Rest}
           f == Database(ts, Goals("entry_ids", {0}), None)
<1>1. f.tables = ts /\ f.history = None /\ f.goals = Goals("entry_ids", {0})
  BY DEF Database
<1>2. "coverage_maps" \notin ts /\ ~ V2 \subseteq ts /\ Rest \in ts
  BY DEF Rest, V2
<1> HIDE DEF ts
<1>3. Seen(f) = "some"
  BY <1>1, <1>2 DEF Seen, AnyTable
<1>4. Refused("some", f)
  BY <1>1, <1>2 DEF Refused, LooksLikeV2
<1> QED BY <1>3, <1>4 DEF Refuses, ts

\* So is one whose history is not valid.
LEMMA HistoryRefused ==
    ASSUME Parameters, NEW ts, Rest \in ts, "coverage_maps" \notin ts, NEW gs,
           NEW h \in Histories, ~ Valid(h)
    PROVE  Refuses(Database(ts, gs, h))
<1> DEFINE f == Database(ts, gs, h)
<1>1. f.tables = ts /\ f.history = h /\ h # None
  BY NothingElse DEF Database
<1>2. Seen(f) = "some"
  BY <1>1 DEF Seen, AnyTable
<1>3. Refused("some", f)
  BY <1>1 DEF Refused
<1> QED BY <1>2, <1>3 DEF Refuses

\* Every database that is found is of one of the two sorts.
LEMMA FoundIs == ASSUME Parameters, NEW f \in Found PROVE Startable(f) \/ Refuses(f)
<1> DEFINE g  == Goals("entry_ids", {0})
           t3 == {Rest} \cup V2
           h4 == {<<4, "fresh-create">>}
           h5 == {<<2, "step">>, <<3, "fresh-create">>}
           h6 == {<<1, "legacy-baseline">>, <<3, "step">>}
<1>1. /\ {<<2, "fresh-create">>} \in Earlier
      /\ {<<1, "legacy-baseline">>, <<2, "step">>} \in Earlier
  BY DEF Earlier
<1>2. Rest \in t3 /\ "coverage_maps" \notin t3 /\ Rest \in Whole /\ "coverage_maps" \notin Whole
  BY DEF Rest, V2, Whole
<1>3. h4 \in Histories /\ h5 \in Histories /\ h6 \in Histories
  BY DEF Histories, Sentinels, Current
<1>4. ~ Valid(h4) /\ ~ Valid(h5) /\ ~ Valid(h6)
  BY RefusedHistories
<1>5. /\ Refuses(Database(Whole, g, h4)) /\ Refuses(Database(Whole, g, h5))
      /\ Refuses(Database(t3, g, h6))
  <2> HIDE DEF g, t3, h4, h5, h6
  <2> QED BY <1>2, <1>3, <1>4, HistoryRefused
<1>6. Current + 1 = 4
  BY DEF Current
<1>7. /\ Startable(Database(t3, g, {<<2, "fresh-create">>}))
      /\ Startable(Database(t3, g, {<<1, "legacy-baseline">>, <<2, "step">>}))
  BY <1>1, UpgradedStarts
<1>8. \/ f = Empty \/ f = Database({Rest, "coverage_maps"}, Goals("criteria_refs", {0}), None)
      \/ f = Database(t3, g, None) \/ f = Database(t3, g, {<<2, "fresh-create">>})
      \/ f = Database(t3, g, {<<1, "legacy-baseline">>, <<2, "step">>})
      \/ f = Database(Whole, g, {<<3, "fresh-create">>})
      \/ f = Database({Rest}, g, None) \/ f = Database(Whole, g, h4)
      \/ f = Database(Whole, g, h5) \/ f = Database(t3, g, h6)
  BY <1>6, Zenon DEF Found
<1> QED
  BY <1>5, <1>7, <1>8, EmptyStarts, LegacyStarts, AdoptedStarts, DoneStarts,
     WithoutHistoryRefused, Zenon

\* What is found is a database.
LEMMA FoundTyped ==
    ASSUME Parameters, NEW f \in Found PROVE f \in Databases /\ Rows(f) \subseteq 0..MaxEvents
<1>1. \A rows \in {{0}} : rows \in SUBSET (0..MaxEvents)
  BY DEF Parameters
<1>2. \A c \in {"criteria_refs", "entry_ids"} :
        Goals(c, {0}) \in GoalTables /\ Goals(c, {0}) # None /\ Goals(c, {0}).rows = {0}
  <2>1. \A c \in {"criteria_refs", "entry_ids"} : Goals(c, {0}) \in GoalTables
    BY <1>1 DEF Goals, GoalTables
  <2> QED BY <2>1, NothingElse
<1>3. ASSUME NEW ts \in SUBSET (Whole \cup {"coverage_maps"}), NEW c \in {"criteria_refs", "entry_ids"},
             NEW h \in {None} \cup Histories, f = Database(ts, Goals(c, {0}), h)
      PROVE  f \in Databases /\ Rows(f) \subseteq 0..MaxEvents
  <2>1. f \in Databases
    BY <1>2, <1>3 DEF Databases, Database
  <2>2. Rows(f) = {0}
    BY <1>2, <1>3 DEF Rows, Database
  <2> QED BY <1>1, <2>1, <2>2
<1>4. CASE f = Empty
  BY <1>4 DEF Empty, Database, Databases, Rows
<1> DEFINE Tables == SUBSET (Whole \cup {"coverage_maps"})
           Names == {"criteria_refs", "entry_ids"}
<1>5. {Rest, "coverage_maps"} \in Tables /\ {Rest} \in Tables /\ Whole \in Tables /\ {Rest} \cup V2 \in Tables
  BY DEF Rest, V2, Whole
<1>6. "criteria_refs" \in Names /\ "entry_ids" \in Names
  OBVIOUS
<1> DEFINE Hs == {None, {<<2, "fresh-create">>}, {<<1, "legacy-baseline">>, <<2, "step">>},
                  {<<3, "fresh-create">>}, {<<Current + 1, "fresh-create">>},
                  {<<2, "step">>, <<3, "fresh-create">>}, {<<1, "legacy-baseline">>, <<3, "step">>}}
<1>7. ASSUME NEW h \in Hs PROVE h \in {None} \cup Histories
  BY DEF Histories, Sentinels, Current
<1>8. CASE f # Empty
  <2>1. \E ts \in Tables, c \in Names, h \in Hs : f = Database(ts, Goals(c, {0}), h)
    <3>1. ASSUME NEW ts \in Tables, NEW c \in Names, NEW h \in Hs, f = Database(ts, Goals(c, {0}), h)
          PROVE  \E ts2 \in Tables, c2 \in Names, h2 \in Hs : f = Database(ts2, Goals(c2, {0}), h2)
      BY <3>1
    <3> HIDE DEF Tables, Names
    <3> QED BY <1>5, <1>6, <1>8, <3>1, Zenon DEF Found
  <2> HIDE DEF Hs
  <2> QED BY <2>1, <1>3, <1>7
<1> QED BY <1>4, <1>8

-----------------------------------------------------------------------------
(* A database at the present version. *)

\* Brought to the present version from f, with the goals in rows, whatever of
\* schema.sql is applied.
Ready(f, d, rows) ==
    /\ d.history = End(f).history
    /\ d.goals_v2 = None
    /\ End(f).tables \subseteq d.tables /\ d.tables \subseteq Whole
    /\ \/ d.goals = None /\ rows = {}
       \/ d.goals # None /\ d.goals = Goals("entry_ids", rows)

\* The database at the end of the transaction is brought.
LEMMA EndReady == ASSUME NEW f, Startable(f) PROVE Ready(f, End(f), Rows(f))
  BY DEF Startable, Brought, Ready

\* There is nothing more to run.
LEMMA ReadyPlan ==
    ASSUME Parameters, NEW f, Startable(f), NEW d, NEW rows, Ready(f, d, rows)
    PROVE  /\ d.history # None /\ d.history \in Present
           /\ \A seen : seen # "none" => ~ Refused(seen, d) /\ Plan(seen, d) = <<>>
           /\ Seen(d) = "some"
           /\ Starts(d) /\ Started(d) = Completed(d)
<1>1. d.history \in Present
  BY DEF Ready, Startable, Brought
<1>2. d.history # None
  BY <1>1, PresentHistories, NothingElse
<1>3. \A seen : seen # "none" => ~ Refused(seen, d) /\ Plan(seen, d) = <<>>
  BY <1>1, PresentPlan
<1>4. Seen(d) = "some"
  BY <1>2 DEF Ready, Seen, AnyTable, Whole, Rest, V2
<1>5. ~ Refused(Seen(d), d) /\ Plan(Seen(d), d) = <<>>
  BY <1>3, <1>4
<1>6. Statements(d) = <<>> /\ End(d) = d
  BY <1>5, NoTransaction DEF Tx
<1>7. Starts(d)
  BY <1>5, <1>6 DEF Starts
<1>8. Started(d) = Completed(d)
  BY <1>6 DEF Started, End, Tx
<1> QED BY <1>1, <1>2, <1>3, <1>4, <1>7, <1>8

\* What schema.sql completes it to.
LEMMA ReadyCompleted ==
    ASSUME Parameters, NEW f, Startable(f), NEW d, NEW rows, Ready(f, d, rows)
    PROVE  LET after == Completed(d) IN
           /\ after.tables = Whole
           /\ after.goals.cols = "entry_ids" /\ after.goals.rows = rows
           /\ after.goals_v2 = None
           /\ Highest(after.history) = Current
<1> DEFINE after == Completed(d)
<1>1. d.history # None /\ d.history \in Present
  BY ReadyPlan
<1>2. after.tables = d.tables \cup Whole /\ after.goals_v2 = d.goals_v2
  BY DEF Completed
<1>3. after.history = d.history
  BY <1>1 DEF Completed
<1>4. after.goals = IF d.goals = None THEN Goals("entry_ids", {}) ELSE d.goals
  BY DEF Completed
<1> HIDE DEF after
<1>5. after.tables = Whole /\ after.goals_v2 = None
  BY <1>2 DEF Ready
<1>6. Highest(after.history) = Current
  BY <1>1, <1>3, PresentHistories, CurrentIs
<1>7. after.goals = Goals("entry_ids", rows)
  BY <1>4 DEF Ready
<1>8. after.goals.cols = "entry_ids" /\ after.goals.rows = rows
  BY <1>7 DEF Goals
<1> QED BY <1>5, <1>6, <1>8 DEF after

\* A database from which schema.sql has nothing missing is complete.
LEMMA Complete ==
    ASSUME Parameters, NEW d \in Databases, SchemaMissing(d) = {}, d.tables \subseteq Whole
    PROVE  Completed(d) = d /\ d.goals # None
<1>1. Whole \ d.tables = {} /\ d.goals # None /\ d.history # None
  <2>1. ASSUME NEW t \in Whole \ d.tables PROVE FALSE
    <3>1. Create(t) \in SchemaMissing(d)
      BY DEF SchemaMissing
    <3> QED BY <3>1
  <2>2. d.goals = None => GoalStep("create goals") \in SchemaMissing(d)
    BY DEF SchemaMissing
  <2>3. d.history = None => HistoryTable \in SchemaMissing(d)
    BY DEF SchemaMissing
  <2> QED BY <2>1, <2>2, <2>3
<1>2. d.tables \cup Whole = d.tables
  BY <1>1
<1>3. Completed(d) = [d EXCEPT !.tables = d.tables, !.goals = d.goals, !.history = d.history]
  BY <1>1, <1>2 DEF Completed
<1> QED BY <1>1, <1>3 DEF Databases

\* A statement of schema.sql keeps a database brought.
LEMMA SchemaStatementReady ==
    ASSUME Parameters, NEW f, Startable(f), NEW d \in Databases, NEW rows, Ready(f, d, rows),
           NEW s \in SchemaMissing(d)
    PROVE  SchemaStatement(d, s) \in Databases /\ Ready(f, SchemaStatement(d, s), rows)
<1>0. d.history # None
  BY ReadyPlan
<1>1. Goals("entry_ids", {}) \in GoalTables
  BY DEF Goals, GoalTables
<1>2. CASE \E t \in Whole \ d.tables : s = Create(t)
  <2>1. PICK t \in Whole \ d.tables : s = Create(t)
    BY <1>2
  <2>2. SchemaStatement(d, s) = [d EXCEPT !.tables = @ \cup {t}]
    BY <2>1 DEF SchemaStatement, Create
  <2> QED BY <2>1, <2>2 DEF Databases, Ready
<1>3. CASE s = GoalStep("create goals") /\ d.goals = None
  <2>1. SchemaStatement(d, s) = [d EXCEPT !.goals = Goals("entry_ids", {})]
    BY <1>3 DEF SchemaStatement, GoalStep
  <2>2. rows = {}
    BY <1>3 DEF Ready
  <2> QED BY <1>1, <1>3, <2>1, <2>2 DEF Databases, Ready
<1> QED BY <1>0, <1>2, <1>3 DEF SchemaMissing

\* So does a goal that is written.
LEMMA GoalWritten ==
    ASSUME Parameters, NEW f, Startable(f), NEW d \in Databases, NEW rows, Ready(f, d, rows),
           SchemaMissing(d) = {}, rows \subseteq 0..MaxEvents, NEW e \in 0..MaxEvents
    PROVE  LET after == [d EXCEPT !.goals.rows = @ \cup {e}] IN
           /\ after \in Databases /\ Ready(f, after, rows \cup {e})
           /\ SchemaMissing(after) = {}
<1> DEFINE after == [d EXCEPT !.goals.rows = @ \cup {e}]
           more == rows \cup {e}
<1>1. d.tables \subseteq Whole /\ d.goals = Goals("entry_ids", rows) /\ d.goals # None
  BY Complete DEF Ready
<1>2. more \in SUBSET (0..MaxEvents)
  OBVIOUS
<1>3. after = [d EXCEPT !.goals = Goals("entry_ids", more)]
  BY <1>1 DEF Databases, Goals
<1> HIDE DEF more, after
<1>4. Goals("entry_ids", more) \in GoalTables
  BY <1>2 DEF Goals, GoalTables
<1>5. Goals("entry_ids", more) # None
  BY <1>4, NothingElse
<1>6. after \in Databases
  BY <1>3, <1>4 DEF Databases
<1>7. /\ after.goals = Goals("entry_ids", more) /\ after.tables = d.tables
      /\ after.history = d.history /\ after.goals_v2 = d.goals_v2
  BY <1>3 DEF Databases
<1>8. Ready(f, after, more)
  BY <1>5, <1>7 DEF Ready
<1>9. SchemaMissing(after) = {}
  BY <1>1, <1>5, <1>7 DEF SchemaMissing
<1> QED BY <1>6, <1>8, <1>9 DEF more, after

\* The transaction that brought it here fails if it is run again, and before
\* that changes nothing.
LEMMA RunOnce ==
    ASSUME Parameters, NEW f, Startable(f), Tx(f) # <<>>, NEW d \in Databases, NEW rows, Ready(f, d, rows)
    PROVE  /\ Len(Tx(f)) \in Nat /\ Len(Tx(f)) >= 2
           /\ \/ Fails(d, Tx(f)[1])
              \/ Tx(f)[1] = HistoryTable /\ Executed(d, HistoryTable) = d /\ Fails(d, Tx(f)[2])
<1>1. Once(f) /\ Len(Tx(f)) \in Nat
  BY LenProperties DEF Startable
<1>2. ASSUME NEW t \in End(f).tables, Tx(f)[1] = Create(t) PROVE Fails(d, Tx(f)[1])
  BY <1>2 DEF Ready, Fails, Create
<1>3. ASSUME NEW v, NEW m, Tx(f)[2] = Stamp(v, m), \E r \in End(f).history : r[1] = v
      PROVE  Fails(d, Tx(f)[2])
  BY <1>3 DEF Ready, Fails, Stamp
<1>4. d.history # None
  BY ReadyPlan
<1>5. Executed(d, HistoryTable) = [d EXCEPT !.history = d.history]
  BY <1>4 DEF Executed, Fails, HistoryTable
<1>6. Executed(d, HistoryTable) = d
  BY <1>5 DEF Databases
<1> QED BY <1>1, <1>2, <1>3, <1>6 DEF Once

\* A database with a transaction to run is not brought yet.
LEMMA NotReadyYet ==
    ASSUME Parameters, NEW f, Startable(f), Tx(f) # <<>>, f \in Databases, NEW rows
    PROVE  ~ Ready(f, f, rows)
<1>1. SUFFICES ASSUME Ready(f, f, rows) PROVE FALSE
  OBVIOUS
<1> DEFINE t == Tx(f)
           R(i) == Ran(f, t)[i]
<1>2. /\ Len(t) \in Nat /\ Len(t) >= 2
      /\ \/ Fails(f, t[1])
         \/ t[1] = HistoryTable /\ Executed(f, HistoryTable) = f /\ Fails(f, t[2])
  BY <1>1, RunOnce
<1>3. \A i \in 1..Len(t) : ~ Fails(R(i - 1), t[i])
  BY DEF Startable, Starts, Tx
<1>4. R(0) = f /\ \A i \in 1..Len(t) : R(i) = Executed(R(i - 1), t[i])
  BY <1>2, RanSteps
<1> HIDE DEF R, t
<1>5. 1 \in 1..Len(t) /\ 2 \in 1..Len(t) /\ 1 - 1 = 0 /\ 2 - 1 = 1
  BY <1>2
<1>6. ~ Fails(f, t[1]) /\ R(1) = Executed(f, t[1])
  BY <1>3, <1>4, <1>5
<1>7. ~ Fails(R(1), t[2])
  BY <1>3, <1>5
<1> QED BY <1>2, <1>6, <1>7

\* A statement of a transaction keeps a database one.
LEMMA ExecutedTyped ==
    ASSUME Parameters, NEW d \in Databases, NEW s \in AllStatements
    PROVE  Executed(d, s) \in Databases
<1>1. SUFFICES ASSUME ~ Fails(d, s) PROVE Executed(d, s) \in Databases
  BY DEF Executed
<1>2. ASSUME NEW t \in Whole, s = Create(t) PROVE Executed(d, s) \in Databases
  BY <1>1, <1>2 DEF Executed, Create, Databases
<1>3. ASSUME NEW t, s = Drop(t) PROVE Executed(d, s) \in Databases
  BY <1>1, <1>3 DEF Executed, Drop, Databases
<1>4. ASSUME s = HistoryTable PROVE Executed(d, s) \in Databases
  BY <1>1, <1>4 DEF Executed, HistoryTable, Databases, Histories
<1>5. ASSUME NEW v \in 1..(Current + 1), NEW m \in Sentinels \cup {"step"}, s = Stamp(v, m)
      PROVE  Executed(d, s) \in Databases
  <2>1. d.history # None
    BY <1>1, <1>5 DEF Fails, Stamp
  <2>2. d.history \in Histories
    BY <2>1 DEF Databases
  <2>3. d.history \cup {<<v, m>>} \in Histories
    BY <2>2 DEF Histories
  <2>4. Executed(d, s) = [d EXCEPT !.history = d.history \cup {<<v, m>>}]
    BY <1>1, <1>5 DEF Executed, Stamp
  <2> QED BY <2>3, <2>4 DEF Databases
<1>6. Goals("entry_ids", {}) \in GoalTables
  BY DEF Goals, GoalTables
<1>7. ASSUME s = GoalStep("create goals_v2") PROVE Executed(d, s) \in Databases
  BY <1>1, <1>6, <1>7 DEF Executed, GoalStep, Databases
<1>8. ASSUME s = GoalStep("copy goals") PROVE Executed(d, s) \in Databases
  <2>1. d.goals # None
    BY <1>1, <1>8 DEF Fails, GoalStep
  <2>2. d.goals.rows \in SUBSET (0..MaxEvents)
    BY <2>1 DEF Databases, GoalTables
  <2>3. Goals("entry_ids", d.goals.rows) \in GoalTables
    BY <2>2 DEF Goals, GoalTables
  <2>4. Executed(d, s) = [d EXCEPT !.goals_v2 = Goals("entry_ids", d.goals.rows)]
    BY <1>1, <1>8 DEF Executed, GoalStep
  <2> QED BY <2>3, <2>4 DEF Databases
<1>9. ASSUME s = GoalStep("drop goals") PROVE Executed(d, s) \in Databases
  BY <1>1, <1>9 DEF Executed, GoalStep, Databases
<1>10. ASSUME s = GoalStep("rename goals_v2") PROVE Executed(d, s) \in Databases
  <2>1. Executed(d, s) = [d EXCEPT !.goals = d.goals_v2, !.goals_v2 = None]
    BY <1>1, <1>10 DEF Executed, GoalStep
  <2> QED BY <2>1 DEF Databases
<1>11. /\ 1 \in 1..(Current + 1) /\ 2 \in 1..(Current + 1) /\ 3 \in 1..(Current + 1)
       /\ {"legacy-baseline", "fresh-create", "adopted-without-history", "step"} \subseteq Sentinels \cup {"step"}
       /\ {"coverage_roots", "coverage_entries", "embeddings"} \subseteq Whole
  BY DEF Current, Sentinels, Whole, V2
<1>12. /\ s \in {Stamp(1, "legacy-baseline"), Stamp(3, "fresh-create"),
                  Stamp(3, "adopted-without-history"), Stamp(2, "step"), Stamp(3, "step")}
          => \E v \in 1..(Current + 1), m \in Sentinels \cup {"step"} : s = Stamp(v, m)
       /\ s \in {Create("coverage_roots"), Create("coverage_entries"), Create("embeddings")}
          => \E t \in Whole : s = Create(t)
  BY <1>11
<1> QED
  BY <1>2, <1>3, <1>4, <1>5, <1>7, <1>8, <1>9, <1>10, <1>12 DEF AllStatements

-----------------------------------------------------------------------------
(* The invariant. *)

AsFound == db = found /\ written = Rows(found)
Brings  == Ready(found, db, written)
First   == Plan(Seen(found), found)

\* The database of a refused start is left alone, and no start gets past its decision.
Untouched ==
    /\ db = found /\ copy = found
    /\ \A p \in Processes :
         /\ phase[p] \in {"out", "decide", "failed"}
         /\ phase[p] = "decide" => tables[p] = "some"

\* What a process has decided, or is about to, fits the database as found or as brought.
Decided(p) ==
    /\ phase[p] = "decide" => tables[p] = Seen(found) \/ (tables[p] = "some" /\ Brings)
    /\ phase[p] \in {"backup", "begin"} => plan[p] = First \/ (plan[p] = <<>> /\ Brings)
    /\ phase[p] = "begin" /\ plan[p] # <<>> /\ BacksUp(First) => BackedUp
    /\ phase[p] \in {"schema", "serving"} => Brings
    /\ phase[p] = "serving" => SchemaMissing(db) = {}

\* A transaction is where its statements have led from the database as found, or
\* about to fail on one that was brought meanwhile.
Working(p) ==
    phase[p] = "work" =>
        /\ Tx(found) # <<>>
        /\ BacksUp(First) => BackedUp
        /\ \E j \in 0..Len(Tx(found)) :
             /\ plan[p] = <<SubSeq(Tx(found), j + 1, Len(Tx(found)))>>
             /\ \/ AsFound /\ copy = Ran(found, Tx(found))[j]
                \/ /\ Brings /\ copy = db
                   /\ j = 0 \/ (j = 1 /\ Tx(found)[1] = HistoryTable)

Restarted ==
    /\ AsFound \/ Brings
    /\ BacksUp(First) /\ db # found => BackedUp
    /\ \A p \in Processes : Decided(p) /\ Working(p)

IInv ==
    /\ TypeOK
    /\ plan = [p \in Processes |-> plan[p]]
    /\ Refuses(found) => Untouched
    /\ Startable(found) => Restarted

\* It holds of the database as found, when nobody has started.
LEMMA InitInvariant == Parameters /\ Init => IInv
<1> SUFFICES ASSUME Parameters, Init PROVE IInv
  OBVIOUS
<1> USE DEF Init
<1>1. found \in Databases /\ Rows(found) \subseteq 0..MaxEvents /\ written = Rows(found)
  BY FoundTyped DEF Rows
<1>2. TypeOK
  <2>1. 0 \in 0..MaxEvents
    BY DEF Parameters
  <2>2. \A p \in Processes : None # p
    BY DEF Parameters
  <2>3. backups \in Seq(Databases) /\ overwritten \in BOOLEAN
    <3>1. backups = <<>> /\ overwritten = FALSE
      OBVIOUS
    <3>2. <<>> \in Seq(Databases)
      BY EmptySeq
    <3>3. FALSE \in BOOLEAN
      OBVIOUS
    <3> QED BY ONLY <3>1, <3>2, <3>3
  <2>4. {db, copy} \subseteq Databases
    BY <1>1
  <2> QED BY <1>1, <2>1, <2>2, <2>3, <2>4 DEF TypeOK
<1>3. Untouched
  BY DEF Untouched
<1>4. Restarted
  <2>1. ASSUME NEW p \in Processes PROVE Decided(p) /\ Working(p)
    BY DEF Decided, Working
  <2> QED BY <1>1, <2>1 DEF Restarted, AsFound
<1> QED BY <1>2, <1>3, <1>4 DEF IInv

\* A database with nothing to run as found is at the present version.
LEMMA NothingToRun ==
    ASSUME Startable(found), First = <<>>, AsFound \/ Brings
    PROVE  Brings
<1>1. Tx(found) = <<>> /\ End(found) = found
  <2>1. \A t : <<t>> # <<>>
    OBVIOUS
  <2>2. Tx(found) # <<>> => First = <<Tx(found)>>
    BY DEF Startable, First
  <2>3. Tx(found) = <<>>
    BY <2>1, <2>2
  <2> QED BY <2>3 DEF Startable
<1>2. Ready(found, found, Rows(found))
  BY <1>1, EndReady
<1> QED BY <1>2 DEF AsFound, Brings

\* A start that decides is not refused, and is to run what one alone would, or nothing.
LEMMA ToRun ==
    ASSUME Parameters, Startable(found), AsFound \/ Brings, NEW p, Decided(p), phase[p] = "decide"
    PROVE  /\ ~ Refused(tables[p], db)
           /\ \/ Plan(tables[p], db) = First
              \/ Plan(tables[p], db) = <<>> /\ Brings
<1>1. CASE tables[p] = "some" /\ Brings
  <2>1. tables[p] # "none"
    BY <1>1
  <2> QED BY <1>1, <2>1, ReadyPlan DEF Brings
<1>2. CASE tables[p] = Seen(found) /\ AsFound
  BY <1>2 DEF AsFound, First, Startable
<1>3. CASE tables[p] = Seen(found) /\ Brings /\ tables[p] # "none"
  BY <1>3, ReadyPlan DEF Brings
<1>4. CASE tables[p] = Seen(found) /\ tables[p] = "none"
  BY <1>4 DEF Refused, Plan, First
<1> QED BY <1>1, <1>2, <1>3, <1>4 DEF Decided

\* A step of one process that leaves the database alone leaves what holds of another.
LEMMA OtherDecided ==
    ASSUME NEW p, Decided(p), found' = found, db' = db, written' = written, BackedUp => BackedUp',
           phase'[p] = phase[p], tables'[p] = tables[p], plan'[p] = plan[p]
    PROVE  Decided(p)'
  BY DEF Decided, Brings, First

\* So for its transaction.
LEMMA OtherWorking ==
    ASSUME NEW p, Working(p), found' = found, db' = db, written' = written, BackedUp => BackedUp',
           phase'[p] = phase[p], copy' = copy, plan'[p] = plan[p]
    PROVE  Working(p)'
  BY DEF Working, Brings, First, AsFound

\* What a step that leaves the database alone has still to show: itself.
LEMMA QuietStep ==
    ASSUME Restarted, NEW p \in Processes, found' = found, db' = db, written' = written,
           BackedUp => BackedUp',
           \A q \in Processes \ {p} :
             /\ phase'[q] = phase[q] /\ tables'[q] = tables[q] /\ plan'[q] = plan[q]
             /\ copy' = copy \/ phase[q] # "work",
           Decided(p)', Working(p)'
    PROVE  Restarted'
<1>1. ASSUME NEW q \in Processes, q # p PROVE Decided(q)' /\ Working(q)'
  <2>1. Decided(q) /\ Working(q)
    BY DEF Restarted
  <2>2. Decided(q)'
    BY <1>1, <2>1, OtherDecided
  <2>3. CASE phase[q] # "work"
    BY <1>1, <2>2, <2>3 DEF Working
  <2>4. CASE copy' = copy
    BY <1>1, <2>1, <2>2, <2>4, OtherWorking
  <2> QED BY <1>1, <2>2, <2>3, <2>4
<1>2. \A q \in Processes : Decided(q)' /\ Working(q)'
  BY <1>1
<1>3. AsFound' = AsFound /\ Brings' = Brings /\ First' = First
  BY DEF AsFound, Brings, First
<1>4. BacksUp(First)' /\ db' # found' => BackedUp'
  BY <1>3 DEF Restarted
<1> QED BY <1>2, <1>3, <1>4 DEF Restarted

\* A step that copies nothing leaves it so that the database as found was copied.
LEMMA BackedUpStays ==
    ASSUME found' = found, UNCHANGED copies PROVE BackedUp' = BackedUp
  BY DEF BackedUp, copies

\* A copy goes to a file of its own, or over another.
LEMMA CopyMade ==
    ASSUME backups \in Seq(Databases), db \in Databases, overwritten \in BOOLEAN, found' = found,
           \/ backups' = Append(backups, db) /\ UNCHANGED overwritten
           \/ /\ backups # <<>>
              /\ backups' = [backups EXCEPT ![Len(backups)] = db]
              /\ overwritten' = (overwritten \/ Last(backups) # db)
    PROVE  /\ BackedUp => BackedUp'
           /\ db = found => BackedUp'
           /\ backups' \in Seq(Databases) /\ overwritten' \in BOOLEAN
<1> DEFINE n == Len(backups)
<1>1. n \in Nat /\ DOMAIN backups = 1..n /\ \A i \in 1..n : backups[i] \in Databases
  OBVIOUS
<1>2. CASE backups' = Append(backups, db) /\ UNCHANGED overwritten
  <2>1. /\ backups' \in Seq(Databases) /\ DOMAIN backups' = 1..(n + 1)
        /\ \A i \in 1..n : backups'[i] = backups[i]
        /\ backups'[n + 1] = db
    BY <1>2
  <2>2. n + 1 \in 1..(n + 1) /\ 1..n \subseteq 1..(n + 1)
    BY <1>1
  <2> HIDE DEF n
  <2> QED BY <1>1, <1>2, <2>1, <2>2 DEF BackedUp
<1>3. CASE /\ backups # <<>>
           /\ backups' = [backups EXCEPT ![n] = db]
           /\ overwritten' = (overwritten \/ Last(backups) # db)
  <2>1. n \in 1..n /\ Last(backups) = backups[n]
    BY <1>3 DEF Last
  <2>2. /\ backups' \in Seq(Databases) /\ DOMAIN backups' = 1..n
        /\ \A i \in 1..n : backups'[i] = IF i = n THEN db ELSE backups[i]
    <3> HIDE DEF n
    <3>1. /\ DOMAIN backups' = 1..n /\ backups' = [i \in 1..n |-> backups'[i]]
          /\ \A i \in 1..n : backups'[i] = IF i = n THEN db ELSE backups[i]
      BY <1>1, <1>3, <2>1
    <3>2. \A i \in 1..n : backups'[i] \in Databases
      BY <1>1, <3>1
    <3>3. backups' \in [1..n -> Databases]
      BY <3>1, <3>2
    <3> QED BY <1>1, <3>1, <3>3
  <2>3. overwritten' \in BOOLEAN
    BY <1>3, Zenon
  <2> HIDE DEF n
  <2>4. db = found => BackedUp'
    BY <2>1, <2>2 DEF BackedUp
  <2>5. ASSUME overwritten \/ Last(backups) # db PROVE BackedUp'
    <3>1. overwritten'
      BY <1>3, <2>5, Zenon
    <3> QED BY <3>1 DEF BackedUp
  <2>6. ASSUME ~ overwritten, Last(backups) = db, BackedUp PROVE BackedUp'
    <3>1. PICK i \in 1..n : backups[i] = found
      BY <1>1, <2>6 DEF BackedUp
    <3>2. backups'[i] = found
      BY <2>1, <2>2, <2>6, <3>1
    <3> QED BY <2>2, <3>1, <3>2 DEF BackedUp
  <2> QED BY <2>2, <2>3, <2>4, <2>5, <2>6
<1> QED BY <1>2, <1>3

\* A look sees no table, those of version 1, or others.
LEMMA SeenTyped == \A d : Seen(d) \in {"none", "v1", "some"}
  BY DEF Seen

\* What a process saw is what the database had as found, or has as brought.
LEMMA LookAtTablesStep ==
    ASSUME Parameters, IInv, NEW p \in Processes, LookAtTables(p) PROVE IInv'
<1> USE DEF LookAtTables, IInv
<1>0. /\ phase'[p] = "decide" /\ tables'[p] = Seen(db) /\ phase[p] = "out"
      /\ \A q \in Processes \ {p} : phase'[q] = phase[q] /\ tables'[q] = tables[q]
  BY DEF TypeOK
<1>1. TypeOK'
  BY <1>0, SeenTyped DEF TypeOK, copies
<1>2. ASSUME Refuses(found) PROVE Untouched'
  <2>1. Untouched /\ Seen(found) = "some"
    BY <1>2 DEF Refuses
  <2> QED BY <1>0, <2>1 DEF Untouched
<1>3. ASSUME Startable(found) PROVE Restarted'
  <2>1. Restarted
    BY <1>3
  <2>2. Decided(p)'
    <3>1. CASE AsFound
      BY <1>0, <3>1 DEF Decided, AsFound
    <3>2. CASE Brings
      <4>1. Seen(db) = "some"
        BY <1>3, <3>2, ReadyPlan DEF Brings
      <4>2. Brings'
        BY <3>2 DEF Brings
      <4> QED BY <1>0, <4>1, <4>2 DEF Decided
    <3> QED BY <2>1, <3>1, <3>2 DEF Restarted
  <2>3. Working(p)'
    BY <1>0 DEF Working
  <2> QED BY <1>0, <2>1, <2>2, <2>3, QuietStep, BackedUpStays
<1> QED BY <1>1, <1>2, <1>3

\* Its decision may be of a database that was brought since: then it runs nothing.
LEMMA DecideStep ==
    ASSUME Parameters, IInv, NEW p \in Processes, Decide(p) PROVE IInv'
<1> USE DEF Decide, IInv
<1> DEFINE todo == Plan(tables[p], db)
<1>0. /\ phase[p] = "decide" /\ phase'[p] \in {"failed", "backup", "begin"}
      /\ phase'[p] # "failed" => plan'[p] = todo /\ ~ Refused(tables[p], db)
      /\ phase'[p] = "begin" => ~ BacksUp(todo)
      /\ phase'[p] = "backup" => BacksUp(todo)
      /\ Refused(tables[p], db) => phase'[p] = "failed"
      /\ plan' = [q \in Processes |-> plan'[q]]
      /\ \A q \in Processes \ {p} : phase'[q] = phase[q] /\ plan'[q] = plan[q]
  <2> HIDE DEF todo
  <2> QED BY DEF TypeOK, todo
<1> HIDE DEF todo
<1>1. TypeOK'
  <2>1. phase' \in [Processes -> {"out", "decide", "backup", "begin", "work", "schema", "serving", "failed"}]
    BY DEF TypeOK
  <2> QED BY <1>0, <2>1 DEF TypeOK, copies
<1>2. ASSUME Refuses(found) PROVE Untouched'
  <2>1. Untouched /\ Refused("some", found)
    BY <1>2 DEF Refuses
  <2>2. tables[p] = "some" /\ db = found
    BY <1>0, <2>1 DEF Untouched
  <2> QED BY <1>0, <2>1, <2>2 DEF Untouched
<1>3. ASSUME Startable(found) PROVE Restarted'
  <2>1. Restarted
    BY <1>3
  <2>2. phase'[p] # "failed" => todo = First \/ (todo = <<>> /\ Brings)
    BY <1>0, <1>3, <2>1, ToRun DEF Restarted, todo
  <2>3. Decided(p)'
    <3>1. First' = First /\ Brings' = Brings
      BY DEF First, Brings
    <3>2. phase'[p] \in {"backup", "begin"} => plan'[p] = First \/ (plan'[p] = <<>> /\ Brings)
      BY <1>0, <2>2
    <3>3. phase'[p] = "begin" /\ plan'[p] # <<>> => ~ BacksUp(First)
      BY <1>0, <2>2
    <3> QED BY <1>0, <3>1, <3>2, <3>3 DEF Decided
  <2>4. Working(p)'
    BY <1>0 DEF Working
  <2> QED BY <1>0, <2>1, <2>3, <2>4, QuietStep, BackedUpStays
<1> QED BY <1>0, <1>1, <1>2, <1>3

\* The copy is of the database as found, or there is one already.
LEMMA BackupStep ==
    ASSUME Parameters, IInv, NEW p \in Processes, Backup(p) PROVE IInv'
<1> USE DEF Backup, IInv
<1>0. /\ phase[p] = "backup" /\ phase'[p] \in {"begin", "failed"}
      /\ BackedUp => BackedUp'
      /\ phase'[p] = "begin" /\ db = found => BackedUp'
      /\ backups' \in Seq(Databases) /\ overwritten' \in BOOLEAN
      /\ \A q \in Processes \ {p} : phase'[q] = phase[q]
  <2>1. /\ BackedUp => BackedUp'
        /\ phase'[p] = "begin" /\ db = found => BackedUp'
        /\ backups' \in Seq(Databases) /\ overwritten' \in BOOLEAN
    <3>1. CASE UNCHANGED copies /\ phase' = [phase EXCEPT ![p] = "failed"]
      <4>1. phase'[p] # "begin"
        BY <3>1 DEF TypeOK
      <4>2. backups' = backups /\ overwritten' = overwritten
        BY <3>1 DEF copies
      <4> QED BY <3>1, <4>1, <4>2, BackedUpStays DEF TypeOK
    <3>2. CASE \/ backups' = Append(backups, db) /\ UNCHANGED overwritten
               \/ /\ backups # <<>>
                  /\ backups' = [backups EXCEPT ![Len(backups)] = db]
                  /\ overwritten' = (overwritten \/ Last(backups) # db)
      BY <3>2, CopyMade DEF TypeOK
    <3> QED BY <3>1, <3>2
  <2> QED BY <2>1 DEF TypeOK
<1>1. TypeOK'
  <2>1. phase' \in [Processes -> {"out", "decide", "backup", "begin", "work", "schema", "serving", "failed"}]
    BY DEF TypeOK
  <2>2. events' \in 0..MaxEvents
    BY DEF TypeOK, Event, Parameters, copies
  <2> QED BY <1>0, <2>1, <2>2 DEF TypeOK
<1>2. ASSUME Refuses(found) PROVE Untouched'
  BY <1>0, <1>2 DEF Untouched
<1>3. ASSUME Startable(found) PROVE Restarted'
  <2>1. Restarted
    BY <1>3
  <2>2. Decided(p)'
    <3>1. First' = First /\ Brings' = Brings
      BY DEF First, Brings
    <3>2. Decided(p) /\ (BacksUp(First) /\ db # found => BackedUp)
      BY <2>1 DEF Restarted
    <3> QED BY <1>0, <3>1, <3>2 DEF Decided
  <2>3. Working(p)'
    BY <1>0 DEF Working
  <2> QED BY <1>0, <2>1, <2>2, <2>3, QuietStep
<1> QED BY <1>1, <1>2, <1>3

\* What is left of a sequence.
LEMMA Remaining ==
    ASSUME NEW S, NEW t \in Seq(S), NEW j \in 0..Len(t)
    PROVE  LET r == SubSeq(t, j + 1, Len(t)) IN
           /\ j = Len(t) => r = <<>>
           /\ j < Len(t) => r # <<>> /\ Head(r) = t[j + 1] /\ Tail(r) = SubSeq(t, j + 2, Len(t))
                            /\ t[j + 1] \in S
<1> DEFINE n == Len(t)
           r == SubSeq(t, j + 1, n)
<1>1. n \in Nat
  BY LenProperties
<1>2. ASSUME j = n PROVE r = <<>>
  BY <1>1, <1>2, SubSeqEmpty
<1>3. ASSUME j < n PROVE r # <<>> /\ Head(r) = t[j + 1] /\ Tail(r) = SubSeq(t, j + 2, n) /\ t[j + 1] \in S
  <2>1. j + 1 \in 1..n /\ n \in (j + 1)..n /\ j + 2 = (j + 1) + 1
    BY <1>1, <1>3
  <2>2. t[j + 1] \in S
    BY <2>1, ElementOfSeq
  <2>3. Head(r) = t[j + 1] /\ Tail(r) = SubSeq(t, j + 2, n)
    BY <2>1, HeadTailOfSubSeq
  <2>4. \A i \in (j + 1)..n : t[i] \in S
    BY <1>1, ElementOfSeq
  <2>5. Len(r) = n - (j + 1) + 1
    BY <2>1, <2>4, <1>1, SubSeqProperties
  <2>6. r # <<>>
    <3> HIDE DEF r
    <3>1. Len(r) # 0
      BY <2>5, <1>1, <1>3
    <3>2. Len(<<>>) = 0
      OBVIOUS
    <3> QED BY <3>1, <3>2, Zenon
  <2> QED BY <2>2, <2>3, <2>6
<1> QED BY <1>2, <1>3

\* A transaction begins on the database as found, or on one that was brought.
LEMMA BeginStep ==
    ASSUME Parameters, IInv, NEW p \in Processes, Begin(p) PROVE IInv'
<1> USE DEF Begin, IInv
<1>0. /\ phase[p] = "begin" /\ phase'[p] \in {"schema", "work"}
      /\ phase'[p] = "schema" => plan[p] = <<>> /\ lock' = lock /\ copy' = copy
      /\ phase'[p] = "work" => plan[p] # <<>> /\ lock = None /\ lock' = p /\ copy' = db
      /\ \A q \in Processes \ {p} : phase'[q] = phase[q]
  BY DEF TypeOK
<1>1. TypeOK'
  <2>1. phase' \in [Processes -> {"out", "decide", "backup", "begin", "work", "schema", "serving", "failed"}]
    BY DEF TypeOK
  <2>2. lock' \in Processes \cup {None} /\ copy' \in Databases
    BY <1>0 DEF TypeOK
  <2>3. \A q \in Processes : (lock' = q) = (phase'[q] = "work")
    <3>1. None \notin Processes
      BY DEF Parameters
    <3>2. ASSUME NEW q \in Processes PROVE (lock' = q) = (phase'[q] = "work")
      BY <1>0, <3>1 DEF TypeOK
    <3> QED BY <3>2
  <2> QED BY <2>1, <2>2, <2>3 DEF TypeOK, copies
<1>2. ASSUME Refuses(found) PROVE Untouched'
  BY <1>0, <1>2 DEF Untouched
<1>3. ASSUME Startable(found) PROVE Restarted'
  <2>1. Restarted /\ Decided(p)
    BY <1>3 DEF Restarted
  <2>2. plan[p] = First \/ (plan[p] = <<>> /\ Brings)
    BY <1>0, <2>1 DEF Decided
  <2>3. First' = First /\ Brings' = Brings /\ AsFound' = AsFound
    BY DEF First, Brings, AsFound
  <2>4. Decided(p)'
    <3>1. plan[p] = <<>> => Brings
      BY <1>3, <2>1, <2>2, NothingToRun DEF Restarted
    <3> QED BY <1>0, <2>3, <3>1 DEF Decided
  <2>5. Working(p)'
    <3>1. SUFFICES ASSUME phase'[p] = "work" PROVE Working(p)'
      BY DEF Working
    <3> DEFINE t == Tx(found)
    <3>2. First = <<t>> /\ t # <<>> /\ t \in Seq(AllStatements)
      BY <1>0, <1>3, <2>2, <3>1 DEF Startable, First
    <3>3. BacksUp(First) => BackedUp
      BY <1>0, <2>1, <3>1 DEF Decided
    <3>4. SubSeq(t, 0 + 1, Len(t)) = t /\ 0 \in 0..Len(t) /\ Ran(found, t)[0] = found
      <4>1. Len(t) \in Nat
        BY <3>2, LenProperties
      <4> QED BY <3>2, <4>1, SubSeqFull, RanSteps
    <3>5. plan'[p] = <<SubSeq(t, 0 + 1, Len(t))>>
      BY <1>0, <2>2, <3>1, <3>2, <3>4
    <3>6. \/ AsFound' /\ copy' = Ran(found, t)[0]
          \/ Brings' /\ copy' = db'
      BY <1>0, <2>1, <2>3, <3>1, <3>4 DEF Restarted, AsFound
    <3> HIDE DEF t
    <3>7. \E j \in 0..Len(t) :
            /\ plan'[p] = <<SubSeq(t, j + 1, Len(t))>>
            /\ \/ AsFound' /\ copy' = Ran(found, t)[j]
               \/ Brings' /\ copy' = db' /\ (j = 0 \/ (j = 1 /\ t[1] = HistoryTable))
      BY <3>4, <3>5, <3>6
    <3>8. found' = found
      OBVIOUS
    <3> QED BY <3>2, <3>3, <3>7, <3>8, <2>3, BackedUpStays DEF Working, t
  <2>6. \A q \in Processes \ {p} : copy' = copy \/ phase[q] # "work"
    BY <1>0 DEF TypeOK, Parameters
  <2> QED BY <1>0, <2>1, <2>4, <2>5, <2>6, QuietStep, BackedUpStays
<1> QED BY <1>1, <1>2, <1>3

\* A statement that fails, and the transaction with it, leave the database alone.
LEMMA StatementFailsStep ==
    ASSUME Parameters, IInv, NEW p \in Processes, StatementFails(p) PROVE IInv'
<1> USE DEF StatementFails, IInv
<1>0. /\ phase[p] \in {"begin", "work", "schema"} /\ phase'[p] = "failed"
      /\ \A q \in Processes \ {p} : phase'[q] = phase[q]
  BY DEF TypeOK
<1>1. TypeOK'
  <2>1. phase' \in [Processes -> {"out", "decide", "backup", "begin", "work", "schema", "serving", "failed"}]
    BY DEF TypeOK
  <2>2. events' \in 0..MaxEvents
    BY DEF TypeOK, Event, Parameters
  <2>3. \A q \in Processes : (lock' = q) = (phase'[q] = "work")
    BY <1>0 DEF TypeOK, Unlocked, Parameters
  <2>4. lock' \in Processes \cup {None}
    BY DEF TypeOK, Unlocked
  <2> QED BY <2>1, <2>2, <2>3, <2>4 DEF TypeOK, copies
<1>2. ASSUME Refuses(found) PROVE Untouched'
  BY <1>0, <1>2 DEF Untouched
<1>3. ASSUME Startable(found) PROVE Restarted'
  <2>1. Restarted
    BY <1>3
  <2>2. Decided(p)' /\ Working(p)'
    BY <1>0 DEF Decided, Working
  <2> QED BY <1>0, <2>1, <2>2, QuietStep, BackedUpStays
<1> QED BY <1>1, <1>2, <1>3

\* So does the end of the process.
LEMMA RestartStep ==
    ASSUME Parameters, IInv, NEW p \in Processes, Restart(p) PROVE IInv'
<1> USE DEF Restart, IInv
<1>0. /\ phase'[p] = "out"
      /\ \A q \in Processes \ {p} : phase'[q] = phase[q] /\ plan'[q] = plan[q]
  BY DEF TypeOK
<1>1. TypeOK'
  <2>1. phase' \in [Processes -> {"out", "decide", "backup", "begin", "work", "schema", "serving", "failed"}]
    BY DEF TypeOK
  <2>2. events' \in 0..MaxEvents
    BY DEF TypeOK, Event, Parameters
  <2>3. \A q \in Processes : (lock' = q) = (phase'[q] = "work")
    BY <1>0 DEF TypeOK, Unlocked, Parameters
  <2>4. lock' \in Processes \cup {None}
    BY DEF TypeOK, Unlocked
  <2> QED BY <2>1, <2>2, <2>3, <2>4 DEF TypeOK, copies
<1>2. ASSUME Refuses(found) PROVE Untouched'
  BY <1>0, <1>2 DEF Untouched
<1>3. ASSUME Startable(found) PROVE Restarted'
  <2>1. Restarted
    BY <1>3
  <2>2. Decided(p)' /\ Working(p)'
    BY <1>0 DEF Decided, Working
  <2> QED BY <1>0, <2>1, <2>2, QuietStep, BackedUpStays
<1>4. plan' = [q \in Processes |-> plan'[q]]
  OBVIOUS
<1> QED BY <1>1, <1>2, <1>3, <1>4

\* Where there is a transaction to run, the database as found is not yet brought.
LEMMA ToBeRun ==
    ASSUME Parameters, Startable(found), found \in Databases, First # <<>>
    PROVE  Tx(found) # <<>> /\ (Brings => db # found)
<1>1. Tx(found) # <<>>
  BY DEF Startable, First
<1> QED BY <1>1, NotReadyYet DEF Brings

\* Nothing is copied when nothing is to be run.
LEMMA NothingBacked == ~ BacksUp(<<>>)
  BY DEF BacksUp

\* A change to a database that was brought keeps it so for everyone.
LEMMA BroughtStep ==
    ASSUME Parameters, IInv, Startable(found), Brings, lock = None, Brings',
           found' = found, UNCHANGED <<copies, phase, tables, plan>>,
           \A q \in Processes : phase[q] = "serving" => SchemaMissing(db') = {}
    PROVE  Restarted'
<1> USE DEF IInv
<1>1. Restarted /\ First' = First
  BY DEF First
<1>2. BacksUp(First) => BackedUp
  <2>1. BacksUp(First) => First # <<>>
    BY NothingBacked
  <2> QED BY <1>1, <2>1, ToBeRun DEF Restarted, TypeOK, Databases, IInv
<1>3. ASSUME NEW q \in Processes PROVE Decided(q)' /\ Working(q)'
  <2>1. phase[q] # "work"
    BY DEF TypeOK, Parameters
  <2>2. Decided(q)
    BY <1>1 DEF Restarted
  <2>3. Working(q)'
    BY <2>1 DEF Working
  <2>4. Decided(q)'
    BY <1>1, <2>2, BackedUpStays DEF Decided
  <2> QED BY <2>3, <2>4
<1> QED BY <1>1, <1>2, <1>3, BackedUpStays DEF Restarted

\* A statement of schema.sql is applied to a database that was brought.
LEMMA ApplySchemaStep ==
    ASSUME Parameters, IInv, NEW p \in Processes, ApplySchema(p) PROVE IInv'
<1> USE DEF ApplySchema, IInv
<1>0. phase[p] = "schema" /\ found \in Found
  BY DEF TypeOK
<1>1. ~ Refuses(found)
  BY <1>0 DEF Untouched
<1>2. Startable(found) /\ Restarted /\ Brings
  <2>1. Startable(found)
    BY <1>0, <1>1, FoundIs
  <2> QED BY <1>0, <2>1 DEF Restarted, Decided
<1>3. CASE SchemaMissing(db) = {}
  <2>0. /\ phase'[p] = "serving"
        /\ \A q \in Processes \ {p} : phase'[q] = phase[q]
    BY <1>3 DEF TypeOK
  <2>1. TypeOK'
    <3>1. phase' \in [Processes -> {"out", "decide", "backup", "begin", "work", "schema", "serving", "failed"}]
      BY <1>3 DEF TypeOK
    <3> QED BY <1>0, <1>3, <2>0, <3>1 DEF TypeOK, copies
  <2>2. Decided(p)' /\ Working(p)'
    <3>1. Brings'
      BY <1>2, <1>3 DEF Brings
    <3>2. SchemaMissing(db') = {}
      BY <1>3
    <3> QED BY <2>0, <3>1, <3>2 DEF Decided, Working
  <2>3. Restarted'
    BY <1>2, <1>3, <2>0, <2>2, QuietStep, BackedUpStays
  <2> QED BY <1>1, <2>1, <2>3
<1>4. CASE SchemaMissing(db) # {}
  <2>1. PICK s \in SchemaMissing(db) : db' = SchemaStatement(db, s)
    BY <1>4
  <2>2. db' \in Databases /\ Brings'
    BY <1>2, <2>1, SchemaStatementReady DEF TypeOK, Brings
  <2>3. TypeOK'
    BY <1>4, <2>2 DEF TypeOK, copies
  <2>4. \A q \in Processes : phase[q] # "serving"
    BY <1>2, <1>4 DEF Restarted, Decided
  <2>5. Restarted'
    BY <1>2, <1>4, <2>2, <2>4, BroughtStep
  <2> QED BY <1>1, <1>4, <2>3, <2>5
<1> QED BY <1>3, <1>4

\* A goal is written to a database that was brought, and is not lost.
LEMMA WriteGoalStep ==
    ASSUME Parameters, IInv, NEW p \in Processes, WriteGoal(p) PROVE IInv'
<1> USE DEF WriteGoal, IInv
<1>0. phase[p] = "serving" /\ found \in Found
  BY DEF TypeOK
<1>1. ~ Refuses(found)
  BY <1>0 DEF Untouched
<1>2. Startable(found) /\ Restarted /\ Brings /\ SchemaMissing(db) = {}
  <2>1. Startable(found)
    BY <1>0, <1>1, FoundIs
  <2> QED BY <1>0, <2>1 DEF Restarted, Decided
<1>3. events' \in 0..MaxEvents /\ written \subseteq 0..MaxEvents /\ db \in Databases
  BY DEF TypeOK, Event, Parameters
<1>4. db' \in Databases /\ Ready(found, db', written') /\ SchemaMissing(db') = {}
  BY <1>2, <1>3, GoalWritten DEF Brings
<1>5. TypeOK'
  BY <1>3, <1>4 DEF TypeOK, copies
<1>6. Brings'
  BY <1>4 DEF Brings
<1>7. Restarted'
  BY <1>2, <1>4, <1>6, BroughtStep
<1> QED BY <1>1, <1>5, <1>7

\* How far a transaction is.
LEMMA AtWork ==
    ASSUME Parameters, IInv, Startable(found), NEW p \in Processes, phase[p] = "work"
    PROVE  LET t == Tx(found) IN
           /\ Len(t) \in Nat /\ t # <<>>
           /\ \E j \in 0..Len(t) :
                /\ plan[p] = <<SubSeq(t, j + 1, Len(t))>>
                /\ j = Len(t) => SubSeq(t, j + 1, Len(t)) = <<>> /\ AsFound /\ copy = End(found)
                /\ j < Len(t) =>
                     /\ SubSeq(t, j + 1, Len(t)) # <<>>
                     /\ Head(SubSeq(t, j + 1, Len(t))) = t[j + 1] /\ t[j + 1] \in AllStatements
                     /\ Tail(SubSeq(t, j + 1, Len(t))) = SubSeq(t, j + 2, Len(t))
                     /\ ~ Fails(copy, t[j + 1]) =>
                          \/ AsFound /\ Executed(copy, t[j + 1]) = Ran(found, t)[j + 1]
                          \/ /\ Brings /\ Executed(copy, t[j + 1]) = db
                             /\ j + 1 = 1 /\ t[1] = HistoryTable
<1> DEFINE t == Tx(found)
           n == Len(t)
<1>1. Restarted /\ Working(p)
  BY DEF IInv, Restarted
<1>2. t \in Seq(AllStatements) /\ t # <<>> /\ n \in Nat
  BY <1>1, LenProperties DEF Working, Startable
<1>3. PICK j \in 0..n :
        /\ plan[p] = <<SubSeq(t, j + 1, n)>>
        /\ \/ AsFound /\ copy = Ran(found, t)[j]
           \/ Brings /\ copy = db /\ (j = 0 \/ (j = 1 /\ t[1] = HistoryTable))
  BY <1>1 DEF Working
<1>4. Brings =>
        /\ n >= 2
        /\ \/ Fails(db, t[1])
           \/ t[1] = HistoryTable /\ Executed(db, HistoryTable) = db /\ Fails(db, t[2])
  <2>1. db \in Databases
    BY DEF IInv, TypeOK
  <2> QED BY <1>2, <2>1, RunOnce DEF Brings
<1>5. ~ Fails(db, HistoryTable)
  BY DEF Fails, HistoryTable
<1>6. ASSUME j = n
      PROVE  SubSeq(t, j + 1, n) = <<>> /\ AsFound /\ copy = End(found)
  <2>1. SubSeq(t, j + 1, n) = <<>>
    BY <1>2, <1>6, Remaining
  <2>2. AsFound /\ copy = Ran(found, t)[j]
    BY <1>2, <1>3, <1>4, <1>6
  <2> QED BY <1>6, <2>1, <2>2 DEF End
<1>7. ASSUME j < n
      PROVE  /\ SubSeq(t, j + 1, n) # <<>>
             /\ Head(SubSeq(t, j + 1, n)) = t[j + 1] /\ t[j + 1] \in AllStatements
             /\ Tail(SubSeq(t, j + 1, n)) = SubSeq(t, j + 2, n)
  <2> HIDE DEF t
  <2> QED BY <1>2, <1>7, Remaining
<1>8. ASSUME j < n, ~ Fails(copy, t[j + 1])
      PROVE  \/ AsFound /\ Executed(copy, t[j + 1]) = Ran(found, t)[j + 1]
             \/ /\ Brings /\ Executed(copy, t[j + 1]) = db
                /\ j + 1 = 1 /\ t[1] = HistoryTable
  <2>1. CASE AsFound /\ copy = Ran(found, t)[j]
    <3>1. j + 1 \in 1..n /\ (j + 1) - 1 = j
      BY <1>2, <1>8
    <3>2. Ran(found, t)[j + 1] = Executed(Ran(found, t)[(j + 1) - 1], t[j + 1])
      BY <1>2, <3>1, RanSteps
    <3> QED BY <2>1, <3>1, <3>2
  <2>2. CASE Brings /\ copy = db /\ j = 0
    <3>1. ~ Fails(db, t[1])
      BY <1>8, <2>2
    <3> QED BY <1>4, <2>2, <3>1
  <2>3. CASE Brings /\ copy = db /\ j = 1 /\ t[1] = HistoryTable
    <3>1. ~ Fails(db, t[2])
      BY <1>8, <2>3
    <3> QED BY <1>4, <1>5, <2>3, <3>1
  <2> QED BY <1>3, <2>1, <2>2, <2>3
<1> HIDE DEF t, n
<1>9. \E i \in 0..n :
        /\ plan[p] = <<SubSeq(t, i + 1, n)>>
        /\ i = n => SubSeq(t, i + 1, n) = <<>> /\ AsFound /\ copy = End(found)
        /\ i < n =>
             /\ SubSeq(t, i + 1, n) # <<>>
             /\ Head(SubSeq(t, i + 1, n)) = t[i + 1] /\ t[i + 1] \in AllStatements
             /\ Tail(SubSeq(t, i + 1, n)) = SubSeq(t, i + 2, n)
             /\ ~ Fails(copy, t[i + 1]) =>
                  \/ AsFound /\ Executed(copy, t[i + 1]) = Ran(found, t)[i + 1]
                  \/ /\ Brings /\ Executed(copy, t[i + 1]) = db
                     /\ i + 1 = 1 /\ t[1] = HistoryTable
  BY <1>3, <1>6, <1>7, <1>8
<1> QED BY <1>2, <1>9 DEF t, n

\* A statement that is run, the commit after the last, and the failure of one on a
\* database that was brought meanwhile.
LEMMA WorkStep ==
    ASSUME Parameters, IInv, NEW p \in Processes, Work(p) PROVE IInv'
<1> USE DEF IInv
<1>0. /\ phase[p] = "work" /\ found \in Found /\ lock = p
      /\ UNCHANGED <<found, copies, tables, written, events>>
      /\ plan' = [q \in Processes |-> plan'[q]]
      /\ \A q \in Processes \ {p} : phase[q] # "work"
      /\ \A q \in Processes \ {p} : phase'[q] = phase[q] /\ plan'[q] = plan[q]
      /\ phase' \in [Processes -> {"out", "decide", "backup", "begin", "work", "schema", "serving", "failed"}]
  BY DEF TypeOK, Work
<1>1. ~ Refuses(found)
  BY <1>0 DEF Untouched
<1>2. Startable(found) /\ Restarted
  BY <1>0, <1>1, FoundIs
<1>3. None \notin Processes /\ lock \in Processes
  BY <1>0 DEF Parameters
<1> DEFINE t == Tx(found)
           n == Len(t)
<1>4. PICK j \in 0..n :
        /\ plan[p] = <<SubSeq(t, j + 1, n)>>
        /\ j = n => SubSeq(t, j + 1, n) = <<>> /\ AsFound /\ copy = End(found)
        /\ j < n =>
             /\ SubSeq(t, j + 1, n) # <<>>
             /\ Head(SubSeq(t, j + 1, n)) = t[j + 1] /\ t[j + 1] \in AllStatements
             /\ Tail(SubSeq(t, j + 1, n)) = SubSeq(t, j + 2, n)
             /\ ~ Fails(copy, t[j + 1]) =>
                  \/ AsFound /\ Executed(copy, t[j + 1]) = Ran(found, t)[j + 1]
                  \/ /\ Brings /\ Executed(copy, t[j + 1]) = db
                     /\ j + 1 = 1 /\ t[1] = HistoryTable
  BY <1>0, <1>2, AtWork
<1>5. n \in Nat /\ t # <<>>
  BY <1>0, <1>2, AtWork
<1> HIDE DEF t, n
<1> DEFINE r == SubSeq(t, j + 1, n)
<1>6. Head(plan[p]) = r /\ Tail(plan[p]) = <<>>
  <2>1. plan[p] = <<r>>
    BY <1>4
  <2> HIDE DEF r
  <2>2. Head(<<r>>) = r /\ Tail(<<r>>) = <<>>
    OBVIOUS
  <2> QED BY <2>1, <2>2
<1>7. /\ BacksUp(First) => BackedUp
      /\ \A q \in Processes : Decided(q)
  BY <1>0, <1>2 DEF Restarted, Working
<1>8. First' = First /\ found' = found
  BY <1>0 DEF First
<1>9. CASE r = <<>>
  <2>1. j = n /\ AsFound /\ copy = End(found)
    BY <1>4, <1>5, <1>9
  <2>2. db' = copy /\ lock' = None /\ plan'[p] = <<>> /\ phase'[p] = "begin" /\ copy' = copy
    BY <1>0, <1>6, <1>9 DEF Work, TypeOK
  <2>3. TypeOK'
    BY <1>0, <1>3, <2>2 DEF TypeOK, copies
  <2>4. Brings'
    <3>1. Ready(found, End(found), Rows(found))
      BY <1>2, EndReady
    <3>2. db' = End(found) /\ written' = Rows(found) /\ found' = found
      BY <1>0, <2>1, <2>2 DEF AsFound
    <3> QED BY <3>1, <3>2 DEF Brings
  <2>5. ~ Brings
    <3>1. found \in Databases /\ db = found
      BY <2>1 DEF AsFound, TypeOK
    <3> QED BY <1>2, <1>5, <3>1, NotReadyYet DEF Brings, t
  <2>6. ASSUME NEW q \in Processes PROVE Decided(q)' /\ Working(q)'
    <3>1. CASE q = p
      BY <1>8, <2>2, <2>4, <3>1 DEF Decided, Working
    <3>2. CASE q # p
      <4>1. phase'[q] = phase[q] /\ plan'[q] = plan[q] /\ tables'[q] = tables[q] /\ phase[q] # "work"
        BY <1>0, <3>2
      <4>2. Working(q)'
        BY <4>1 DEF Working
      <4>3. phase[q] \notin {"schema", "serving"}
        BY <1>7, <2>5 DEF Decided
      <4>4. Decided(q)'
        BY <1>0, <1>7, <1>8, <2>4, <4>1, <4>3, BackedUpStays DEF Decided
      <4> QED BY <4>2, <4>4
    <3> QED BY <3>1, <3>2
  <2>7. Restarted'
    BY <1>0, <1>7, <1>8, <2>4, <2>6, BackedUpStays DEF Restarted
  <2> QED BY <1>0, <1>1, <2>3, <2>7
<1>10. ASSUME r # <<>>, Fails(copy, Head(r)) PROVE IInv'
  <2>1. db' = db /\ copy' = copy /\ lock' = None /\ phase'[p] = "failed"
    BY <1>0, <1>6, <1>10 DEF Work, TypeOK
  <2>2. TypeOK'
    BY <1>0, <1>3, <2>1 DEF TypeOK, copies
  <2>3. Decided(p)' /\ Working(p)'
    BY <2>1 DEF Decided, Working
  <2>4. Restarted'
    BY <1>0, <1>2, <2>1, <2>3, QuietStep, BackedUpStays
  <2> QED BY <1>0, <1>1, <2>2, <2>4
<1>11. ASSUME r # <<>>, ~ Fails(copy, Head(r)) PROVE IInv'
  <2>1. j < n
    <3>1. j # n
      BY <1>4, <1>11
    <3> QED BY <1>5, <3>1
  <2> DEFINE s == t[j + 1]
  <2>2. Head(r) = s /\ s \in AllStatements /\ Tail(r) = SubSeq(t, j + 2, n)
    BY <1>4, <2>1
  <2>3. /\ db' = db /\ copy' = Executed(copy, s) /\ lock' = lock /\ phase' = phase
        /\ plan'[p] = <<Tail(r)>> \o <<>>
    <3> HIDE DEF r, s
    <3>1. /\ db' = db /\ copy' = Executed(copy, Head(r)) /\ lock' = lock /\ phase' = phase
          /\ plan' = [plan EXCEPT ![p] = <<Tail(r)>> \o Tail(plan[p])]
      BY <1>6, <1>11, Zenon DEF Work
    <3>2. plan'[p] = <<Tail(r)>> \o Tail(plan[p])
      BY <3>1
    <3> QED BY <1>6, <2>2, <3>1, <3>2
  <2>4. plan'[p] = <<SubSeq(t, (j + 1) + 1, n)>>
    <3>1. \A x : <<x>> \o <<>> = <<x>>
      <4>1. ASSUME NEW x PROVE <<x>> \o <<>> = <<x>>
        <5>1. <<x>> \in Seq({x})
          OBVIOUS
        <5> QED BY <5>1, ConcatEmptySeq
      <4> QED BY <4>1
    <3>2. (j + 1) + 1 = j + 2
      BY <1>5
    <3> QED BY <2>2, <2>3, <3>1, <3>2
  <2>5. copy' \in Databases
    BY <2>2, <2>3, ExecutedTyped DEF TypeOK
  <2>6. TypeOK'
    BY <1>0, <2>3, <2>5 DEF TypeOK, copies
  <2>7. \/ AsFound /\ copy' = Ran(found, t)[j + 1]
        \/ Brings /\ copy' = db /\ j + 1 = 1 /\ t[1] = HistoryTable
    BY <1>4, <1>11, <2>1, <2>2, <2>3
  <2>8. AsFound' = AsFound /\ Brings' = Brings
    BY <1>0, <2>3 DEF AsFound, Brings
  <2>9. Decided(p)'
    BY <1>0, <2>3 DEF Decided
  <2>10. Working(p)'
    <3> HIDE DEF s, r
    <3>1. j + 1 \in 0..n
      BY <1>5, <2>1
    <3>2. \E i \in 0..n :
            /\ plan'[p] = <<SubSeq(t, i + 1, n)>>
            /\ \/ AsFound' /\ copy' = Ran(found, t)[i]
               \/ Brings' /\ copy' = db' /\ (i = 0 \/ (i = 1 /\ t[1] = HistoryTable))
      BY <2>3, <2>4, <2>7, <2>8, <3>1
    <3> QED BY <1>5, <1>7, <1>8, <1>0, <3>2, BackedUpStays DEF Working, t, n
  <2>11. Restarted'
    BY <1>0, <1>2, <2>3, <2>9, <2>10, QuietStep, BackedUpStays
  <2> QED BY <1>0, <1>1, <2>6, <2>11
<1> QED BY <1>9, <1>10, <1>11

\* Every step keeps the invariant.
LEMMA StepInvariant == Parameters /\ IInv /\ [Next]_vars => IInv'
<1> SUFFICES ASSUME Parameters, IInv, [Next]_vars PROVE IInv'
  OBVIOUS
<1>1. CASE UNCHANGED vars
  <2> USE <1>1 DEF vars
  <2>1. TypeOK'
    BY DEF IInv, TypeOK, copies
  <2>2. Untouched => Untouched'
    BY DEF Untouched
  <2>3. Restarted => Restarted'
    <3>1. ASSUME Restarted, NEW p \in Processes PROVE Decided(p)' /\ Working(p)'
      BY <3>1, OtherDecided, OtherWorking, BackedUpStays DEF Restarted
    <3>2. AsFound' = AsFound /\ Brings' = Brings /\ First' = First
      BY DEF AsFound, Brings, First
    <3> QED BY <3>1, <3>2, BackedUpStays DEF Restarted
  <2> QED BY <2>1, <2>2, <2>3 DEF IInv
<1>2. CASE Next
  <2>1. PICK p \in Processes :
          \/ LookAtTables(p) \/ Decide(p) \/ Backup(p) \/ Begin(p) \/ Work(p)
          \/ StatementFails(p) \/ ApplySchema(p) \/ WriteGoal(p) \/ Restart(p)
    BY <1>2 DEF Next
  <2> QED
    BY <2>1, LookAtTablesStep, DecideStep, BackupStep, BeginStep, WorkStep, StatementFailsStep,
       ApplySchemaStep, WriteGoalStep, RestartStep
<1> QED BY <1>1, <1>2

\* Then the next start succeeds.
LEMMA InvariantSucceeds == Parameters /\ IInv => NextStartSucceeds
<1> SUFFICES ASSUME Parameters, IInv PROVE NextStartSucceeds
  OBVIOUS
<1> USE DEF IInv
<1>1. found \in Found /\ db \in Databases
  BY DEF TypeOK
<1>2. CASE Refuses(found)
  <2>1. ~ Starts(found)
    BY <1>2 DEF Refuses, Starts
  <2> QED BY <1>2, <2>1 DEF NextStartSucceeds, Untouched
<1>3. CASE Startable(found)
  <2> DEFINE after == Started(db)
             Fine == /\ after.tables = Whole
                     /\ after.goals.cols = "entry_ids" /\ after.goals.rows = written
                     /\ after.goals_v2 = None
                     /\ Highest(after.history) = Current
  <2>1. Restarted /\ Starts(found)
    BY <1>3 DEF Startable
  <2>2. CASE Brings
    <3>1. Starts(db) /\ after = Completed(db)
      BY <1>3, <2>2, ReadyPlan DEF Brings
    <3>2. Fine
      BY <1>3, <2>2, <3>1, ReadyCompleted DEF Brings
    <3>3. ASSUME NEW p \in Processes, phase[p] = "serving" PROVE db = after
      <4>1. SchemaMissing(db) = {} /\ db.tables \subseteq Whole
        BY <2>1, <2>2, <3>3 DEF Restarted, Decided, Brings, Ready
      <4> QED BY <1>1, <3>1, <4>1, Complete
    <3> HIDE DEF after
    <3> QED BY <2>1, <3>1, <3>2, <3>3 DEF NextStartSucceeds, Restarted, First, after
  <2>3. CASE ~ Brings
    <3>1. AsFound
      BY <2>1, <2>3 DEF Restarted
    <3>2. after = Completed(End(found))
      BY <3>1 DEF AsFound, Started, End, Tx
    <3>3. Ready(found, End(found), written)
      BY <1>3, <3>1, EndReady DEF AsFound
    <3>4. Fine
      BY <1>3, <3>2, <3>3, ReadyCompleted
    <3>5. \A p \in Processes : phase[p] # "serving"
      BY <2>1, <2>3 DEF Restarted, Decided
    <3>6. Starts(db)
      BY <2>1, <3>1 DEF AsFound
    <3> HIDE DEF after
    <3> QED BY <2>1, <3>1, <3>4, <3>5, <3>6 DEF NextStartSucceeds, Restarted, First, after
  <2> QED BY <2>2, <2>3
<1> QED BY <1>1, <1>2, <1>3, FoundIs

\* At every moment the database is as it was found, or brought to the present
\* version with every goal there ever was, and every process has decided for one of
\* the two.
THEOREM Invariant == ASSUME Parameters PROVE Spec => []IInv
<1>1. Init => IInv
  BY InitInvariant
<1>2. IInv /\ [Next]_vars => IInv'
  BY StepInvariant
<1> QED BY <1>1, <1>2, PTL DEF Spec

\* A start that ends or fails at any of its statements, alone or among others, leaves
\* a database that the next start brings to the present schema with every goal there
\* ever was; what a step changed is in a backup, unless the copy of a later start was
\* written over it; what was refused is as it was found.
THEOREM NextStartAlwaysSucceeds == ASSUME Parameters PROVE Spec => []NextStartSucceeds
<1>1. IInv => NextStartSucceeds
  BY InvariantSucceeds
<1> QED BY <1>1, Invariant, PTL
=============================================================================
