-------------------------- MODULE VectorIndexProofs --------------------------
(***************************************************************************)
(* Proofs, for any finite set of owners and any limits, that both ways of  *)
(* a search find the same memories while the index is whole.               *)
(*                                                                         *)
(* There are two halves. One is an invariant: an index row is the vector   *)
(* of its owner's row in the main table, unless the last one was missed or *)
(* is of another model, and there is none without a row. The other is      *)
(* about the n nearest of a set: cutting before the status is looked up    *)
(* and after it leave the same k, when k of the first were left or nothing *)
(* was cut off.                                                            *)
(***************************************************************************)
EXTENDS VectorIndex, FiniteSetTheorems, WellFoundedInduction, TLAPS

\* A row that is there is of a model, and of a text.
RowsSound == \A o \in Owners : rows[o] = NoRow \/ (rows[o].model # None /\ rows[o].text # 0)

\* What the index holds of each owner.
IndexSound ==
    /\ index = [model |-> index.model, rows |-> index.rows]
    /\ \A o \in Owners :
          /\ rows[o] = NoRow => index.rows[o] = 0
          /\ rows[o].model = index.model /\ o \notin missed => index.rows[o] = rows[o].text

\* Only a process that has a model runs the worker, on owners that are there.
WorkerSound ==
    /\ model \in Models \cup {None}
    /\ phase = "down" => worker = "idle"
    /\ worker # "idle" => model # None
    /\ worker = "ask" => \A o \in DOMAIN batch : batch[o] # 0

IInv == RowsSound /\ IndexSound /\ WorkerSound

-----------------------------------------------------------------------------
\* A set of naturals that is not empty has a least member.
LEMMA LeastExists ==
    ASSUME NEW S \in SUBSET Nat, S # {} PROVE \E k \in S : \A j \in S : k <= j
<1>1. PICK k \in S : \A j \in S : <<j, k>> \notin OpToRel(<, Nat)
  BY NatLessThanWellFounded, WFMin, Zenon
<1>2. ASSUME NEW j \in S, j < k PROVE <<j, k>> \in OpToRel(<, Nat)
  BY <1>2 DEF OpToRel
<1>3. ASSUME NEW j \in S PROVE ~ (j < k)
  BY <1>1, <1>2, Zenon
<1> QED BY <1>3

\* Max of a set of naturals that is bounded is one of them, and none is greater.
LEMMA GreatestOfNaturals ==
    ASSUME NEW n \in Nat, NEW S \in SUBSET (0..n), S # {}
    PROVE  Max(S) \in S /\ \A s \in S : s <= Max(S)
<1> DEFINE D == {n - s : s \in S}
<1>1. PICK d \in D : \A e \in D : d <= e
  <2>1. ASSUME NEW s \in S PROVE s \in 0..n /\ n - s \in Nat
    OBVIOUS
  <2>2. D \in SUBSET Nat /\ D # {}
    BY <2>1
  <2> HIDE DEF D
  <2> QED BY <2>2, LeastExists
<1>2. PICK k \in S : d = n - k
  OBVIOUS
<1>3. ASSUME NEW s \in S PROVE s <= k
  <2>1. d <= n - s
    BY <1>1
  <2> QED BY <2>1, <1>2
<1> QED BY <1>3 DEF Max

\* Whoever is nearer than one of the n nearest is one of them.
LEMMA ClosestDown ==
    ASSUME NEW S \in SUBSET Nat, IsFiniteSet(S), NEW n \in Nat,
           NEW o \in Closest(S, n), NEW p \in S, p < o
    PROVE  p \in Closest(S, n)
<1> DEFINE below(x) == {q \in S : q < x}
<1>0. o \in Nat /\ p \in Nat
  BY DEF Closest
<1>1. below(p) \in SUBSET below(o)
  <2> SUFFICES ASSUME NEW q \in S, q < p PROVE q < o
    OBVIOUS
  <2>1. q \in Nat
    OBVIOUS
  <2> QED BY <1>0, <2>1
<1>2. below(o) \in SUBSET S
  OBVIOUS
<1>3. IsFiniteSet(below(o))
  BY <1>2, FS_Subset
<1>4. Cardinality(below(p)) <= Cardinality(below(o)) /\ IsFiniteSet(below(p))
  BY <1>1, <1>3, FS_Subset
<1>5. Cardinality(below(p)) \in Nat /\ Cardinality(below(o)) \in Nat
  BY <1>3, <1>4, FS_CardinalityType
<1>6. Cardinality(below(o)) < n
  BY DEF Closest
<1>7. Cardinality(below(p)) < n
  BY <1>4, <1>5, <1>6
<1> QED BY <1>7 DEF Closest

\* The n nearest are all, or n.
LEMMA ClosestCount ==
    ASSUME NEW S \in SUBSET Nat, IsFiniteSet(S), NEW n \in Nat
    PROVE  Closest(S, n) = S \/ Cardinality(Closest(S, n)) = n
<1> DEFINE C == Closest(S, n)
           below(x) == {q \in S : q < x}
<1>1. C \in SUBSET S
  BY DEF Closest
<1>2. IsFiniteSet(C) /\ Cardinality(C) \in Nat
  BY <1>1, FS_Subset, FS_CardinalityType
<1> SUFFICES ASSUME C # S PROVE Cardinality(C) = n
  OBVIOUS
<1>3. PICK o \in S \ C : \A p \in S \ C : o <= p
  <2>1. S \ C \in SUBSET Nat /\ S \ C # {}
    BY <1>1
  <2> QED BY <2>1, LeastExists
<1>4. \A p \in C : p < o
  <2> SUFFICES ASSUME NEW p \in C, ~(p < o) PROVE FALSE
    OBVIOUS
  <2>1. p \in Nat /\ o \in Nat /\ p # o
    BY <1>1
  <2>2. o < p
    BY <2>1
  <2> QED BY <2>2, ClosestDown
<1>5. below(o) = C
  <2>1. ASSUME NEW p \in S, p < o PROVE p \in C
    BY <1>3, <2>1
  <2> QED BY <1>1, <1>4, <2>1
<1>6. ~(Cardinality(C) < n)
  BY <1>3, <1>5 DEF Closest
<1>7. Cardinality(C) <= n
  <2>1. CASE C = {}
    BY <2>1, FS_EmptySet
  <2>2. CASE C # {}
    <3>1. PICK m \in C : \A p \in C : p <= m
      <4>1. o \in Nat
        OBVIOUS
      <4> HIDE DEF C
      <4>2. C \in SUBSET (0..o)
        <5> SUFFICES ASSUME NEW p \in C PROVE p \in 0..o
          OBVIOUS
        <5> QED BY <1>1, <1>4, <4>1
      <4> QED BY <2>2, <4>1, <4>2, GreatestOfNaturals
    <3>2. C = below(m) \cup {m} /\ m \notin below(m)
      <4>1. ASSUME NEW p \in C, p # m PROVE p < m
        <5>1. p \in Nat /\ m \in Nat /\ p <= m
          BY <1>1, <3>1
        <5> QED BY <4>1, <5>1
      <4>2. ASSUME NEW p \in below(m) PROVE p \in C
        BY ClosestDown
      <4>3. m \in Nat /\ ~(m < m)
        <5> HIDE DEF C
        <5>1. m \in S
          BY <1>1, <3>1
        <5>2. m \in Nat
          BY <5>1
        <5> QED BY <5>2
      <4>4. \A p \in C : p \in S /\ p \in Nat
        BY <1>1
      <4> HIDE DEF C
      <4>5. m \notin below(m)
        BY <4>3
      <4>6. \A p \in C : p = m \/ p \in below(m)
        BY <4>1, <4>4
      <4>7. \A p \in below(m) : p \in C
        BY <4>2
      <4> HIDE DEF below
      <4> QED BY <3>1, <4>5, <4>6, <4>7
    <3>3. below(m) \in SUBSET S
      OBVIOUS
    <3>4. IsFiniteSet(below(m)) /\ Cardinality(below(m)) \in Nat
      BY <3>3, FS_Subset, FS_CardinalityType
    <3>5. Cardinality(C) = Cardinality(below(m)) + 1
      <4> HIDE DEF C, below
      <4> QED BY <3>2, <3>4, FS_AddElement
    <3>6. Cardinality(below(m)) < n
      BY DEF Closest
    <3> QED BY <3>4, <3>5, <3>6
  <2> QED BY <2>1, <2>2
<1> QED BY <1>2, <1>6, <1>7

\* Nothing is cut off a set of at most n.
LEMMA ClosestAll ==
    ASSUME NEW S \in SUBSET Nat, IsFiniteSet(S), NEW n \in Nat, Cardinality(S) <= n
    PROVE  Closest(S, n) = S
<1> DEFINE C == Closest(S, n)
<1>1. C \in SUBSET S
  BY DEF Closest
<1>2. /\ Cardinality(C) <= Cardinality(S) /\ (Cardinality(S) = Cardinality(C) => S = C)
      /\ Cardinality(C) \in Nat /\ Cardinality(S) \in Nat
  BY <1>1, FS_Subset, FS_CardinalityType
<1>3. C = S \/ Cardinality(C) = n
  BY ClosestCount
<1> QED BY <1>2, <1>3

\* The k nearest of those in A are found among the n nearest, when these were all
\* or k of them are in A.
LEMMA ClosestFiltered ==
    ASSUME NEW S \in SUBSET Nat, IsFiniteSet(S), NEW n \in Nat, NEW k \in Nat, NEW A,
           Closest(S, n) = S \/ ~(Cardinality(Closest(S, n) \cap A) < k)
    PROVE  Closest(Closest(S, n) \cap A, k) = Closest(S \cap A, k)
<1> DEFINE C == Closest(S, n)
<1>1. C \in SUBSET S
  BY DEF Closest
<1>2. CASE C = S
  BY <1>2
<1>3. CASE ~(Cardinality(C \cap A) < k)
  <2>1. ASSUME NEW o \in C \cap A
        PROVE  {p \in C \cap A : p < o} = {p \in S \cap A : p < o}
    BY <1>1, ClosestDown
  <2>2. ASSUME NEW o \in S \cap A, o \notin C
        PROVE  o \notin Closest(S \cap A, k)
    <3> DEFINE below == {p \in S \cap A : p < o}
    <3>1. \A p \in C : p < o
      <4> SUFFICES ASSUME NEW p \in C, ~(p < o) PROVE FALSE
        OBVIOUS
      <4>1. p \in Nat /\ o \in Nat /\ p # o
        BY <1>1, <2>2
      <4>2. o < p
        BY <4>1
      <4> QED BY <2>2, <4>2, ClosestDown
    <3>2. C \cap A \in SUBSET below /\ below \in SUBSET S
      BY <1>1, <3>1
    <3>3. IsFiniteSet(below) /\ IsFiniteSet(C \cap A)
      BY <3>2, FS_Subset
    <3>4. /\ Cardinality(C \cap A) <= Cardinality(below)
          /\ Cardinality(C \cap A) \in Nat /\ Cardinality(below) \in Nat
      BY <3>2, <3>3, FS_Subset, FS_CardinalityType
    <3>5. ~(Cardinality(below) < k)
      BY <1>3, <3>4
    <3> QED BY <3>5 DEF Closest
  <2>3. ASSUME NEW o \in C \cap A
        PROVE  o \in Closest(C \cap A, k) <=> o \in Closest(S \cap A, k)
    <3>1. o \in S \cap A
      BY <1>1
    <3> HIDE DEF C
    <3> QED BY <2>1, <3>1 DEF Closest
  <2>4. Closest(C \cap A, k) \subseteq C \cap A /\ Closest(S \cap A, k) \subseteq S \cap A
    BY DEF Closest
  <2>5. Closest(C \cap A, k) = Closest(S \cap A, k)
    <3> HIDE DEF C
    <3> QED BY <1>1, <2>2, <2>3, <2>4
  <2> QED BY <2>5
<1> QED BY <1>2, <1>3

\* Both searches find the same in the same vectors.
LEMMA SearchesAgree ==
    ASSUME Parameters, InIndex = InMain, Cardinality(InMain) <= Escalated
    PROVE  SearchIndex = SearchMain
<1> DEFINE S == InMain
           C == Closest(S, OverFetch)
           first == C \cap active
           short == Cardinality(first) < Wanted /\ Cardinality(C) = OverFetch
<1>1. /\ S \in SUBSET Nat /\ IsFiniteSet(S) /\ Cardinality(S) \in Nat
      /\ Wanted \in Nat /\ OverFetch \in Nat /\ Escalated \in Nat
  <2>1. S \in SUBSET Owners
    BY DEF InMain
  <2> QED BY <2>1, FS_Subset, FS_CardinalityType DEF Parameters
<1>2. SearchIndex = Closest(IF short /\ Escalated > OverFetch
                            THEN Closest(S, Escalated) \cap active ELSE first, Wanted)
  BY DEF SearchIndex, Nearest
<1>3. Closest(S, Escalated) = S
  BY <1>1, ClosestAll
<1>4. SearchMain = Closest(S \cap active, Wanted)
  BY DEF SearchMain
<1>5. C = S \/ Cardinality(C) = OverFetch
  BY <1>1, ClosestCount
<1>6. ~(Escalated > OverFetch) => C = S
  <2> SUFFICES ASSUME ~(Escalated > OverFetch) PROVE C = S
    OBVIOUS
  <2>1. Cardinality(S) <= OverFetch
    BY <1>1
  <2> QED BY <1>1, <2>1, ClosestAll
<1>7. CASE short /\ Escalated > OverFetch
  BY <1>2, <1>3, <1>4, <1>7
<1>8. CASE ~(short /\ Escalated > OverFetch)
  <2>1. C = S \/ ~(Cardinality(first) < Wanted)
    BY <1>5, <1>6, <1>8
  <2>2. Closest(first, Wanted) = Closest(S \cap active, Wanted)
    <3> HIDE DEF S
    <3> QED BY <1>1, <2>1, ClosestFiltered
  <2> QED BY <1>2, <1>4, <1>8, <2>2
<1> QED BY <1>7, <1>8

-----------------------------------------------------------------------------
\* A row that was written is a row.
LEMMA BatchIsRow == \A m, t : m # None => [model |-> m, text |-> t] # NoRow
<1> SUFFICES ASSUME NEW m, NEW t, [model |-> m, text |-> t] = NoRow PROVE m = None
  OBVIOUS
<1>1. [model |-> m, text |-> t].model = NoRow.model
  OBVIOUS
<1> QED BY <1>1 DEF NoRow

\* What the worker writes: rows of a text of its model, in the batch only.
LEMMA WriteSound ==
    ASSUME Parameters, IInv, worker = "ask", rows' = Upserted
    PROVE  /\ RowsSound' /\ model # None
           /\ \A o \in DOMAIN batch \cap Owners : rows'[o] = [model |-> model, text |-> batch[o]]
           /\ \A o \in Owners \ DOMAIN batch : rows'[o] = rows[o]
<1>1. model # None /\ \A o \in DOMAIN batch : batch[o] # 0
  BY DEF IInv, WorkerSound
<1>2. /\ \A o \in DOMAIN batch \cap Owners : rows'[o] = [model |-> model, text |-> batch[o]]
      /\ \A o \in Owners \ DOMAIN batch : rows'[o] = rows[o]
  BY DEF Upserted
<1>3. RowsSound'
  <2> SUFFICES ASSUME NEW o \in Owners
               PROVE  rows'[o] = NoRow \/ (rows'[o].model # None /\ rows'[o].text # 0)
    BY DEF RowsSound
  <2>1. CASE o \in DOMAIN batch
    <3>1. rows'[o] = [model |-> model, text |-> batch[o]] /\ batch[o] # 0
      BY <1>1, <1>2, <2>1
    <3>2. rows'[o].model = model /\ rows'[o].text = batch[o]
      BY <3>1
    <3> QED BY <1>1, <3>1, <3>2
  <2>2. CASE o \notin DOMAIN batch
    BY <1>2, <2>2 DEF IInv, RowsSound
  <2> QED BY <2>1, <2>2
<1> QED BY <1>1, <1>2, <1>3

\* The batch that the index has missed, or that is of another model than it.
LEMMA MissedKeeps ==
    ASSUME Parameters, IInv, worker = "ask", rows' = Upserted, UNCHANGED index,
           missed' = missed \cup DOMAIN batch
    PROVE  RowsSound' /\ IndexSound'
<1>1. /\ RowsSound' /\ model # None
      /\ \A o \in DOMAIN batch \cap Owners : rows'[o] = [model |-> model, text |-> batch[o]]
      /\ \A o \in Owners \ DOMAIN batch : rows'[o] = rows[o]
  BY WriteSound
<1>2. IndexSound'
  <2> SUFFICES ASSUME NEW o \in Owners
               PROVE  /\ rows'[o] = NoRow => index.rows[o] = 0
                      /\ rows'[o].model = index.model /\ o \notin missed'
                         => index.rows[o] = rows'[o].text
    BY DEF IInv, IndexSound
  <2>1. CASE o \in DOMAIN batch
    BY <1>1, <2>1, BatchIsRow
  <2>2. CASE o \notin DOMAIN batch
    BY <1>1, <2>2 DEF IInv, IndexSound
  <2> QED BY <2>1, <2>2
<1> QED BY <1>1, <1>2

LEMMA WorkerWritesKeeps == ASSUME Parameters, IInv, WorkerWrites PROVE IInv'
<1>1. /\ worker = "ask" /\ rows' = Upserted /\ worker' = "look"
      /\ UNCHANGED <<model, phase>>
  BY DEF WorkerWrites
<1>2. WorkerSound'
  BY <1>1 DEF IInv, WorkerSound
<1>3. CASE UNCHANGED index /\ missed' = missed \cup DOMAIN batch
  BY <1>1, <1>2, <1>3, MissedKeeps DEF IInv
<1>4. CASE /\ index' = IndexUpserted
           /\ missed' = IF index.model = model THEN missed \ DOMAIN batch ELSE missed
  <2>1. /\ RowsSound' /\ model # None
        /\ \A o \in DOMAIN batch \cap Owners : rows'[o] = [model |-> model, text |-> batch[o]]
        /\ \A o \in Owners \ DOMAIN batch : rows'[o] = rows[o]
    BY <1>1, WriteSound
  <2>2. CASE index.model = model
    <3>1. /\ index' = [model |-> model,
                       rows |-> [o \in Owners |-> IF o \in DOMAIN batch THEN batch[o]
                                                  ELSE index.rows[o]]]
          /\ missed' = missed \ DOMAIN batch
      BY <1>4, <2>2 DEF IndexUpserted, IInv, IndexSound
    <3>2. IndexSound'
      <4> SUFFICES ASSUME NEW o \in Owners
                   PROVE  /\ rows'[o] = NoRow => index'.rows[o] = 0
                          /\ rows'[o].model = index'.model /\ o \notin missed'
                             => index'.rows[o] = rows'[o].text
        BY <3>1 DEF IndexSound
      <4>1. CASE o \in DOMAIN batch
        <5>1. rows'[o] = [model |-> model, text |-> batch[o]]
          BY <2>1, <4>1
        <5>2. rows'[o].text = batch[o] /\ rows'[o] # NoRow
          BY <2>1, <5>1, BatchIsRow
        <5>3. index'.rows[o] = batch[o]
          BY <3>1, <4>1
        <5> QED BY <5>2, <5>3
      <4>2. CASE o \notin DOMAIN batch
        <5>1. /\ index'.rows[o] = index.rows[o] /\ rows'[o] = rows[o]
              /\ index'.model = index.model /\ (o \in missed' <=> o \in missed)
          BY <2>1, <2>2, <3>1, <4>2
        <5> QED BY <5>1 DEF IInv, IndexSound
      <4> QED BY <4>1, <4>2
    <3> QED BY <1>2, <2>1, <3>2 DEF IInv
  <2>3. CASE index.model # model
    <3>1. UNCHANGED <<index, missed>>
      BY <1>4, <2>3 DEF IndexUpserted
    <3>2. IndexSound'
      <4> SUFFICES ASSUME NEW o \in Owners
                   PROVE  /\ rows'[o] = NoRow => index.rows[o] = 0
                          /\ rows'[o].model = index.model /\ o \notin missed
                             => index.rows[o] = rows'[o].text
        BY <3>1 DEF IInv, IndexSound
      <4>1. CASE o \in DOMAIN batch
        <5>1. rows'[o] = [model |-> model, text |-> batch[o]]
          BY <2>1, <4>1
        <5>2. rows'[o].model = model /\ rows'[o] # NoRow
          BY <2>1, <5>1, BatchIsRow
        <5> QED BY <2>3, <5>2
      <4>2. CASE o \notin DOMAIN batch
        BY <2>1, <4>2 DEF IInv, IndexSound
      <4> QED BY <4>1, <4>2
    <3> QED BY <1>2, <2>1, <3>2 DEF IInv
  <2> QED BY <2>2, <2>3
<1> QED BY <1>3, <1>4 DEF WorkerWrites

\* A start keeps an index of its model, or makes one of the rows of that model.
LEMMA StartKeeps ==
    ASSUME Parameters, IInv, NEW m \in Models \cup {None}, Start(m)
    PROVE  IInv'
<1>1. /\ phase = "down" /\ phase' = "up" /\ model' = m /\ UNCHANGED <<rows, batch>>
      /\ (worker' = "look" /\ m # None) \/ UNCHANGED worker
  BY DEF Start
<1>2. WorkerSound' /\ RowsSound'
  BY <1>1 DEF IInv, WorkerSound, RowsSound
<1>3. CASE UNCHANGED <<index, missed>>
  BY <1>1, <1>2, <1>3 DEF IInv, IndexSound
<1>4. CASE index' = Rebuilt(m) /\ missed' = {} /\ m # None
  <2>1. /\ index'.model = m /\ index' = [model |-> index'.model, rows |-> index'.rows]
        /\ \A o \in Owners : index'.rows[o] = IF rows[o].model = m THEN rows[o].text ELSE 0
    BY <1>4 DEF Rebuilt
  <2>2. IndexSound'
    BY <1>1, <1>4, <2>1 DEF IndexSound, NoRow
  <2> QED BY <1>2, <2>2 DEF IInv
<1> QED BY <1>3, <1>4 DEF Start

LEMMA NextKeeps == ASSUME Parameters, IInv, [Next]_vars PROVE IInv'
<1>1. CASE WorkerLooks
  <2>1. \A o \in Pending(model) : text[o] # 0
    BY DEF Pending, Known
  <2>2. worker' = "ask" => \A o \in DOMAIN batch' : batch'[o] # 0
    BY <1>1, <2>1 DEF WorkerLooks, Closest
  <2>3. /\ worker = "look" /\ UNCHANGED <<rows, index, model, phase, missed>>
        /\ worker' \in {"idle", "ask"}
    BY <1>1 DEF WorkerLooks
  <2> QED BY <2>2, <2>3 DEF IInv, RowsSound, IndexSound, WorkerSound
<1>2. CASE WorkerWrites
  BY <1>2, WorkerWritesKeeps
<1>3. CASE CrashBetween
  <2>1. RowsSound' /\ IndexSound'
    BY <1>3, MissedKeeps DEF CrashBetween
  <2> QED BY <1>3, <2>1 DEF CrashBetween, IInv, WorkerSound
<1>4. CASE WorkerFails \/ WorkerRetries \/ Stop \/ Stopped \/ Crash
  <2>1. UNCHANGED <<rows, index, missed>>
    BY <1>4 DEF WorkerFails, WorkerRetries, Stop, Stopped, Crash
  <2>2. WorkerSound'
    BY <1>4 DEF WorkerFails, WorkerRetries, Stop, Stopped, Crash, AfterFailure,
                IInv, WorkerSound
  <2> QED BY <2>1, <2>2 DEF IInv, RowsSound, IndexSound
<1>5. ASSUME NEW probed \in Models \cup {None}, NEW configured \in Models \cup {None},
             Start(Resolved(probed, configured)) \/ CrashBuilding(Resolved(probed, configured))
      PROVE  IInv'
  <2>1. Resolved(probed, configured) \in Models \cup {None}
    BY DEF Resolved
  <2>2. ASSUME NEW m, CrashBuilding(m)
        PROVE  IInv'
    <3>1. index' = NoIndex /\ UNCHANGED <<rows, model, phase, worker, batch, missed>>
      BY <2>2 DEF CrashBuilding
    <3>2. /\ index'.model = None /\ index' = [model |-> index'.model, rows |-> index'.rows]
          /\ \A o \in Owners : index'.rows[o] = 0
      BY <3>1 DEF NoIndex
    <3>3. IndexSound'
      BY <3>1, <3>2 DEF IInv, RowsSound, IndexSound, NoRow
    <3> QED BY <3>1, <3>3 DEF IInv, RowsSound, WorkerSound
  <2> QED BY <1>5, <2>1, <2>2, StartKeeps
<1>6. ASSUME NEW o \in Owners, Write(o)
      PROVE  IInv'
  <2>1. /\ phase = "up" /\ UNCHANGED <<rows, index, model, phase, batch, missed>>
        /\ \/ worker' = worker
           \/ worker' = "look" /\ model # None
    BY <1>6 DEF Write, Scheduled
  <2> QED BY <2>1 DEF IInv, RowsSound, IndexSound, WorkerSound
<1>7. ASSUME NEW o \in Owners, Retract(o)
      PROVE  IInv'
  BY <1>7 DEF Retract, IInv, RowsSound, IndexSound, WorkerSound
<1>8. CASE UNCHANGED vars
  BY <1>8 DEF vars, IInv, RowsSound, IndexSound, WorkerSound
<1> QED BY <1>1, <1>2, <1>3, <1>4, <1>5, <1>6, <1>7, <1>8 DEF Next

LEMMA InitKeeps == ASSUME Parameters, Init PROVE IInv
  BY DEF Parameters, Init, IInv, RowsSound, IndexSound, WorkerSound, NoRow, NoIndex

\* While the index is whole it has what the main table has.
LEMMA WholeAgrees ==
    ASSUME Parameters, IInv, IndexWhole, Cardinality(InMain) <= Escalated
    PROVE  (\A o \in Owners : index.rows[o] = rows[o].text) /\ SearchIndex = SearchMain
<1>1. \A o \in Owners : index.rows[o] = rows[o].text
  BY DEF IndexWhole, IInv, IndexSound, RowsSound, NoRow
<1>2. InIndex = InMain
  BY <1>1 DEF InIndex, InMain, IInv, RowsSound, NoRow
<1> QED BY <1>1, <1>2, SearchesAgree

\* The index follows the rows of the main table, through crashes between the two
\* files, builds cut short and changes of model.
THEOREM IndexFollowsRows == ASSUME Parameters PROVE Spec => []IInv
<1>1. Init => IInv
  BY InitKeeps
<1>2. IInv /\ [Next]_vars => IInv'
  BY NextKeeps
<1> QED
  BY <1>1, <1>2, PTL DEF Spec

\* While the index is whole and the widened search covers it, a query, the
\* comparisons of an extraction and the order of a review are the same from
\* _search_sidecar and from _search_python.
THEOREM SearchesFindTheSame == ASSUME Parameters PROVE Spec => []SearchPathsAgree
<1>1. IInv => SearchPathsAgree
  BY WholeAgrees DEF SearchPathsAgree
<1> QED
  BY <1>1, IndexFollowsRows, PTL

-----------------------------------------------------------------------------
(* Types. *)

\* TypeOK in parts, each about few variables.
TextsTyped ==
    /\ text \in [Owners -> 0..MaxWrites] /\ active \subseteq Known /\ missed \subseteq Owners
    /\ events \in 0..MaxEvents
RowsTyped == \A o \in Owners : rows[o] \in {NoRow} \cup [model : Models, text : 1..MaxWrites]
IndexTyped == index.model \in Models \cup {None} /\ index.rows \in [Owners -> 0..MaxWrites]
ProcessTyped ==
    /\ model \in Models \cup {None}
    /\ phase \in {"down", "up", "stopping"} /\ (phase = "down" => model = None)
    /\ worker \in {"idle", "look", "ask", "backoff"} /\ (worker # "idle" => model # None)
BatchTyped ==
    /\ (batch # <<>>) = (worker = "ask")
    /\ \A o \in DOMAIN batch : o \in Known /\ batch[o] \in 1..text[o]

LEMMA TypeParts ==
    TypeOK <=> TextsTyped /\ RowsTyped /\ IndexTyped /\ ProcessTyped /\ BatchTyped
  BY DEF TypeOK, TextsTyped, RowsTyped, IndexTyped, ProcessTyped, BatchTyped

\* A text that may be written has not as many versions as there may be.
LEMMA RoomForOneMore ==
    ASSUME Parameters, TextsTyped, NEW o \in Owners, Written < MaxWrites
    PROVE  text[o] < MaxWrites
<1> DEFINE W == {w \in Owners \X (1..MaxWrites) : w[2] <= text[w[1]]}
           V == {o} \X (1..MaxWrites)
<1>1. MaxWrites \in Nat /\ IsFiniteSet(Owners) /\ text[o] \in 0..MaxWrites
  BY DEF Parameters, TextsTyped
<1> SUFFICES ASSUME text[o] = MaxWrites PROVE FALSE
  BY <1>1
<1>2. IsFiniteSet(1..MaxWrites) /\ Cardinality(1..MaxWrites) = MaxWrites
  <2>1. /\ IsFiniteSet(1..MaxWrites)
        /\ Cardinality(1..MaxWrites) = IF 1 > MaxWrites THEN 0 ELSE MaxWrites - 1 + 1
    BY <1>1, FS_Interval, 1 \in Int, MaxWrites \in Int
  <2> QED BY <1>1, <2>1
<1>3. IsFiniteSet(Owners \X (1..MaxWrites))
  BY <1>1, <1>2, FS_Product
<1>4. IsFiniteSet({o}) /\ Cardinality({o}) = 1
  BY FS_Singleton
<1>5. Cardinality(V) = MaxWrites
  <2>1. Cardinality(V) = Cardinality({o}) * Cardinality(1..MaxWrites)
    BY <1>2, <1>4, FS_Product
  <2> QED BY <1>1, <1>2, <1>4, <2>1
<1>6. W \in SUBSET (Owners \X (1..MaxWrites))
  OBVIOUS
<1>7. V \in SUBSET W
  BY <1>1
<1>8. IsFiniteSet(W) /\ Cardinality(W) \in Nat
  BY <1>3, <1>6, FS_Subset, FS_CardinalityType
<1>9. Cardinality(V) <= Cardinality(W)
  BY <1>7, <1>8, FS_Subset
<1>10. Cardinality(W) < MaxWrites
  BY DEF Written
<1> QED BY <1>1, <1>5, <1>8, <1>9, <1>10

\* The worker asks for something when something is pending.
LEMMA SomethingAsked ==
    ASSUME Parameters, NEW m, Pending(m) # {}
    PROVE  /\ Closest(Pending(m), BatchSize) # {}
           /\ Closest(Pending(m), BatchSize) \subseteq Pending(m)
<1> DEFINE S == Pending(m)
<1>1. S \in SUBSET Owners /\ BatchSize \in Nat /\ BatchSize # 0
  BY DEF Pending, Known, Parameters
<1>2. S \in SUBSET Nat /\ IsFiniteSet(S)
  BY <1>1, FS_Subset DEF Parameters
<1> HIDE DEF S
<1>3. Closest(S, BatchSize) = S \/ Cardinality(Closest(S, BatchSize)) = BatchSize
  BY <1>1, <1>2, ClosestCount
<1>4. Closest(S, BatchSize) # {}
  <2>1. Cardinality({}) = 0
    BY FS_EmptySet
  <2>2. S # {}
    BY DEF S
  <2> QED BY <1>1, <1>3, <2>1, <2>2
<1>5. Closest(S, BatchSize) \subseteq S
  BY DEF Closest
<1> QED BY <1>4, <1>5 DEF S

LEMMA LooksTyped == ASSUME Parameters, TypeOK, WorkerLooks PROVE TypeOK'
<1>1. TextsTyped /\ RowsTyped /\ IndexTyped /\ ProcessTyped /\ BatchTyped
  BY TypeParts
<1>2. /\ worker = "look"
      /\ UNCHANGED <<text, active, rows, index, model, phase, missed, events>>
  BY DEF WorkerLooks
<1>3. TextsTyped' /\ RowsTyped' /\ IndexTyped'
  BY <1>1, <1>2 DEF TextsTyped, RowsTyped, IndexTyped, Known
<1>4. ProcessTyped'
  BY <1>1, <1>2 DEF ProcessTyped, WorkerLooks
<1>5. BatchTyped'
  <2>1. CASE worker' = "idle" /\ UNCHANGED batch
    BY <1>1, <1>2, <2>1 DEF BatchTyped, Known
  <2>2. CASE /\ Pending(model) # {} /\ worker' = "ask"
             /\ batch' = [o \in Closest(Pending(model), BatchSize) |-> text[o]]
    <3>1. PICK o \in Closest(Pending(model), BatchSize) : TRUE
      BY <2>2, SomethingAsked
    <3>2. batch' # <<>>
      <4>1. o \in DOMAIN batch'
        BY <2>2, <3>1
      <4>2. o \notin DOMAIN <<>>
        OBVIOUS
      <4> QED BY <4>1, <4>2
    <3>3. ASSUME NEW q \in DOMAIN batch'
          PROVE  q \in Known' /\ batch'[q] \in 1..text'[q]
      <4>1. q \in Known /\ batch'[q] = text[q]
        BY <2>2, <3>3, SomethingAsked DEF Pending
      <4>2. text[q] \in Nat /\ text[q] # 0
        BY <1>1, <4>1 DEF Known, TextsTyped
      <4> QED BY <1>2, <4>1, <4>2 DEF Known
    <3> QED BY <2>2, <3>2, <3>3 DEF BatchTyped
  <2> QED BY <2>1, <2>2 DEF WorkerLooks
<1> QED BY <1>3, <1>4, <1>5 DEF TypeOK, TextsTyped, RowsTyped, IndexTyped, ProcessTyped, BatchTyped

\* The rows of a batch are of a model and of texts that there were.
LEMMA UpsertTyped ==
    ASSUME Parameters, TypeOK, worker = "ask", rows' = Upserted
    PROVE  /\ RowsTyped' /\ DOMAIN batch \subseteq Owners /\ model \in Models
           /\ \A o \in DOMAIN batch : batch[o] \in 1..MaxWrites
<1>1. TextsTyped /\ RowsTyped /\ ProcessTyped /\ BatchTyped
  BY TypeParts
<1>2. model \in Models
  BY <1>1 DEF ProcessTyped
<1>3. ASSUME NEW o \in DOMAIN batch PROVE o \in Owners /\ batch[o] \in 1..MaxWrites
  <2>1. o \in Known /\ batch[o] \in 1..text[o]
    BY <1>1 DEF BatchTyped
  <2>2. o \in Owners /\ text[o] \in 0..MaxWrites
    BY <1>1, <2>1 DEF Known, TextsTyped
  <2>3. MaxWrites \in Nat
    BY DEF Parameters
  <2> QED BY <2>1, <2>2, <2>3
<1>4. RowsTyped'
  <2> SUFFICES ASSUME NEW o \in Owners
               PROVE  rows'[o] \in {NoRow} \cup [model : Models, text : 1..MaxWrites]
    BY DEF RowsTyped
  <2>1. rows'[o] = IF o \in DOMAIN batch THEN [model |-> model, text |-> batch[o]] ELSE rows[o]
    BY DEF Upserted
  <2> QED BY <1>1, <1>2, <1>3, <2>1 DEF RowsTyped
<1> QED BY <1>2, <1>3, <1>4

LEMMA WritesTyped == ASSUME Parameters, TypeOK, IInv, WorkerWrites PROVE TypeOK'
<1>1. TextsTyped /\ RowsTyped /\ IndexTyped /\ ProcessTyped /\ BatchTyped
  BY TypeParts
<1>2. /\ worker = "ask" /\ rows' = Upserted /\ worker' = "look" /\ batch' = <<>>
      /\ UNCHANGED <<text, active, model, phase>>
  BY DEF WorkerWrites
<1>3. /\ RowsTyped' /\ DOMAIN batch \subseteq Owners /\ model \in Models
      /\ \A o \in DOMAIN batch : batch[o] \in 1..MaxWrites
  BY <1>2, UpsertTyped
<1>4. TextsTyped'
  <2>1. missed' \subseteq missed \cup DOMAIN batch
    BY DEF WorkerWrites
  <2>2. events' \in 0..MaxEvents
    BY <1>1 DEF WorkerWrites, IndexAway, Event, TextsTyped, Parameters
  <2> QED BY <1>1, <1>2, <1>3, <2>1, <2>2 DEF TextsTyped, Known
<1>5. IndexTyped'
  <2>1. CASE index' = index
    BY <1>1, <2>1 DEF IndexTyped
  <2>2. CASE index' = IndexUpserted /\ index.model = model
    <3>1. index' = [model |-> model,
                    rows |-> [o \in Owners |-> IF o \in DOMAIN batch THEN batch[o]
                                               ELSE index.rows[o]]]
      BY <2>2 DEF IndexUpserted, IInv, IndexSound
    <3> QED BY <1>1, <1>3, <3>1 DEF IndexTyped
  <2> QED BY <2>1, <2>2 DEF WorkerWrites, IndexUpserted
<1>6. ProcessTyped' /\ BatchTyped'
  BY <1>1, <1>2 DEF ProcessTyped, BatchTyped
<1> QED BY <1>3, <1>4, <1>5, <1>6
     DEF TypeOK, TextsTyped, RowsTyped, IndexTyped, ProcessTyped, BatchTyped

LEMMA CrashBetweenTyped == ASSUME Parameters, TypeOK, CrashBetween PROVE TypeOK'
<1>1. TextsTyped /\ RowsTyped /\ IndexTyped /\ ProcessTyped /\ BatchTyped
  BY TypeParts
<1>2. RowsTyped' /\ DOMAIN batch \subseteq Owners
  BY UpsertTyped DEF CrashBetween
<1>3. TextsTyped'
  <2>1. events' \in 0..MaxEvents
    BY <1>1 DEF CrashBetween, Event, TextsTyped, Parameters
  <2>2. missed' = missed \cup DOMAIN batch /\ UNCHANGED <<text, active>>
    BY DEF CrashBetween
  <2> QED BY <1>1, <1>2, <2>1, <2>2 DEF TextsTyped, Known
<1>4. IndexTyped' /\ ProcessTyped' /\ BatchTyped'
  BY <1>1 DEF CrashBetween, IndexTyped, ProcessTyped, BatchTyped
<1> QED BY <1>2, <1>3, <1>4
     DEF TypeOK, TextsTyped, RowsTyped, IndexTyped, ProcessTyped, BatchTyped

\* An index that is built holds texts of rows.
LEMMA StartTyped ==
    ASSUME Parameters, TypeOK, IInv, NEW m \in Models \cup {None}, Start(m) \/ CrashBuilding(m)
    PROVE  TypeOK'
<1>1. TextsTyped /\ RowsTyped /\ IndexTyped /\ ProcessTyped /\ BatchTyped /\ MaxWrites \in Nat
  BY TypeParts DEF Parameters
<1>2. UNCHANGED <<text, active, rows, batch>> /\ phase = "down" /\ worker = "idle"
  BY DEF Start, CrashBuilding, IInv, WorkerSound
<1>3. TextsTyped' /\ RowsTyped'
  <2>1. events' \in 0..MaxEvents
    BY <1>1 DEF Start, CrashBuilding, IndexAway, Event, TextsTyped, Parameters
  <2>2. missed' \subseteq Owners
    BY <1>1 DEF Start, CrashBuilding, TextsTyped
  <2> QED BY <1>1, <1>2, <2>1, <2>2 DEF TextsTyped, RowsTyped, Known
<1>4. IndexTyped'
  <2>1. CASE index' = index
    BY <1>1, <2>1 DEF IndexTyped
  <2>2. CASE index' = NoIndex
    BY <1>1, <2>2 DEF NoIndex, IndexTyped
  <2>3. CASE index' = Rebuilt(m) /\ m # None
    <3>1. ASSUME NEW o \in Owners, rows[o].model = m PROVE rows[o].text \in 0..MaxWrites
      <4>1. rows[o] # NoRow
        BY <2>3, <3>1 DEF NoRow
      <4>2. rows[o] \in [model : Models, text : 1..MaxWrites]
        BY <1>1, <4>1 DEF RowsTyped
      <4> QED BY <1>1, <4>2
    <3>2. [o \in Owners |-> IF rows[o].model = m THEN rows[o].text ELSE 0]
             \in [Owners -> 0..MaxWrites]
      BY <1>1, <3>1
    <3> QED BY <2>3, <3>2 DEF Rebuilt, IndexTyped
  <2> QED BY <2>1, <2>2, <2>3 DEF Start, CrashBuilding
<1>5. ProcessTyped' /\ BatchTyped'
  BY <1>1, <1>2 DEF ProcessTyped, BatchTyped, Known, Start, CrashBuilding
<1> QED BY <1>3, <1>4, <1>5 DEF TypeOK, TextsTyped, RowsTyped, IndexTyped, ProcessTyped, BatchTyped

LEMMA WriteTyped == ASSUME Parameters, TypeOK, NEW o \in Owners, Write(o) PROVE TypeOK'
<1>1. TextsTyped /\ RowsTyped /\ IndexTyped /\ ProcessTyped /\ BatchTyped /\ MaxWrites \in Nat
  BY TypeParts DEF Parameters
<1>2. text[o] \in Nat /\ text[o] + 1 \in 0..MaxWrites
  <2>1. text[o] < MaxWrites
    BY <1>1, RoomForOneMore DEF Write
  <2> QED BY <1>1, <2>1 DEF TextsTyped
<1>3. /\ text' \in [Owners -> 0..MaxWrites] /\ text'[o] = text[o] + 1
      /\ \A q \in Owners : q # o => text'[q] = text[q]
  BY <1>1, <1>2 DEF Write, TextsTyped
<1>4. Known' = Known \cup {o}
  BY <1>2, <1>3 DEF Known
<1>5. UNCHANGED <<rows, index, model, phase, batch, missed, events>> /\ phase = "up"
  BY DEF Write
<1>6. TextsTyped'
  <2>1. active' \subseteq active \cup {o}
    BY DEF Write
  <2> QED BY <1>1, <1>3, <1>4, <1>5, <2>1 DEF TextsTyped
<1>7. RowsTyped' /\ IndexTyped'
  BY <1>1, <1>5 DEF RowsTyped, IndexTyped
<1>8. \/ worker' = worker
      \/ worker' = "look" /\ worker = "idle" /\ model # None
  BY DEF Write, Scheduled
<1>9. ProcessTyped'
  BY <1>1, <1>5, <1>8 DEF ProcessTyped
<1>10. BatchTyped'
  <2>1. (batch' # <<>>) = (worker' = "ask")
    BY <1>1, <1>5, <1>8 DEF BatchTyped
  <2>2. ASSUME NEW q \in DOMAIN batch' PROVE q \in Known' /\ batch'[q] \in 1..text'[q]
    <3>1. q \in Known /\ batch[q] \in 1..text[q] /\ batch'[q] = batch[q]
      BY <1>1, <1>5, <2>2 DEF BatchTyped
    <3>2. q \in Owners /\ text[q] \in Nat /\ text'[q] \in Nat /\ text[q] <= text'[q]
      BY <1>1, <1>2, <1>3, <3>1 DEF Known, TextsTyped
    <3> QED BY <1>4, <3>1, <3>2
  <2> QED BY <2>1, <2>2 DEF BatchTyped
<1> QED BY <1>6, <1>7, <1>9, <1>10
     DEF TypeOK, TextsTyped, RowsTyped, IndexTyped, ProcessTyped, BatchTyped

LEMMA OthersTyped ==
    ASSUME Parameters, TypeOK,
           \/ WorkerFails \/ WorkerRetries \/ Stop \/ Stopped \/ Crash
           \/ (\E o \in Owners : Retract(o)) \/ UNCHANGED vars
    PROVE  TypeOK'
<1>1. TextsTyped /\ RowsTyped /\ IndexTyped /\ ProcessTyped /\ BatchTyped
  BY TypeParts
<1>2. UNCHANGED <<text, rows, index, missed>> /\ active' \subseteq active
  BY DEF WorkerFails, WorkerRetries, Stop, Stopped, Crash, Retract, vars
<1>3. events' \in 0..MaxEvents
  BY <1>1 DEF WorkerFails, WorkerRetries, Stop, Stopped, Crash, Retract, vars, Event,
              TextsTyped, Parameters
<1>4. TextsTyped' /\ RowsTyped' /\ IndexTyped'
  BY <1>1, <1>2, <1>3 DEF TextsTyped, RowsTyped, IndexTyped, Known
<1>5. ProcessTyped'
  BY <1>1 DEF ProcessTyped, WorkerFails, WorkerRetries, Stop, Stopped, Crash, Retract, vars,
              AfterFailure
<1>6. BatchTyped'
  <2>1. \/ batch' = batch /\ (worker' = "ask") = (worker = "ask")
        \/ batch' = <<>> /\ worker' # "ask"
    BY <1>1 DEF WorkerFails, WorkerRetries, Stop, Stopped, Crash, Retract, vars, AfterFailure
  <2> QED BY <1>1, <1>2, <2>1 DEF BatchTyped, Known
<1> QED BY <1>4, <1>5, <1>6
     DEF TypeOK, TextsTyped, RowsTyped, IndexTyped, ProcessTyped, BatchTyped

LEMMA InitTyped == ASSUME Parameters, Init PROVE TypeOK
<1>1. MaxWrites \in Nat /\ MaxEvents \in Nat
  BY DEF Parameters
<1> QED BY <1>1 DEF Init, TypeOK, NoRow, NoIndex

LEMMA NextTyped == ASSUME Parameters, TypeOK, IInv, [Next]_vars PROVE TypeOK'
<1>1. ASSUME NEW probed \in Models \cup {None}, NEW configured \in Models \cup {None},
             \/ Start(Resolved(probed, configured))
             \/ CrashBuilding(Resolved(probed, configured))
      PROVE  TypeOK'
  <2>1. Resolved(probed, configured) \in Models \cup {None}
    BY DEF Resolved
  <2> QED BY <1>1, <2>1, StartTyped
<1>2. CASE WorkerLooks
  BY <1>2, LooksTyped
<1>3. CASE WorkerWrites
  BY <1>3, WritesTyped
<1>4. CASE CrashBetween
  BY <1>4, CrashBetweenTyped
<1>5. ASSUME NEW o \in Owners, Write(o) PROVE TypeOK'
  BY <1>5, WriteTyped
<1>6. CASE \/ WorkerFails \/ WorkerRetries \/ Stop \/ Stopped \/ Crash
           \/ (\E o \in Owners : Retract(o)) \/ UNCHANGED vars
  BY <1>6, OthersTyped
<1> QED BY <1>1, <1>2, <1>3, <1>4, <1>5, <1>6 DEF Next

\* Texts, rows, index, process and batch keep their types: what the worker asks
\* for is a version there was of an owner there is.
THEOREM VectorTypes == ASSUME Parameters PROVE Spec => []TypeOK
<1>1. Init => TypeOK
  BY InitTyped
<1>2. TypeOK /\ IInv /\ [Next]_vars => TypeOK'
  BY NextTyped
<1> QED
  BY <1>1, <1>2, IndexFollowsRows, PTL DEF Spec
=============================================================================
