---------------------- MODULE ExtractionPipelineProofs ----------------------
(***************************************************************************)
(* Proofs, for any number of messages, any batch size, any limit on the    *)
(* attempts and any number of crashes, that no message waits for a batch   *)
(* without a task that will group it, that the messages of a batch share   *)
(* one state, that attempts are accounted for and results committed once,  *)
(* and that every step keeps the promise of ExtractionPromise.             *)
(*                                                                         *)
(* The invariants need four facts about the durable columns and the tasks: *)
(* batches are named by members of their own (Named), what has no batch is *)
(* untouched (Fresh), a worker past its load has a batch (UnitSound), and  *)
(* a process that is down has no task (NoTaskDown).                        *)
(***************************************************************************)
EXTENDS ExtractionPipeline, FiniteSetTheorems, TLAPS

Named ==
    \A m \in Messages :
        /\ batchOf[m] # 0 <=> m <= grouped
        /\ batchOf[m] <= m
        /\ batchOf[m] # 0 => batchOf[batchOf[m]] = batchOf[m]

Fresh ==
    \A m \in Messages : m > grouped =>
        state[m] = "pending" /\ attempts[m] = 0 /\ failures[m] = 0 /\ killed[m] = 0

UnitSound ==
    \A w \in Workers : phase[w] \in {"loaded", "calling"} =>
        unit[w] \in Messages /\ batchOf[unit[w]] = unit[w]

NoTaskDown ==
    mode = "down" =>
        ~intake /\ ~timer /\ orphans = 0 /\ \A w \in Workers : phase[w] = "idle"

IInv ==
    /\ TypeOK /\ Named /\ Fresh /\ UnitSound /\ NoTaskDown
    /\ UnbatchedCovered /\ BatchUniform /\ AttemptsAccounted /\ AppliedAtMostOnce

-----------------------------------------------------------------------------
\* Rounding down to a multiple of B.
LEMMA ModFacts ==
    ASSUME NEW B \in Nat \ {0}, NEW x \in Nat
    PROVE  x % B \in 0..B - 1 /\ x % B <= x
  BY SMTT(30)

LEMMA ModShift ==
    ASSUME NEW B \in Nat \ {0}, NEW x \in Nat, NEW r \in 0..x % B
    PROVE  (x - r) % B = (x % B) - r
  BY SMTT(30)

\* The batch a message is put into: its name is one of the messages grouped
\* with it, at most BatchSize - 1 before it, and named the same way.
LEMMA NameFacts ==
    ASSUME NEW lo \in Nat, NEW m \in Nat, m > lo
    PROVE  LET name(n) == n - ((n - lo - 1) % BatchSize)
           IN  /\ name(m) \in lo + 1..m
               /\ m < name(m) + BatchSize
               /\ \A n \in name(m)..m : name(n) = name(m)
<1> DEFINE name(n) == n - ((n - lo - 1) % BatchSize)
           x == m - lo - 1
           r == x % BatchSize
<1>1. BatchSize \in Nat \ {0} /\ x \in Nat
  BY PipelineAssumption
<1>2. r \in 0..BatchSize - 1 /\ r <= x
  BY <1>1, ModFacts
<1>3. name(m) \in lo + 1..m /\ m < name(m) + BatchSize
  BY <1>1, <1>2
<1>4. ASSUME NEW n \in name(m)..m PROVE name(n) = name(m)
  <2>1. m - n \in 0..r /\ n - lo - 1 = x - (m - n)
    BY <1>1, <1>2, <1>4
  <2>2. n \in Int /\ m \in Int /\ r \in Int /\ name(m) = m - r
    BY <1>1, <1>2, <1>4
  <2> HIDE DEF x, r
  <2>3. (x - (m - n)) % BatchSize = r - (m - n)
    BY <1>1, <2>1, ModShift DEF r
  <2>4. (n - lo - 1) % BatchSize = r - (m - n)
    BY <2>1, <2>3
  <2>5. QED
    BY <2>2, <2>4
<1>5. QED
  BY <1>3, <1>4

\* The two reaches of a drain stay within what is recorded.
LEMMA Reaches ==
    ASSUME TypeOK
    PROVE  FullUpTo \in grouped..recorded /\ FlushUpTo \in grouped..recorded
<1>1. BatchSize \in Nat \ {0} /\ recorded - grouped \in Nat /\ recorded \in Nat /\ grouped \in Nat
  BY PipelineAssumption DEF TypeOK
<1> DEFINE p == recorded - grouped
           r == p % BatchSize
<1>2. r \in Int /\ 0 <= r /\ r <= p
  <2> HIDE DEF p
  <2>1. p \in Nat
    BY <1>1 DEF p
  <2>2. QED
    BY <1>1, <2>1, ModFacts
<1>3. FullUpTo = recorded - r
  BY DEF FullUpTo
<1> HIDE DEF r
<1>4. FullUpTo \in grouped..recorded
  BY <1>1, <1>2, <1>3
<1>5. QED
  BY <1>1, <1>4 DEF FlushUpTo

\* A history counter that is counted up remains one.
LEMMA CountUp ==
    ASSUME NEW f \in [Messages -> Nat], NEW u \in Messages
    PROVE  [f EXCEPT ![u] = @ + 1] \in [Messages -> Nat]
  OBVIOUS

-----------------------------------------------------------------------------
\* What grouping establishes, with the rows it does not touch left alone.
LEMMA GroupCorrect ==
    ASSUME IInv, NEW hi \in grouped..MaxMessages, GroupUpTo(hi),
           UNCHANGED <<state, attempts, failures, killed, applied>>
    PROVE  /\ grouped' \in Nat /\ grouped' = hi
           /\ batchOf' \in [Messages -> 0..MaxMessages]
           /\ \A m \in Messages : m <= grouped => batchOf'[m] = batchOf[m]
           /\ \A m \in Messages : m > grouped /\ m <= hi =>
                 /\ batchOf'[m] \in grouped + 1..m
                 /\ m < batchOf'[m] + BatchSize
                 /\ \A n \in batchOf'[m]..m : batchOf'[n] = batchOf'[m]
           /\ Named' /\ Fresh' /\ BatchUniform' /\ AppliedAtMostOnce'
<1>1. grouped \in Nat /\ MaxMessages \in Nat /\ hi \in Nat /\ grouped' = hi
  BY PipelineAssumption DEF IInv, TypeOK, GroupUpTo
<1>2. ASSUME NEW m \in Messages, m > grouped, m <= hi
      PROVE  /\ batchOf'[m] \in grouped + 1..m
             /\ m < batchOf'[m] + BatchSize
             /\ \A n \in batchOf'[m]..m : batchOf'[n] = batchOf'[m]
  <2> DEFINE name(n) == n - ((n - grouped - 1) % BatchSize)
  <2>1. /\ name(m) \in grouped + 1..m
        /\ m < name(m) + BatchSize
        /\ \A n \in name(m)..m : name(n) = name(m)
    BY <1>1, <1>2, NameFacts DEF Messages
  <2>2. \A n \in grouped + 1..hi : batchOf'[n] = name(n)
    BY <1>1 DEF GroupUpTo, Messages
  <2> HIDE DEF name
  <2>3. batchOf'[m] = name(m)
    BY <1>1, <1>2, <2>2 DEF Messages
  <2>4. \A n \in name(m)..m : n \in grouped + 1..hi
    BY <1>1, <1>2, <2>1 DEF Messages
  <2>5. QED
    BY <2>1, <2>2, <2>3, <2>4
<1>3. \A m \in Messages : ~(m > grouped /\ m <= hi) => batchOf'[m] = batchOf[m]
  BY <1>1 DEF GroupUpTo, Messages
<1>4. batchOf' \in [Messages -> 0..MaxMessages]
  <2>1. ASSUME NEW m \in Messages PROVE batchOf'[m] \in 0..MaxMessages
    <3>1. CASE m > grouped /\ m <= hi
      <4>1. batchOf'[m] \in grouped + 1..m
        BY <1>2, <3>1
      <4>2. QED
        BY <1>1, <3>1, <4>1 DEF Messages
    <3>2. CASE ~(m > grouped /\ m <= hi)
      BY <1>3, <3>2 DEF IInv, TypeOK
    <3>3. QED
      BY <3>1, <3>2
  <2>2. QED
    BY <2>1 DEF GroupUpTo
<1>5. Named'
  <2>1. SUFFICES ASSUME NEW m \in Messages
                 PROVE  /\ batchOf'[m] # 0 <=> m <= hi
                        /\ batchOf'[m] <= m
                        /\ batchOf'[m] # 0 => batchOf'[batchOf'[m]] = batchOf'[m]
    BY <1>1 DEF Named
  <2>2. CASE m > grouped /\ m <= hi
    <3>1. /\ batchOf'[m] \in grouped + 1..m
          /\ \A n \in batchOf'[m]..m : batchOf'[n] = batchOf'[m]
      BY <1>2, <2>2
    <3>2. batchOf'[m] \in batchOf'[m]..m
      BY <1>1, <3>1 DEF Messages
    <3>3. batchOf'[batchOf'[m]] = batchOf'[m]
      BY <3>1, <3>2
    <3>4. QED
      BY <1>1, <2>2, <3>1, <3>3 DEF Messages
  <2>3. CASE m > hi
    BY <1>1, <1>3, <2>3 DEF IInv, Named, Messages
  <2>4. CASE m <= grouped
    <3>1. batchOf'[m] = batchOf[m] /\ batchOf[m] # 0 /\ batchOf[m] <= m
      BY <1>1, <1>3, <2>4 DEF IInv, Named, Messages
    <3>2. batchOf[m] \in Messages /\ batchOf[m] <= grouped
      <4>1. batchOf[m] \in 0..MaxMessages
        BY DEF IInv, TypeOK
      <4>2. QED
        BY <1>1, <2>4, <3>1, <4>1 DEF Messages
    <3>3. batchOf'[batchOf[m]] = batchOf[batchOf[m]]
      BY <1>1, <1>3, <3>2 DEF Messages
    <3>4. QED
      BY <1>1, <2>4, <3>1, <3>3 DEF IInv, Named, Messages
  <2>5. QED
    BY <1>1, <2>2, <2>3, <2>4 DEF Messages
<1>6. Fresh'
  BY <1>1 DEF IInv, Fresh, Messages
<1>7. BatchUniform'
  <2>1. SUFFICES ASSUME NEW m \in Messages, NEW n \in Messages,
                        batchOf'[m] = batchOf'[n]
                 PROVE  state[m] = state[n] /\ attempts[m] = attempts[n]
    BY DEF BatchUniform
  <2>2. CASE m <= grouped /\ n <= grouped
    BY <1>1, <1>3, <2>1, <2>2 DEF IInv, BatchUniform, Messages
  <2>3. CASE m > grouped /\ n > grouped
    BY <2>3 DEF IInv, Fresh
  <2>4. \A p, q \in Messages : p <= grouped /\ q > grouped => batchOf'[p] # batchOf'[q]
    <3>1. SUFFICES ASSUME NEW p \in Messages, NEW q \in Messages, p <= grouped, q > grouped
                   PROVE  batchOf'[p] # batchOf'[q]
      OBVIOUS
    <3>2. batchOf'[p] = batchOf[p] /\ batchOf[p] # 0 /\ batchOf[p] <= grouped
      BY <1>1, <1>3, <3>1 DEF IInv, TypeOK, Named, Messages
    <3>3. CASE q <= hi
      BY <1>1, <1>2, <3>1, <3>2, <3>3 DEF Messages
    <3>4. CASE q > hi
      BY <1>1, <1>3, <3>1, <3>2, <3>4 DEF IInv, Named, Messages
    <3>5. QED
      BY <1>1, <3>3, <3>4 DEF Messages
  <2>5. QED
    BY <1>1, <2>1, <2>2, <2>3, <2>4 DEF Messages
<1>8. AppliedAtMostOnce'
  <2>1. SUFFICES ASSUME NEW b \in Messages
                 PROVE  applied[b] = (IF batchOf'[b] = b /\ state[b] = "completed" THEN 1 ELSE 0)
    BY DEF AppliedAtMostOnce
  <2>2. CASE b <= grouped
    BY <1>1, <1>3, <2>2 DEF IInv, AppliedAtMostOnce, Messages
  <2>3. CASE b > grouped
    BY <2>3 DEF IInv, Fresh, AppliedAtMostOnce
  <2>4. QED
    BY <1>1, <2>2, <2>3 DEF Messages
<1>9. QED
  BY <1>1, <1>2, <1>3, <1>4, <1>5, <1>6, <1>7, <1>8 DEF Messages

-----------------------------------------------------------------------------
\* The calls in flight are few: the workers are two.
LEMMA CallsFinite ==
    ASSUME NEW b
    PROVE  IsFiniteSet(CallsOn(b)) /\ Cardinality(CallsOn(b)) \in Nat
<1>1. IsFiniteSet(Workers)
  <2>1. IsFiniteSet({"spawned"})
    BY FS_Singleton
  <2>2. Workers = {"spawned"} \cup {"import"}
    BY DEF Workers
  <2>3. QED
    BY <2>1, <2>2, FS_AddElement
<1>2. CallsOn(b) \subseteq Workers
  BY DEF CallsOn
<1>3. QED
  BY <1>1, <1>2, FS_Subset, FS_CardinalityType

\* Nobody calls on what has no batch.
LEMMA NoCallsUngrouped ==
    ASSUME IInv, NEW b \in Messages, b > grouped
    PROVE  CallsOn(b) = {} /\ Cardinality(CallsOn(b)) = 0
<1>1. grouped \in Nat /\ b \in Nat
  BY PipelineAssumption DEF IInv, TypeOK, Messages
<1>2. ASSUME NEW w \in Workers, phase[w] = "calling", unit[w] = b PROVE FALSE
  <2>1. batchOf[b] = b
    BY <1>2 DEF IInv, UnitSound
  <2>2. batchOf[b] = 0 /\ b # 0
    BY <1>1 DEF IInv, Named, Messages
  <2>3. QED
    BY <2>1, <2>2
<1>3. CallsOn(b) = {}
  BY <1>2 DEF CallsOn
<1>4. QED
  BY <1>3, FS_EmptySet

\* A step that groups rows, and lets the calls in flight be, keeps the accounts.
LEMMA GroupAccounted ==
    ASSUME IInv, NEW hi \in grouped..MaxMessages, GroupUpTo(hi),
           UNCHANGED <<state, attempts, failures, killed, applied>>,
           \A b \in Messages : CallsOn(b)' = CallsOn(b)
    PROVE  AttemptsAccounted'
<1>1. SUFFICES ASSUME NEW b \in Messages, batchOf'[b] = b, state[b] # "completed"
               PROVE  attempts[b] = failures[b] + killed[b] + Cardinality(CallsOn(b))
  BY DEF AttemptsAccounted
<1>2. CASE b <= grouped
  <2>1. batchOf'[b] = batchOf[b]
    BY <1>2, GroupCorrect
  <2>2. QED
    BY <1>1, <2>1 DEF IInv, AttemptsAccounted
<1>3. CASE b > grouped
  BY <1>3, NoCallsUngrouped DEF IInv, Fresh
<1>4. grouped \in Nat /\ b \in Nat
  BY PipelineAssumption DEF IInv, TypeOK, Messages
<1>5. QED
  BY <1>2, <1>3, <1>4

\* A step that touches neither the rows nor the calls in flight.
LEMMA RowsUntouched ==
    ASSUME IInv, UNCHANGED <<grouped, batchOf, state, attempts, history>>,
           \A b \in Messages : CallsOn(b)' = CallsOn(b)
    PROVE  Named' /\ Fresh' /\ BatchUniform' /\ AttemptsAccounted' /\ AppliedAtMostOnce'
  BY DEF history, IInv, Named, Fresh, BatchUniform, AttemptsAccounted, AppliedAtMostOnce

\* Loading a unit: the worker ends idle or with a batch, the others stay.
LEMMA LoadCorrect ==
    ASSUME NEW w \in Workers,
           NEW bo \in [Messages -> 0..MaxMessages], NEW st, NEW at,
           \A m \in Messages : bo[m] # 0 => bo[bo[m]] = bo[m],
           phase \in [Workers -> Phases],
           unit \in [Workers -> 0..MaxMessages],
           more \in [Workers -> BOOLEAN],
           LoadUnit(w, bo, st, at)
    PROVE  /\ phase' \in [Workers -> Phases]
           /\ unit' \in [Workers -> 0..MaxMessages]
           /\ more' \in [Workers -> BOOLEAN]
           /\ phase'[w] \in {"idle", "loaded"}
           /\ phase'[w] = "loaded" => unit'[w] \in Messages /\ bo[unit'[w]] = unit'[w]
           /\ \A v \in Workers : v # w => phase'[v] = phase[v] /\ unit'[v] = unit[v]
<1>1. CASE /\ phase' = [phase EXCEPT ![w] = "idle"]
           /\ UNCHANGED <<unit, more>>
  BY <1>1 DEF Phases
<1>2. ASSUME NEW m \in Eligible(bo, st, at),
             phase' = [phase EXCEPT ![w] = "loaded"],
             unit' = [unit EXCEPT ![w] = bo[m]],
             more' = [more EXCEPT ![w] = Eligible(bo, st, at) # {m}]
      PROVE  /\ phase' \in [Workers -> Phases]
             /\ unit' \in [Workers -> 0..MaxMessages]
             /\ more' \in [Workers -> BOOLEAN]
             /\ phase'[w] \in {"idle", "loaded"}
             /\ phase'[w] = "loaded" => unit'[w] \in Messages /\ bo[unit'[w]] = unit'[w]
             /\ \A v \in Workers : v # w => phase'[v] = phase[v] /\ unit'[v] = unit[v]
  <2>1. m \in Messages /\ bo[m] # 0
    BY <1>2 DEF Eligible, Leads, PendingRows
  <2>2. bo[m] \in 0..MaxMessages /\ bo[m] \in Messages /\ bo[bo[m]] = bo[m]
    BY <2>1, PipelineAssumption DEF Messages
  <2>3. more' \in [Workers -> BOOLEAN]
    BY <1>2, Zenon
  <2>4. QED
    BY <1>2, <2>2, <2>3 DEF Phases
<1>3. QED
  BY <1>1, <1>2 DEF LoadUnit

\* The turn of the catch-up loop of worker w.
LEMMA NextUnitCorrect ==
    ASSUME IInv, NEW w \in Workers, NEW st, NextUnit(w, st)
    PROVE  /\ phase' \in [Workers -> Phases]
           /\ unit' \in [Workers -> 0..MaxMessages]
           /\ more' \in [Workers -> BOOLEAN]
           /\ phase'[w] \in {"idle", "loaded"}
           /\ phase'[w] = "loaded" => unit'[w] \in Messages /\ batchOf[unit'[w]] = unit'[w]
           /\ \A v \in Workers : v # w => phase'[v] = phase[v] /\ unit'[v] = unit[v]
<1>1. /\ batchOf \in [Messages -> 0..MaxMessages]
      /\ \A m \in Messages : batchOf[m] # 0 => batchOf[batchOf[m]] = batchOf[m]
      /\ phase \in [Workers -> Phases]
      /\ unit \in [Workers -> 0..MaxMessages]
      /\ more \in [Workers -> BOOLEAN]
  BY DEF IInv, TypeOK, Named
<1>2. CASE more[w] /\ ~stopping
  <2>1. LoadUnit(w, batchOf, st, attempts)
    BY <1>2 DEF NextUnit
  <2>2. QED
    BY <1>1, <2>1, LoadCorrect
<1>3. CASE ~(more[w] /\ ~stopping)
  BY <1>1, <1>3 DEF NextUnit, Phases
<1>4. QED
  BY <1>2, <1>3

\* When worker w leaves its call for the next unit, the calls on other batches
\* go on, and those on its batch are one fewer.
LEMMA CallReturns ==
    ASSUME IInv, NEW w \in Workers, phase[w] = "calling",
           phase'[w] \in {"idle", "loaded"},
           \A v \in Workers : v # w => phase'[v] = phase[v] /\ unit'[v] = unit[v]
    PROVE  \A b \in Messages :
              CallsOn(b)' = IF b = unit[w] THEN CallsOn(b) \ {w} ELSE CallsOn(b)
<1> SUFFICES ASSUME NEW b \in Messages
             PROVE  CallsOn(b)' = IF b = unit[w] THEN CallsOn(b) \ {w} ELSE CallsOn(b)
  OBVIOUS
<1>1. w \notin CallsOn(b)' /\ (b # unit[w] => w \notin CallsOn(b))
  BY DEF CallsOn
<1>2. \A v \in Workers : v # w => (v \in CallsOn(b)' <=> v \in CallsOn(b))
  BY DEF CallsOn
<1>3. CallsOn(b) \subseteq Workers /\ CallsOn(b)' \subseteq Workers
  BY DEF CallsOn
<1>4. QED
  BY <1>1, <1>2, <1>3

\* The rows of a worker's batch are open together or not at all.
LEMMA OpenTogether ==
    ASSUME IInv, NEW w \in Workers, phase[w] \in {"loaded", "calling"}
    PROVE  /\ unit[w] \in Messages /\ batchOf[unit[w]] = unit[w]
           /\ \A m \in Messages : batchOf[m] = unit[w] =>
                 /\ m <= grouped
                 /\ m \in OpenRows(w) <=> state[unit[w]] # "completed"
           /\ OpenRows(w) # {} <=> state[unit[w]] # "completed"
<1>1. unit[w] \in Messages /\ batchOf[unit[w]] = unit[w] /\ unit[w] # 0
  BY PipelineAssumption DEF IInv, UnitSound, Messages
<1>2. ASSUME NEW m \in Messages, batchOf[m] = unit[w]
      PROVE  m <= grouped /\ (m \in OpenRows(w) <=> state[unit[w]] # "completed")
  <2>1. m <= grouped
    BY <1>1, <1>2 DEF IInv, Named
  <2>2. state[m] = state[unit[w]]
    BY <1>1, <1>2 DEF IInv, BatchUniform
  <2>3. QED
    BY <1>2, <2>1, <2>2 DEF OpenRows
<1>3. OpenRows(w) # {} <=> state[unit[w]] # "completed"
  BY <1>1, <1>2 DEF OpenRows
<1>4. QED
  BY <1>1, <1>2, <1>3

-----------------------------------------------------------------------------
\* ScheduleExtraction wakes an idle worker and disturbs no other.
LEMMA ScheduleCorrect ==
    ASSUME IInv, NEW needed \in BOOLEAN, ScheduleExtraction(needed), UNCHANGED unit
    PROVE  /\ phase' \in [Workers -> Phases]
           /\ \A w \in Workers : phase'[w] \in {"loaded", "calling"} => phase'[w] = phase[w]
           /\ \A b \in Messages : CallsOn(b)' = CallsOn(b)
<1>1. phase' \in [Workers -> Phases]
  BY DEF ScheduleExtraction, IInv, TypeOK, Phases
<1>2. \A w \in Workers : /\ phase'[w] \in {"loaded", "calling"} => phase'[w] = phase[w]
                         /\ phase'[w] = "calling" <=> phase[w] = "calling"
  BY DEF ScheduleExtraction, IInv, TypeOK
<1>3. \A b \in Messages : CallsOn(b)' = CallsOn(b)
  BY <1>2 DEF CallsOn
<1>4. QED
  BY <1>1, <1>2, <1>3

\* The worker's batch keeps its name when rows are grouped.
LEMMA UnitsGrouped ==
    ASSUME IInv, NEW hi \in grouped..MaxMessages, GroupUpTo(hi),
           UNCHANGED <<unit, state, attempts, failures, killed, applied>>,
           \A w \in Workers : phase'[w] \in {"loaded", "calling"} => phase'[w] = phase[w]
    PROVE  UnitSound'
<1>1. ASSUME NEW w \in Workers, phase'[w] \in {"loaded", "calling"}
      PROVE  unit[w] \in Messages /\ batchOf'[unit[w]] = unit[w]
  <2>1. unit[w] \in Messages /\ batchOf[unit[w]] = unit[w] /\ unit[w] # 0
    BY <1>1, PipelineAssumption DEF IInv, UnitSound, Messages
  <2>2. unit[w] <= grouped
    BY <2>1 DEF IInv, Named
  <2>3. QED
    BY <2>1, <2>2, GroupCorrect
<1>2. QED
  BY <1>1 DEF UnitSound

\* Actions that drain: the intake task, the partial flush, a server's start().
LEMMA DrainStep ==
    ASSUME IInv, NEW hi \in {FullUpTo, FlushUpTo}, NEW needed \in BOOLEAN,
           GroupUpTo(hi), ScheduleExtraction(needed),
           UNCHANGED <<recorded, state, attempts, unit, more, halts, history>>
    PROVE  /\ recorded' \in 0..MaxMessages /\ grouped' \in 0..recorded'
           /\ grouped' = hi
           /\ batchOf' \in [Messages -> 0..MaxMessages]
           /\ phase' \in [Workers -> Phases]
           /\ UNCHANGED <<state, attempts, unit, more, halts, failures, killed, applied>>
           /\ Named' /\ Fresh' /\ UnitSound' /\ BatchUniform'
           /\ AttemptsAccounted' /\ AppliedAtMostOnce'
<1>1. /\ recorded \in 0..MaxMessages /\ grouped \in 0..recorded
      /\ recorded \in Nat /\ grouped \in Nat /\ MaxMessages \in Nat
  BY PipelineAssumption DEF IInv, TypeOK
<1>2. hi \in grouped..recorded
  BY Reaches DEF IInv
<1>3. hi \in grouped..MaxMessages
  BY <1>1, <1>2
<1>4. UNCHANGED <<state, attempts, unit, failures, killed, applied>>
  BY DEF history
<1>5. /\ phase' \in [Workers -> Phases]
      /\ \A w \in Workers : phase'[w] \in {"loaded", "calling"} => phase'[w] = phase[w]
      /\ \A b \in Messages : CallsOn(b)' = CallsOn(b)
  BY <1>4, ScheduleCorrect
<1>6. /\ grouped' = hi /\ batchOf' \in [Messages -> 0..MaxMessages]
      /\ Named' /\ Fresh' /\ BatchUniform' /\ AppliedAtMostOnce'
  BY <1>3, <1>4, GroupCorrect
<1>7. UnitSound'
  BY <1>3, <1>4, <1>5, UnitsGrouped
<1>8. AttemptsAccounted'
  BY <1>3, <1>4, <1>5, GroupAccounted
<1>9. QED
  BY <1>1, <1>2, <1>4, <1>5, <1>6, <1>7, <1>8

LEMMA IntakeStep == ASSUME IInv, Intake PROVE IInv'
<1>1. FullUpTo \in {FullUpTo, FlushUpTo} /\ (FullUpTo > grouped) \in BOOLEAN
  OBVIOUS
<1>2. /\ recorded' \in 0..MaxMessages /\ grouped' \in 0..recorded'
      /\ grouped' = FullUpTo
      /\ batchOf' \in [Messages -> 0..MaxMessages]
      /\ phase' \in [Workers -> Phases]
      /\ UNCHANGED <<state, attempts, unit, more, halts, failures, killed, applied>>
      /\ Named' /\ Fresh' /\ UnitSound' /\ BatchUniform'
      /\ AttemptsAccounted' /\ AppliedAtMostOnce'
  BY <1>1, DrainStep DEF Intake
<1>3. timer' \in BOOLEAN
  BY DEF Intake, TimerAfterDrain, IInv, TypeOK
<1>4. TypeOK'
  BY <1>2, <1>3 DEF Intake, IInv, TypeOK
<1>5. UnbatchedCovered'
  BY <1>2 DEF Intake, TimerAfterDrain, UnbatchedCovered, Running
<1>6. NoTaskDown'
  BY DEF Intake, ScheduleExtraction, IInv, TypeOK, NoTaskDown
<1>7. QED
  BY <1>2, <1>4, <1>5, <1>6 DEF IInv

LEMMA FlushStep == ASSUME IInv, NEW orphan \in BOOLEAN, Flush(orphan) PROVE IInv'
<1>1. FlushUpTo \in {FullUpTo, FlushUpTo} /\ (FlushUpTo > grouped) \in BOOLEAN
  OBVIOUS
<1>2. /\ recorded' \in 0..MaxMessages /\ grouped' \in 0..recorded'
      /\ grouped' = FlushUpTo
      /\ batchOf' \in [Messages -> 0..MaxMessages]
      /\ phase' \in [Workers -> Phases]
      /\ UNCHANGED <<state, attempts, unit, more, halts, failures, killed, applied>>
      /\ Named' /\ Fresh' /\ UnitSound' /\ BatchUniform'
      /\ AttemptsAccounted' /\ AppliedAtMostOnce'
  BY <1>1, DrainStep DEF Flush
<1>3. orphans \in Nat /\ (orphan => orphans > 0)
  BY DEF Flush, IInv, TypeOK
<1>4. orphans' \in Nat /\ (TimerAfterDrain(FALSE, FlushUpTo) => orphans' > 0)
  <2> DEFINE armed == TimerAfterDrain(FALSE, FlushUpTo)
             left == IF orphan THEN orphans - 1 + (IF timer THEN 1 ELSE 0) ELSE orphans
  <2>1. left \in Nat
    <3>1. CASE orphan
      BY <1>3, <3>1
    <3>2. CASE ~orphan
      BY <1>3, <3>2
    <3>3. QED
      BY <3>1, <3>2
  <2>2. orphans' = left + (IF armed THEN 1 ELSE 0)
    BY DEF Flush
  <2> HIDE DEF armed, left
  <2>3. (armed => orphans' = left + 1) /\ (~armed => orphans' = left + 0)
    BY <2>2, Zenon
  <2>4. orphans' \in Nat /\ (armed => orphans' > 0)
    BY <2>1, <2>3
  <2>5. QED
    BY <2>4 DEF armed
<1>5. TypeOK'
  BY <1>2, <1>4 DEF Flush, IInv, TypeOK
<1>6. UnbatchedCovered'
  <2>1. SUFFICES ASSUME ~stopping, FlushUpTo < recorded PROVE orphans' > 0
    BY <1>2 DEF Flush, UnbatchedCovered, Running
  <2>2. QED
    BY <1>4, <2>1 DEF TimerAfterDrain
<1>7. NoTaskDown'
  BY DEF Flush, IInv, TypeOK, NoTaskDown
<1>8. QED
  BY <1>2, <1>5, <1>6, <1>7 DEF IInv

LEMMA StartServeStep == ASSUME IInv, StartServe PROVE IInv'
<1> DEFINE needed == PendingRows(batchOf, state) # {} \/ FullUpTo > grouped
<1>1. FullUpTo \in {FullUpTo, FlushUpTo} /\ needed \in BOOLEAN
  OBVIOUS
<1>2. ScheduleExtraction(needed) /\ GroupUpTo(FullUpTo)
      /\ UNCHANGED <<recorded, state, attempts, unit, more, halts, history>>
  BY DEF StartServe
<1> HIDE DEF needed
<1>3. /\ recorded' \in 0..MaxMessages /\ grouped' \in 0..recorded'
      /\ grouped' = FullUpTo
      /\ batchOf' \in [Messages -> 0..MaxMessages]
      /\ phase' \in [Workers -> Phases]
      /\ UNCHANGED <<state, attempts, unit, more, halts, failures, killed, applied>>
      /\ Named' /\ Fresh' /\ UnitSound' /\ BatchUniform'
      /\ AttemptsAccounted' /\ AppliedAtMostOnce'
  BY <1>1, <1>2, DrainStep
<1>4. timer' \in BOOLEAN
  BY DEF StartServe, TimerAfterDrain, IInv, TypeOK
<1>5. TypeOK'
  BY <1>3, <1>4 DEF StartServe, IInv, TypeOK
<1>6. UnbatchedCovered'
  BY <1>3 DEF StartServe, TimerAfterDrain, UnbatchedCovered, Running
<1>7. NoTaskDown'
  BY DEF StartServe, NoTaskDown
<1>8. QED
  BY <1>3, <1>5, <1>6, <1>7 DEF IInv

LEMMA StartImportStep ==
    ASSUME IInv, NEW k \in 0..MaxMessages, StartImport(k) PROVE IInv'
<1> DEFINE hi == recorded + k
           started == [phase EXCEPT !["spawned"] =
                         IF PendingRows(batchOf, state) # {} \/ FullUpTo > grouped
                         THEN "ready" ELSE "idle"]
<1>1. /\ recorded \in Nat /\ grouped \in Nat /\ MaxMessages \in Nat /\ k \in Nat
      /\ grouped <= recorded /\ hi <= MaxMessages /\ recorded' = hi /\ hi \in Nat
  BY PipelineAssumption DEF IInv, TypeOK, StartImport
<1>2. hi \in grouped..MaxMessages /\ GroupUpTo(hi)
      /\ UNCHANGED <<state, attempts, failures, killed, applied>>
  BY <1>1 DEF StartImport, history
<1>3. /\ grouped' = hi /\ batchOf' \in [Messages -> 0..MaxMessages]
      /\ Named' /\ Fresh' /\ BatchUniform' /\ AppliedAtMostOnce'
  BY <1>2, GroupCorrect
<1>4. \A w \in Workers : phase[w] = "idle"
  BY DEF IInv, NoTaskDown, StartImport
<1>5. started \in [Workers -> Phases]
      /\ \A w \in Workers : started[w] \in {"idle", "ready"}
  BY <1>4 DEF IInv, TypeOK, Phases
<1> HIDE DEF hi, started
<1>6. /\ phase' \in [Workers -> Phases]
      /\ unit' \in [Workers -> 0..MaxMessages]
      /\ more' \in [Workers -> BOOLEAN]
      /\ \A w \in Workers : phase'[w] # "calling"
      /\ UnitSound'
  <2>1. CASE phase' = started /\ UNCHANGED <<unit, more>>
    BY <1>5, <2>1 DEF UnitSound, IInv, TypeOK
  <2>2. ASSUME NEW m \in Eligible(batchOf', state, attempts),
               phase' = [started EXCEPT !["import"] = "loaded"],
               unit' = [unit EXCEPT !["import"] = batchOf'[m]],
               more' = [more EXCEPT !["import"] = Eligible(batchOf', state, attempts) # {m}]
        PROVE  /\ phase' \in [Workers -> Phases]
               /\ unit' \in [Workers -> 0..MaxMessages]
               /\ more' \in [Workers -> BOOLEAN]
               /\ \A w \in Workers : phase'[w] # "calling"
               /\ UnitSound'
    <3>1. m \in Messages /\ batchOf'[m] # 0
      BY <2>2 DEF Eligible, Leads, PendingRows
    <3>2. batchOf'[m] \in 0..MaxMessages /\ batchOf'[m] \in Messages
          /\ batchOf'[batchOf'[m]] = batchOf'[m]
      BY <1>1, <1>3, <3>1 DEF Named, Messages
    <3>3. more' \in [Workers -> BOOLEAN]
      <4>1. more \in [Workers -> BOOLEAN]
        BY DEF IInv, TypeOK
      <4>2. QED
        BY <2>2, <4>1, Zenon
    <3>4. phase' \in [Workers -> Phases]
          /\ \A w \in Workers : w # "import" => phase'[w] \in {"idle", "ready"}
      BY <1>5, <2>2 DEF Phases
    <3>5. unit' \in [Workers -> 0..MaxMessages] /\ phase'["import"] = "loaded"
          /\ unit'["import"] = batchOf'[m]
      BY <1>5, <2>2, <3>2 DEF IInv, TypeOK, Workers
    <3>6. QED
      BY <3>2, <3>3, <3>4, <3>5 DEF UnitSound
  <2>3. QED
    BY <2>1, <2>2 DEF StartImport, started
<1>7. \A b \in Messages : CallsOn(b)' = CallsOn(b)
  BY <1>4, <1>6 DEF CallsOn
<1>8. AttemptsAccounted'
  BY <1>2, <1>7, GroupAccounted
<1>9. /\ mode' = "import" /\ timer' \in BOOLEAN
      /\ UNCHANGED <<state, attempts, stopping, intake, orphans, halts, failures,
                     killed, applied>>
  <2>1. timer' = TimerAfterDrain(FALSE, FullUpTo)
    BY DEF StartImport
  <2>2. TimerAfterDrain(FALSE, FullUpTo) \in BOOLEAN
    BY DEF TimerAfterDrain, IInv, TypeOK
  <2>3. QED
    BY <2>1, <2>2 DEF StartImport, history
<1>10. TypeOK' /\ UnbatchedCovered' /\ NoTaskDown'
  <2>1. recorded' \in 0..MaxMessages /\ grouped' \in 0..recorded'
    BY <1>1, <1>3
  <2>2. TypeOK'
    BY <1>3, <1>6, <1>9, <2>1 DEF IInv, TypeOK
  <2>3. UnbatchedCovered' /\ NoTaskDown'
    BY <1>1, <1>3, <1>9 DEF UnbatchedCovered, NoTaskDown
  <2>4. QED
    BY <2>2, <2>3
<1>11. QED
  BY <1>3, <1>6, <1>8, <1>10 DEF IInv

-----------------------------------------------------------------------------
LEMMA MarkStep == ASSUME IInv, NEW w \in Workers, Mark(w) PROVE IInv'
<1> DEFINE u == unit[w]
           rows == OpenRows(w)
<1>1. phase[w] = "loaded"
  BY DEF Mark
<1>2. /\ u \in Messages /\ batchOf[u] = u
      /\ \A m \in Messages : batchOf[m] = u =>
            m <= grouped /\ (m \in rows <=> state[u] # "completed")
  BY <1>1, OpenTogether
<1>3. /\ state' = [m \in Messages |-> IF m \in rows THEN "pending" ELSE state[m]]
      /\ attempts' = [m \in Messages |->
                        IF m \in rows THEN attempts[m] + 1 ELSE attempts[m]]
      /\ phase' = [phase EXCEPT ![w] = "calling"]
      /\ UNCHANGED <<recorded, grouped, batchOf, mode, stopping, intake, timer,
                     orphans, unit, more, halts, failures, killed, applied>>
  BY DEF Mark, history
<1>4. \A m \in rows : m \in Messages /\ batchOf[m] = u /\ state[m] # "completed"
  BY DEF OpenRows
<1> HIDE DEF u, rows
<1>5. TypeOK'
  BY <1>3 DEF IInv, TypeOK, Phases
<1>6. Named' /\ UnbatchedCovered' /\ NoTaskDown'
  BY <1>1, <1>3 DEF IInv, Named, UnbatchedCovered, NoTaskDown, Running
<1>7. Fresh'
  <2>1. \A m \in Messages : m > grouped => m \notin rows
    BY <1>2, <1>4, PipelineAssumption DEF IInv, TypeOK, Messages
  <2>2. QED
    BY <1>3, <2>1 DEF IInv, Fresh
<1>8. UnitSound'
  BY <1>2, <1>3 DEF IInv, TypeOK, UnitSound, u
<1>9. BatchUniform'
  <2>1. SUFFICES ASSUME NEW m \in Messages, NEW n \in Messages, batchOf[m] = batchOf[n]
                 PROVE  state'[m] = state'[n] /\ attempts'[m] = attempts'[n]
    BY <1>3 DEF BatchUniform
  <2>2. state[m] = state[n] /\ attempts[m] = attempts[n]
    BY <2>1 DEF IInv, BatchUniform
  <2>3. m \in rows <=> n \in rows
    BY <1>2, <1>4, <2>1
  <2>4. QED
    BY <1>3, <2>2, <2>3
<1>10. AppliedAtMostOnce'
  <2>1. \A m \in Messages : state'[m] = "completed" <=> state[m] = "completed"
    BY <1>3, <1>4
  <2>2. QED
    BY <1>3, <2>1 DEF IInv, AppliedAtMostOnce
<1>11. AttemptsAccounted'
  <2>1. SUFFICES ASSUME NEW b \in Messages, batchOf[b] = b, state'[b] # "completed"
                 PROVE  attempts'[b] = failures[b] + killed[b] + Cardinality(CallsOn(b)')
    BY <1>3 DEF AttemptsAccounted
  <2>2. attempts[b] = failures[b] + killed[b] + Cardinality(CallsOn(b))
    BY <1>3, <1>4, <2>1 DEF IInv, AttemptsAccounted
  <2>3. CASE b = u
    <3>1. b \in rows
      BY <1>2, <1>3, <2>1, <2>3
    <3>2. CallsOn(b)' = CallsOn(b) \cup {w} /\ w \notin CallsOn(b)
      BY <1>1, <1>3, <2>3 DEF CallsOn, IInv, TypeOK, u
    <3>3. Cardinality(CallsOn(b)') = Cardinality(CallsOn(b)) + 1
      BY <3>2, CallsFinite, FS_AddElement
    <3>4. attempts'[b] = attempts[b] + 1
      BY <1>3, <3>1
    <3>5. failures[b] \in Nat /\ killed[b] \in Nat /\ Cardinality(CallsOn(b)) \in Nat
      BY CallsFinite DEF IInv, TypeOK
    <3>6. QED
      BY <2>2, <3>3, <3>4, <3>5
  <2>4. CASE b # u
    <3>1. b \notin rows
      BY <1>4, <2>1, <2>4
    <3>2. CallsOn(b)' = CallsOn(b)
      BY <1>1, <1>3, <2>4 DEF CallsOn, IInv, TypeOK, u
    <3>3. QED
      BY <1>3, <2>2, <3>1, <3>2
  <2>5. QED
    BY <2>3, <2>4
<1>12. QED
  BY <1>5, <1>6, <1>7, <1>8, <1>9, <1>10, <1>11 DEF IInv

LEMMA ApplyStep == ASSUME IInv, NEW w \in Workers, Apply(w) PROVE IInv'
<1> DEFINE u == unit[w]
<1>1. phase[w] = "calling" /\ NextUnit(w, state')
  BY DEF Apply
<1>2. /\ u \in Messages /\ batchOf[u] = u
      /\ \A m \in Messages : batchOf[m] = u => m <= grouped
      /\ OpenRows(w) # {} <=> state[u] # "completed"
  BY <1>1, OpenTogether
<1>3. /\ state' = IF OpenRows(w) # {}
                  THEN [m \in Messages |-> IF batchOf[m] = u THEN "completed" ELSE state[m]]
                  ELSE state
      /\ applied' = IF OpenRows(w) # {} THEN [applied EXCEPT ![u] = @ + 1] ELSE applied
      /\ UNCHANGED <<recorded, grouped, batchOf, attempts, mode, stopping, intake,
                     timer, orphans, halts, failures, killed>>
  BY DEF Apply
<1>4. /\ phase' \in [Workers -> Phases]
      /\ unit' \in [Workers -> 0..MaxMessages]
      /\ more' \in [Workers -> BOOLEAN]
      /\ phase'[w] \in {"idle", "loaded"}
      /\ phase'[w] = "loaded" => unit'[w] \in Messages /\ batchOf[unit'[w]] = unit'[w]
      /\ \A v \in Workers : v # w => phase'[v] = phase[v] /\ unit'[v] = unit[v]
  BY <1>1, NextUnitCorrect
<1>5. \A b \in Messages :
         CallsOn(b)' = IF b = u THEN CallsOn(b) \ {w} ELSE CallsOn(b)
  BY <1>1, <1>4, CallReturns
<1> HIDE DEF u
\* What the commit does to the rows, in either case.
<1>6. /\ \A m \in Messages :
            state'[m] = IF batchOf[m] = u THEN "completed" ELSE state[m]
      /\ state' \in [Messages -> {"pending", "failed", "completed"}]
  <2>1. CASE OpenRows(w) # {}
    BY <1>3, <2>1 DEF IInv, TypeOK
  <2>2. CASE OpenRows(w) = {}
    <3>1. state' = state /\ state[u] = "completed"
      BY <1>2, <1>3, <2>2
    <3>2. \A m \in Messages : batchOf[m] = u => state[m] = "completed"
      BY <1>2, <3>1 DEF IInv, BatchUniform
    <3>3. QED
      BY <3>1, <3>2 DEF IInv, TypeOK
  <2>3. QED
    BY <2>1, <2>2
<1>7. applied' \in [Messages -> Nat]
  <2>1. applied \in [Messages -> Nat] /\ u \in Messages
    BY <1>2 DEF IInv, TypeOK
  <2>2. [applied EXCEPT ![u] = @ + 1] \in [Messages -> Nat]
    BY <2>1, CountUp
  <2>3. QED
    BY <1>3, <2>1, <2>2
<1>8. TypeOK'
  BY <1>3, <1>4, <1>6, <1>7 DEF IInv, TypeOK
<1>9. Named' /\ UnbatchedCovered'
  BY <1>3 DEF IInv, Named, UnbatchedCovered, Running
<1>10. NoTaskDown' /\ UnitSound'
  BY <1>1, <1>3, <1>4 DEF IInv, NoTaskDown, UnitSound
<1>11. Fresh'
  <2>1. \A m \in Messages : m > grouped => batchOf[m] # u
    BY <1>2, PipelineAssumption DEF IInv, TypeOK, Messages
  <2>2. QED
    BY <1>3, <1>6, <2>1 DEF IInv, Fresh
<1>12. BatchUniform'
  BY <1>3, <1>6 DEF IInv, BatchUniform
<1>13. AppliedAtMostOnce'
  <2>1. SUFFICES ASSUME NEW b \in Messages
                 PROVE  applied'[b] = (IF batchOf[b] = b /\ state'[b] = "completed" THEN 1 ELSE 0)
    BY <1>3 DEF AppliedAtMostOnce
  <2>2. applied[b] = (IF batchOf[b] = b /\ state[b] = "completed" THEN 1 ELSE 0)
    BY DEF IInv, AppliedAtMostOnce
  <2>3. CASE b = u
    <3>1. state'[b] = "completed" /\ batchOf[b] = b
      BY <1>2, <1>6, <2>3
    <3>2. CASE OpenRows(w) # {}
      <4>1. applied[b] = 0
        BY <1>2, <2>2, <2>3, <3>2
      <4>2. applied'[b] = applied[b] + 1
        BY <1>2, <1>3, <2>3, <3>2 DEF IInv, TypeOK
      <4>3. QED
        BY <3>1, <4>1, <4>2
    <3>3. CASE OpenRows(w) = {}
      BY <1>2, <1>3, <2>2, <2>3, <3>1, <3>3
    <3>4. QED
      BY <3>2, <3>3
  <2>4. CASE b # u
    <3>1. applied'[b] = applied[b]
      BY <1>2, <1>3, <2>4 DEF IInv, TypeOK
    <3>2. batchOf[b] = b => state'[b] = state[b]
      BY <1>6, <2>4
    <3>3. QED
      BY <2>2, <3>1, <3>2
  <2>5. QED
    BY <2>3, <2>4
<1>14. AttemptsAccounted'
  <2>1. SUFFICES ASSUME NEW b \in Messages, batchOf[b] = b, state'[b] # "completed"
                 PROVE  attempts[b] = failures[b] + killed[b] + Cardinality(CallsOn(b)')
    BY <1>3 DEF AttemptsAccounted
  <2>2. b # u /\ state[b] # "completed"
    BY <1>6, <2>1
  <2>3. CallsOn(b)' = CallsOn(b)
    BY <1>5, <2>2
  <2>4. QED
    BY <2>1, <2>2, <2>3 DEF IInv, AttemptsAccounted
<1>15. QED
  BY <1>8, <1>9, <1>10, <1>11, <1>12, <1>13, <1>14 DEF IInv

LEMMA FailStep == ASSUME IInv, NEW w \in Workers, Fail(w) PROVE IInv'
<1> DEFINE u == unit[w]
           rows == OpenRows(w)
<1>1. phase[w] = "calling" /\ NextUnit(w, state')
  BY DEF Fail
<1>2. /\ u \in Messages /\ batchOf[u] = u
      /\ \A m \in Messages : batchOf[m] = u =>
            m <= grouped /\ (m \in rows <=> state[u] # "completed")
      /\ rows # {} <=> state[u] # "completed"
  BY <1>1, OpenTogether
<1>3. /\ state' = [m \in Messages |-> IF m \in rows THEN "failed" ELSE state[m]]
      /\ failures' = IF rows # {} THEN [failures EXCEPT ![u] = @ + 1] ELSE failures
      /\ UNCHANGED <<recorded, grouped, batchOf, attempts, mode, stopping, intake,
                     timer, orphans, halts, killed, applied>>
  BY DEF Fail
<1>4. /\ phase' \in [Workers -> Phases]
      /\ unit' \in [Workers -> 0..MaxMessages]
      /\ more' \in [Workers -> BOOLEAN]
      /\ phase'[w] \in {"idle", "loaded"}
      /\ phase'[w] = "loaded" => unit'[w] \in Messages /\ batchOf[unit'[w]] = unit'[w]
      /\ \A v \in Workers : v # w => phase'[v] = phase[v] /\ unit'[v] = unit[v]
  BY <1>1, NextUnitCorrect
<1>5. \A b \in Messages :
         CallsOn(b)' = IF b = u THEN CallsOn(b) \ {w} ELSE CallsOn(b)
  BY <1>1, <1>4, CallReturns
<1>6. \A m \in rows : m \in Messages /\ batchOf[m] = u /\ state[m] # "completed"
  BY DEF OpenRows
<1>7. w \in CallsOn(u)
  BY <1>1 DEF CallsOn
<1> HIDE DEF u, rows
<1>8. failures' \in [Messages -> Nat]
  <2>1. failures \in [Messages -> Nat] /\ u \in Messages
    BY <1>2 DEF IInv, TypeOK
  <2>2. [failures EXCEPT ![u] = @ + 1] \in [Messages -> Nat]
    BY <2>1, CountUp
  <2>3. QED
    BY <1>3, <2>1, <2>2
<1>9. TypeOK'
  BY <1>3, <1>4, <1>8 DEF IInv, TypeOK
<1>10. Named' /\ UnbatchedCovered'
  BY <1>3 DEF IInv, Named, UnbatchedCovered, Running
<1>11. NoTaskDown' /\ UnitSound'
  BY <1>1, <1>3, <1>4 DEF IInv, NoTaskDown, UnitSound
<1>12. Fresh'
  <2>1. \A m \in Messages : m > grouped => m \notin rows /\ m # u
    <3>1. grouped \in Nat /\ u <= grouped
      BY <1>2, PipelineAssumption DEF IInv, TypeOK
    <3>2. \A m \in Messages : m \in Nat /\ (m \in rows => m <= grouped)
      BY <1>2, <1>6 DEF Messages
    <3>3. QED
      BY <3>1, <3>2
  <2>2. \A m \in Messages : m # u => failures'[m] = failures[m]
    BY <1>3 DEF IInv, TypeOK
  <2>3. QED
    BY <1>3, <2>1, <2>2 DEF IInv, Fresh
<1>13. BatchUniform'
  <2>1. SUFFICES ASSUME NEW m \in Messages, NEW n \in Messages, batchOf[m] = batchOf[n]
                 PROVE  state'[m] = state'[n] /\ attempts[m] = attempts[n]
    BY <1>3 DEF BatchUniform
  <2>2. state[m] = state[n] /\ attempts[m] = attempts[n]
    BY <2>1 DEF IInv, BatchUniform
  <2>3. m \in rows <=> n \in rows
    BY <1>2, <1>6, <2>1
  <2>4. QED
    BY <1>3, <2>2, <2>3
<1>14. AppliedAtMostOnce'
  <2>1. \A m \in Messages : state'[m] = "completed" <=> state[m] = "completed"
    BY <1>3, <1>6
  <2>2. QED
    BY <1>3, <2>1 DEF IInv, AppliedAtMostOnce
<1>15. AttemptsAccounted'
  <2>1. SUFFICES ASSUME NEW b \in Messages, batchOf[b] = b, state'[b] # "completed"
                 PROVE  attempts[b] = failures'[b] + killed[b] + Cardinality(CallsOn(b)')
    BY <1>3 DEF AttemptsAccounted
  <2>2. state[b] # "completed"
    BY <1>3, <1>6, <2>1
  <2>3. attempts[b] = failures[b] + killed[b] + Cardinality(CallsOn(b))
    BY <2>1, <2>2 DEF IInv, AttemptsAccounted
  <2>4. CASE b = u
    <3>1. failures'[b] = failures[b] + 1
      BY <1>2, <1>3, <2>2, <2>4 DEF IInv, TypeOK
    <3>2. Cardinality(CallsOn(b)') = Cardinality(CallsOn(b)) - 1
      BY <1>5, <1>7, <2>4, CallsFinite, FS_RemoveElement
    <3>3. failures[b] \in Nat /\ killed[b] \in Nat /\ Cardinality(CallsOn(b)) \in Nat
      BY CallsFinite DEF IInv, TypeOK
    <3>4. QED
      BY <2>3, <3>1, <3>2, <3>3
  <2>5. CASE b # u
    <3>1. failures'[b] = failures[b]
      BY <1>3, <2>5 DEF IInv, TypeOK
    <3>2. QED
      BY <1>5, <2>3, <2>5, <3>1
  <2>6. QED
    BY <2>4, <2>5
<1>16. QED
  BY <1>9, <1>10, <1>11, <1>12, <1>13, <1>14, <1>15 DEF IInv

-----------------------------------------------------------------------------
LEMMA TurnStep == ASSUME IInv, NEW k \in 0..MaxMessages, Turn(k) PROVE IInv'
<1>1. /\ recorded' \in 0..MaxMessages /\ recorded <= recorded' /\ intake' = TRUE
      /\ mode = "serve"
      /\ UNCHANGED <<grouped, batchOf, state, attempts, mode, stopping, timer,
                     orphans, phase, unit, more, halts, history>>
  BY PipelineAssumption DEF Turn, IInv, TypeOK
<1>2. Named' /\ Fresh' /\ BatchUniform' /\ AttemptsAccounted' /\ AppliedAtMostOnce'
  <2>1. \A b \in Messages : CallsOn(b)' = CallsOn(b)
    BY <1>1 DEF CallsOn
  <2>2. QED
    BY <1>1, <2>1, RowsUntouched
<1>3. TypeOK'
  BY <1>1, PipelineAssumption DEF IInv, TypeOK, history
<1>4. UnitSound' /\ NoTaskDown' /\ UnbatchedCovered'
  BY <1>1 DEF IInv, UnitSound, NoTaskDown, UnbatchedCovered
<1>5. QED
  BY <1>2, <1>3, <1>4 DEF IInv

LEMMA BeginStep == ASSUME IInv, Begin PROVE IInv'
<1>1. /\ phase["spawned"] = "ready"
      /\ UNCHANGED <<durable, mode, stopping, intake, timer, orphans, halts, history>>
  BY DEF Begin
<1>2. /\ phase' \in [Workers -> Phases]
      /\ unit' \in [Workers -> 0..MaxMessages]
      /\ more' \in [Workers -> BOOLEAN]
      /\ phase'["spawned"] \in {"idle", "loaded"}
      /\ phase'["spawned"] = "loaded" =>
            unit'["spawned"] \in Messages /\ batchOf[unit'["spawned"]] = unit'["spawned"]
      /\ \A v \in Workers : v # "spawned" => phase'[v] = phase[v] /\ unit'[v] = unit[v]
  <2>1. /\ batchOf \in [Messages -> 0..MaxMessages]
        /\ \A m \in Messages : batchOf[m] # 0 => batchOf[batchOf[m]] = batchOf[m]
        /\ phase \in [Workers -> Phases]
        /\ unit \in [Workers -> 0..MaxMessages]
        /\ more \in [Workers -> BOOLEAN]
        /\ "spawned" \in Workers
    BY DEF IInv, TypeOK, Named, Workers
  <2>2. CASE stopping
    BY <2>1, <2>2 DEF Begin, Phases
  <2>3. CASE ~stopping
    <3>1. LoadUnit("spawned", batchOf, state, attempts)
      BY <2>3 DEF Begin
    <3>2. QED
      BY <2>1, <3>1, LoadCorrect
  <2>4. QED
    BY <2>2, <2>3
<1>3. \A b \in Messages : CallsOn(b)' = CallsOn(b)
  BY <1>1, <1>2 DEF CallsOn
<1>4. Named' /\ Fresh' /\ BatchUniform' /\ AttemptsAccounted' /\ AppliedAtMostOnce'
  BY <1>1, <1>3, RowsUntouched DEF durable
<1>5. TypeOK'
  BY <1>1, <1>2 DEF IInv, TypeOK, durable, history
<1>6. UnitSound'
  BY <1>1, <1>2 DEF IInv, UnitSound, durable
<1>7. NoTaskDown' /\ UnbatchedCovered'
  <2>1. mode # "down"
    BY <1>1 DEF IInv, NoTaskDown, Workers
  <2>2. QED
    BY <1>1, <2>1 DEF IInv, NoTaskDown, UnbatchedCovered, Running, durable
<1>8. QED
  BY <1>4, <1>5, <1>6, <1>7 DEF IInv

LEMMA StopStep == ASSUME IInv, Stop PROVE IInv'
<1>1. /\ halts' \in 0..MaxHalts /\ stopping' = TRUE
      /\ mode # "down"
      /\ UNCHANGED <<durable, mode, intake, timer, orphans, phase, unit, more, history>>
  BY PipelineAssumption DEF Stop, IInv, TypeOK, tasks
<1>2. Named' /\ Fresh' /\ BatchUniform' /\ AttemptsAccounted' /\ AppliedAtMostOnce'
  <2>1. \A b \in Messages : CallsOn(b)' = CallsOn(b)
    BY <1>1 DEF CallsOn
  <2>2. QED
    BY <1>1, <2>1, RowsUntouched DEF durable
<1>3. TypeOK'
  BY <1>1 DEF IInv, TypeOK, durable, history
<1>4. UnitSound' /\ NoTaskDown' /\ UnbatchedCovered'
  BY <1>1 DEF IInv, UnitSound, NoTaskDown, UnbatchedCovered, Running, durable
<1>5. QED
  BY <1>2, <1>3, <1>4 DEF IInv

LEMMA CancelTimerStep == ASSUME IInv, CancelTimer PROVE IInv'
<1>1. /\ stopping' = TRUE /\ timer' = FALSE
      /\ UNCHANGED <<durable, mode, intake, orphans, phase, unit, more, halts, history>>
  BY DEF CancelTimer, IInv, TypeOK
<1>2. Named' /\ Fresh' /\ BatchUniform' /\ AttemptsAccounted' /\ AppliedAtMostOnce'
  <2>1. \A b \in Messages : CallsOn(b)' = CallsOn(b)
    BY <1>1 DEF CallsOn
  <2>2. QED
    BY <1>1, <2>1, RowsUntouched DEF durable
<1>3. TypeOK'
  BY <1>1 DEF IInv, TypeOK, durable, history
<1>4. UnitSound' /\ NoTaskDown' /\ UnbatchedCovered'
  BY <1>1 DEF IInv, UnitSound, NoTaskDown, UnbatchedCovered, Running, durable
<1>5. QED
  BY <1>2, <1>3, <1>4 DEF IInv

\* What a process that ends, of itself or not, leaves behind.
LEMMA ForgetCorrect ==
    ASSUME Forget
    PROVE  /\ mode' = "down" /\ stopping' = FALSE
           /\ intake' = FALSE /\ timer' = FALSE /\ orphans' = 0
           /\ phase' \in [Workers -> Phases] /\ \A w \in Workers : phase'[w] = "idle"
           /\ unit' \in [Workers -> 0..MaxMessages]
           /\ more' \in [Workers -> BOOLEAN]
           /\ UnitSound' /\ NoTaskDown' /\ UnbatchedCovered'
           /\ \A b : CallsOn(b)' = {}
<1>1. 0 \in 0..MaxMessages
  BY PipelineAssumption
<1>2. /\ phase' \in [Workers -> Phases] /\ \A w \in Workers : phase'[w] = "idle"
      /\ unit' \in [Workers -> 0..MaxMessages]
      /\ more' \in [Workers -> BOOLEAN]
  BY <1>1 DEF Forget, Phases
<1>3. QED
  BY <1>2 DEF Forget, UnitSound, NoTaskDown, UnbatchedCovered, Running, CallsOn

LEMMA ExitStep == ASSUME IInv, Exit PROVE IInv'
<1>1. Forget /\ UNCHANGED <<durable, halts, history>>
      /\ \A w \in Workers : phase[w] = "idle"
  BY DEF Exit
<1>2. \A b \in Messages : CallsOn(b)' = CallsOn(b)
  BY <1>1, ForgetCorrect DEF CallsOn
<1>3. Named' /\ Fresh' /\ BatchUniform' /\ AttemptsAccounted' /\ AppliedAtMostOnce'
  BY <1>1, <1>2, RowsUntouched DEF durable
<1>4. TypeOK'
  BY <1>1, ForgetCorrect DEF IInv, TypeOK, durable, history
<1>5. QED
  BY <1>1, <1>3, <1>4, ForgetCorrect DEF IInv

LEMMA CrashStep == ASSUME IInv, Crash PROVE IInv'
<1>1. /\ Forget /\ UNCHANGED <<durable, failures, applied>>
      /\ halts' \in 0..MaxHalts
      /\ killed' = [b \in Messages |-> killed[b] + Cardinality(CallsOn(b))]
  BY PipelineAssumption DEF Crash, CallsOn, IInv, TypeOK
<1>2. \A b \in Messages : killed[b] \in Nat /\ Cardinality(CallsOn(b)) \in Nat
  BY CallsFinite DEF IInv, TypeOK
<1>3. killed' \in [Messages -> Nat]
  BY <1>1, <1>2
<1>4. TypeOK'
  BY <1>1, <1>3, ForgetCorrect DEF IInv, TypeOK, durable
<1>5. Named' /\ BatchUniform' /\ AppliedAtMostOnce'
  BY <1>1 DEF IInv, Named, BatchUniform, AppliedAtMostOnce, durable
<1>6. Fresh'
  <2>1. \A m \in Messages : m > grouped => killed'[m] = 0
    BY <1>1, NoCallsUngrouped DEF IInv, Fresh
  <2>2. QED
    BY <1>1, <2>1 DEF IInv, Fresh, durable
<1>7. AttemptsAccounted'
  <2>1. SUFFICES ASSUME NEW b \in Messages, batchOf[b] = b, state[b] # "completed"
                 PROVE  attempts[b] = failures[b] + killed'[b] + Cardinality(CallsOn(b)')
    BY <1>1 DEF AttemptsAccounted, durable
  <2>2. attempts[b] = failures[b] + killed[b] + Cardinality(CallsOn(b))
    BY <2>1 DEF IInv, AttemptsAccounted
  <2>3. Cardinality(CallsOn(b)') = 0
    BY <1>1, ForgetCorrect, FS_EmptySet
  <2>4. failures[b] \in Nat
    BY DEF IInv, TypeOK
  <2>5. killed'[b] = killed[b] + Cardinality(CallsOn(b))
    BY <1>1
  <2>6. QED
    BY <1>2, <2>2, <2>3, <2>4, <2>5
<1>8. QED
  BY <1>1, <1>4, <1>5, <1>6, <1>7, ForgetCorrect DEF IInv

LEMMA StutterStep == ASSUME IInv, UNCHANGED vars PROVE IInv'
<1>1. UNCHANGED <<recorded, grouped, batchOf, state, attempts, mode, stopping,
                  intake, timer, orphans, phase, unit, more, halts, history>>
  BY DEF vars, durable, tasks
<1>2. Named' /\ Fresh' /\ BatchUniform' /\ AttemptsAccounted' /\ AppliedAtMostOnce'
  <2>1. \A b \in Messages : CallsOn(b)' = CallsOn(b)
    BY <1>1 DEF CallsOn
  <2>2. QED
    BY <1>1, <2>1, RowsUntouched
<1>3. TypeOK' /\ UnitSound' /\ NoTaskDown' /\ UnbatchedCovered'
  BY <1>1 DEF IInv, TypeOK, UnitSound, NoTaskDown, UnbatchedCovered, Running, history
<1>4. QED
  BY <1>2, <1>3 DEF IInv

LEMMA NextStep == ASSUME IInv, [Next]_vars PROVE IInv'
  BY TurnStep, StartImportStep, IntakeStep, FlushStep, BeginStep, MarkStep, ApplyStep,
     FailStep, StartServeStep, StopStep, CancelTimerStep, ExitStep, CrashStep, StutterStep DEF Next

LEMMA InitIInv == Init => IInv
<1> SUFFICES ASSUME Init PROVE IInv
  OBVIOUS
<1>1. TypeOK
  <2>1. /\ 0 \in 0..MaxMessages /\ 0 \in 0..MaxHalts /\ 0 \in 0..0
        /\ recorded = 0 /\ grouped = 0 /\ halts = 0
    BY PipelineAssumption DEF Init
  <2>2. /\ batchOf \in [Messages -> 0..MaxMessages]
        /\ unit \in [Workers -> 0..MaxMessages]
    BY <2>1 DEF Init
  <2>3. QED
    BY <2>1, <2>2 DEF Init, TypeOK, Phases
<1>2. Named /\ Fresh
  BY PipelineAssumption DEF Init, Named, Fresh, Messages
<1>3. UnitSound /\ NoTaskDown /\ UnbatchedCovered /\ BatchUniform
  BY DEF Init, UnitSound, NoTaskDown, UnbatchedCovered, Running, BatchUniform
<1>4. AttemptsAccounted /\ AppliedAtMostOnce
  BY DEF Init, AttemptsAccounted, AppliedAtMostOnce, Messages
<1>5. QED
  BY <1>1, <1>2, <1>3, <1>4 DEF IInv

-----------------------------------------------------------------------------
\* Every reachable state satisfies the inductive invariant.
THEOREM PipelineInvariant == Spec => []IInv
<1>1. IInv /\ [Next]_vars => IInv'
  BY NextStep
<1>2. QED
  BY InitIInv, <1>1, PTL DEF Spec

\* The variables of the pipeline keep their types.
THEOREM PipelineTypes == Spec => []TypeOK
  BY PipelineInvariant, PTL DEF IInv

\* No message is ever left without a batch and without a task that will group
\* it, whatever the timers dropped or armed twice.
THEOREM NobodyForgotten == Spec => []UnbatchedCovered
  BY PipelineInvariant, PTL DEF IInv

\* One row settles the state and the attempts of its whole batch.
THEOREM BatchesUniform == Spec => []BatchUniform
  BY PipelineInvariant, PTL DEF IInv

\* No attempt is lost or counted twice, by any interleaving of two workers and
\* any number of crashes.
THEOREM AttemptsAreAccounted == Spec => []AttemptsAccounted
  BY PipelineInvariant, PTL DEF IInv

\* A batch's result is committed at most once.
THEOREM ResultsOnce == Spec => []AppliedAtMostOnce
  BY PipelineInvariant, PTL DEF IInv

-----------------------------------------------------------------------------
\* The messages whose batch has been extracted, as ExtractionPromise has them.
Extracted == {m \in Messages : batchOf[m] # 0 /\ state[m] = "completed"}

\* A step that records or groups, and leaves the states alone, is an Ingest.
LEMMA IngestRefines ==
    ASSUME IInv, NEW hi \in grouped..MaxMessages, GroupUpTo(hi),
           UNCHANGED <<state, attempts, failures, killed, applied>>,
           recorded' \in recorded..MaxMessages, hi <= recorded'
    PROVE  Promise!Ingest
<1>1. grouped \in Nat /\ hi \in Nat /\ grouped' = hi /\ recorded' \in Nat
      /\ \A m \in Messages : m \in Nat
  <2>1. grouped \in Nat /\ recorded \in Nat /\ MaxMessages \in Nat
    BY PipelineAssumption DEF IInv, TypeOK
  <2>2. grouped' = hi
    BY DEF GroupUpTo
  <2>3. QED
    BY <2>1, <2>2 DEF Messages
<1>2. \A m \in Messages : ~(m > grouped /\ m <= hi) => batchOf'[m] = batchOf[m]
  BY <1>1 DEF GroupUpTo
<1>3. \A m \in Messages : m > grouped /\ m <= hi =>
         /\ batchOf'[m] \in grouped + 1..m
         /\ m < batchOf'[m] + BatchSize
         /\ \A n \in batchOf'[m]..m : batchOf'[n] = batchOf'[m]
  BY GroupCorrect
<1>4. Promise!Cut
  <2>1. grouped' \in grouped..recorded'
    BY <1>1
  <2>2. QED
    BY <1>1, <1>2, <1>3, <2>1 DEF Promise!Cut, Promise!Messages, Messages
<1>5. Extracted' = Extracted
  <2>1. ASSUME NEW m \in Messages PROVE m \in Extracted' <=> m \in Extracted
    <3>1. CASE m <= grouped
      BY <1>1, <1>2, <3>1 DEF Extracted
    <3>2. CASE m > grouped
      BY <3>2 DEF Extracted, IInv, Fresh
    <3>3. QED
      BY <1>1, <3>1, <3>2
  <2>2. QED
    BY <2>1 DEF Extracted
<1>6. QED
  BY <1>4, <1>5 DEF Promise!Ingest, Extracted

\* A step that changes neither the batches nor who is completed is a stutter.
LEMMA StutterRefines ==
    ASSUME UNCHANGED <<recorded, grouped, batchOf>>,
           \A m \in Messages : state'[m] = "completed" <=> state[m] = "completed"
    PROVE  UNCHANGED Promise!vars
  BY DEF Promise!vars

LEMMA ApplyRefines ==
    ASSUME IInv, NEW w \in Workers, Apply(w)
    PROVE  Promise!Extract \/ UNCHANGED Promise!vars
<1> DEFINE u == unit[w]
<1>1. /\ u \in Messages /\ batchOf[u] = u /\ u # 0
      /\ OpenRows(w) # {} <=> state[u] # "completed"
      /\ UNCHANGED <<recorded, grouped, batchOf>>
  BY OpenTogether, PipelineAssumption DEF Apply, Messages
<1>2. CASE OpenRows(w) = {}
  BY <1>1, <1>2, StutterRefines DEF Apply
<1>3. CASE OpenRows(w) # {}
  <2>1. state' = [m \in Messages |-> IF batchOf[m] = u THEN "completed" ELSE state[m]]
    BY <1>3 DEF Apply
  <2>2. Extracted' = Extracted \cup {m \in Messages : batchOf[m] = u}
    BY <1>1, <2>1 DEF Extracted
  <2>3. u \notin Extracted
    BY <1>1, <1>3 DEF Extracted
  <2>4. Promise!Extract
    BY <1>1, <2>2, <2>3 DEF Promise!Extract, Promise!Messages, Messages, Extracted
  <2>5. QED
    BY <2>4
<1>4. QED
  BY <1>2, <1>3

LEMMA StepRefines ==
    ASSUME IInv, [Next]_vars
    PROVE  Promise!Next \/ UNCHANGED Promise!vars
<1>1. /\ recorded \in 0..MaxMessages /\ grouped \in 0..recorded
      /\ recorded \in Nat /\ grouped \in Nat /\ MaxMessages \in Nat
  BY PipelineAssumption DEF IInv, TypeOK
<1>2. FullUpTo \in grouped..recorded /\ FlushUpTo \in grouped..recorded
  BY Reaches DEF IInv
<1>3. ASSUME NEW k \in 0..MaxMessages, Turn(k) PROVE Promise!Next
  <2>1. recorded' \in recorded..MaxMessages /\ grouped \in grouped..recorded'
    BY <1>1, <1>3 DEF Turn
  <2>2. UNCHANGED <<grouped, batchOf, state>>
    BY <1>3 DEF Turn
  <2>3. \A m \in Messages : ~(m > grouped /\ m <= grouped)
    BY <1>1 DEF Messages
  <2>4. Promise!Ingest
    BY <2>1, <2>2, <2>3 DEF Promise!Ingest, Promise!Cut, Promise!Messages, Messages
  <2>5. QED
    BY <2>4 DEF Promise!Next
<1>4. ASSUME NEW k \in 0..MaxMessages, StartImport(k) PROVE Promise!Next
  <2>1. /\ recorded + k \in grouped..MaxMessages /\ GroupUpTo(recorded + k)
        /\ recorded' = recorded + k
        /\ UNCHANGED <<state, attempts, failures, killed, applied>>
    BY <1>1, <1>4 DEF StartImport, history
  <2>2. recorded' \in recorded..MaxMessages /\ recorded + k <= recorded'
    BY <1>1, <2>1
  <2>3. QED
    BY <2>1, <2>2, IngestRefines DEF Promise!Next
<1>5. ASSUME Intake \/ StartServe \/ \E orphan \in BOOLEAN : Flush(orphan)
      PROVE  Promise!Next
  <2>1. PICK hi \in {FullUpTo, FlushUpTo} : GroupUpTo(hi)
    BY <1>5 DEF Intake, StartServe, Flush
  <2>2. UNCHANGED <<recorded, state, attempts, failures, killed, applied>>
    BY <1>5 DEF Intake, StartServe, Flush, history
  <2>3. hi \in grouped..MaxMessages /\ recorded' \in recorded..MaxMessages /\ hi <= recorded'
    BY <1>1, <1>2, <2>2
  <2>4. QED
    BY <2>1, <2>2, <2>3, IngestRefines DEF Promise!Next
<1>6. ASSUME NEW w \in Workers, Mark(w) \/ Fail(w)
      PROVE  UNCHANGED Promise!vars
  <2>1. \A m \in OpenRows(w) : state[m] # "completed"
    BY DEF OpenRows
  <2>2. \A m \in Messages : state'[m] = "completed" <=> state[m] = "completed"
    BY <1>6, <2>1 DEF Mark, Fail
  <2>3. UNCHANGED <<recorded, grouped, batchOf>>
    BY <1>6 DEF Mark, Fail
  <2>4. QED
    BY <2>2, <2>3, StutterRefines
<1>7. ASSUME Begin \/ Stop \/ CancelTimer \/ Exit \/ Crash \/ UNCHANGED vars
      PROVE  UNCHANGED Promise!vars
  <2>1. UNCHANGED <<recorded, grouped, batchOf, state>>
    BY <1>7 DEF Begin, Stop, CancelTimer, Exit, Crash, vars, durable
  <2>2. QED
    BY <2>1, StutterRefines
<1>8. ASSUME NEW w \in Workers, Apply(w)
      PROVE  Promise!Next \/ UNCHANGED Promise!vars
  BY <1>8, ApplyRefines DEF Promise!Next
<1>9. QED
  BY <1>3, <1>4, <1>5, <1>6, <1>7, <1>8 DEF Next

\* Every behaviour of the pipeline is, recorded row by recorded row, one of the
\* promise: grouped once, with neighbours, extracted together and once.  (That
\* every message is grouped in the end is left to TLC.)
THEOREM PromiseSafe == Spec => Promise!Safe
<1>1. Init => Promise!Init
  BY DEF Init, Promise!Init, Promise!Messages, Messages
<1>2. IInv /\ [Next]_vars => [Promise!Next]_Promise!vars
  BY StepRefines
<1>3. QED
  BY PipelineInvariant, <1>1, <1>2, PTL DEF Spec, Promise!Safe
=============================================================================
