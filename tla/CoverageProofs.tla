--------------------------- MODULE CoverageProofs ---------------------------
(***************************************************************************)
(* Proofs, for any number of roots, workers, Memories and writes, that     *)
(* cursors only advance, that an audit is committed over the entries it    *)
(* was written for, and that a cursor passes over a Memory nobody audited  *)
(* only if a Memory of the chunk changed while its audit was in flight.    *)
(*                                                                         *)
(* All three rest on what is true of an audit in flight (CallSound): its   *)
(* chunk lies behind the position it was read from, with nothing between   *)
(* left out unless the chunk changed, and that position is the cursor of   *)
(* the root, with the revision that was read, or lies behind the cursor.   *)
(***************************************************************************)
EXTENDS Coverage, FiniteSetTheorems, TLAPS

Position == Nat \X Nat

Columns ==
    /\ clock \in Nat
    /\ updated \in [Memories -> 0..clock]
    /\ \A r \in Roots : cursor[r] \in (0..clock) \X Nat
    /\ cursor = [r \in Roots |-> cursor[r]]
    /\ revision \in [Roots -> Nat]
    /\ work = [w \in Workers |-> work[w]]

\* A record of an audit, with all its fields.
IsCall(c) ==
    c = [kind |-> c.kind, root |-> c.root, expected |-> c.expected,
         chunk |-> c.chunk, changed |-> c.changed, read |-> c.read]

\* What holds of a call in flight.
CallSound(c) ==
    c.kind \in {"audit", "overflow"} =>
        /\ IsCall(c)
        /\ c.root \in Roots
        /\ c.expected \in (0..clock) \X Nat
        /\ c.chunk \subseteq Stored
        /\ \A m \in c.chunk : Before(c.expected, Stamp(m))
        /\ c.changed = {} =>
              \A m \in Stored \ c.chunk : Before(c.expected, Stamp(m)) =>
                  \A n \in c.chunk : Before(Stamp(n), Stamp(m))
        /\ \/ c.expected = cursor[c.root] /\ c.read = revision[c.root]
           \/ Before(c.expected, cursor[c.root])

CallsSound == \A w \in Workers : CallSound(work[w])

IInv == Columns /\ CallsSound /\ PassedOverOnlyIfRaced

-----------------------------------------------------------------------------
\* Before is a strict total order of positions.
LEMMA BeforeOrder ==
    /\ \A s \in Position : ~Before(s, s)
    /\ \A s, t, u \in Position : Before(s, t) /\ Before(t, u) => Before(s, u)
    /\ \A s, t \in Position : Before(s, t) \/ s = t \/ Before(t, s)
  BY DEF Position, Before

LEMMA InitIInv == Init => IInv
  BY CoverageAssumption
  DEF Init, IInv, Columns, CallsSound, CallSound, PassedOverOnlyIfRaced, NoWork, Stored, Roots, Memories

\* The pipeline asks for a sound call, and leaves the other workers alone.
LEMMA ProceedCorrect ==
    ASSUME IInv, NEW w \in Workers, NEW cur, NEW rev, NEW fl,
           cur \in [Roots -> (0..clock) \X Nat],
           Proceed(w, cur, rev, fl)
    PROVE  /\ work' = [v \in Workers |-> work'[v]]
           /\ \A v \in Workers \ {w} : work'[v] = work[v]
           /\ work'[w].kind \in {"audit", "overflow"} =>
                /\ IsCall(work'[w])
                /\ work'[w].root \in Roots
                /\ work'[w].expected = cur[work'[w].root]
                /\ work'[w].read = rev[work'[w].root]
                /\ work'[w].chunk \in Chunks(Backlog(work'[w].root, cur))
                /\ work'[w].changed = {}
<1>1. CASE work' = [work EXCEPT ![w] =
                      [kind |-> "plan", expected |-> Token(rev), read |-> rev,
                       goals |-> PlanContext]]
  BY <1>1 DEF IInv, Columns
<1>2. ASSUME NEW r \in Roots, NEW C \in Chunks(Backlog(r, cur)),
             work' = [work EXCEPT ![w] =
                 [kind |-> IF r \in fl THEN "overflow" ELSE "audit", root |-> r,
                  expected |-> cur[r], chunk |-> C, changed |-> {}, read |-> rev[r]]]
      PROVE  /\ work' = [v \in Workers |-> work'[v]]
             /\ \A v \in Workers \ {w} : work'[v] = work[v]
             /\ work'[w].root = r /\ work'[w].expected = cur[r]
             /\ IsCall(work'[w])
             /\ work'[w].read = rev[r] /\ work'[w].chunk = C /\ work'[w].changed = {}
  BY <1>2 DEF IInv, Columns, IsCall
<1> QED BY <1>1, <1>2 DEF Proceed, CallPlan, CallAudit

\* A call that has just been made is sound.
LEMMA NewCallSound ==
    ASSUME IInv, UNCHANGED memories, NEW w \in Workers, NEW fl,
           cursor' \in [Roots -> (0..clock) \X Nat],
           Proceed(w, cursor', revision', fl)
    PROVE  CallSound(work[w])'
<1>1. ASSUME work'[w].kind \in {"audit", "overflow"}
      PROVE  /\ IsCall(work'[w])
             /\ work'[w].root \in Roots
             /\ work'[w].expected = cursor'[work'[w].root]
             /\ work'[w].read = revision'[work'[w].root]
             /\ work'[w].chunk \in Chunks(Backlog(work'[w].root, cursor'))
             /\ work'[w].changed = {}
  BY <1>1, ProceedCorrect
<1>2. Stored' = Stored /\ \A m : Stamp(m)' = Stamp(m)
  BY DEF memories, Stored, Stamp
<1> QED
  BY <1>1, <1>2 DEF CallSound, Chunks, Backlog, memories, Before

\* A step that leaves Memories, roots and history alone and gives one worker a
\* new call, or none, keeps the invariant.
LEMMA CallKeeps ==
    ASSUME IInv, UNCHANGED <<memories, cursor, revision, audited, excused>>,
           NEW w \in Workers,
           \/ \E fl : Proceed(w, cursor', revision', fl)
           \/ work' = [work EXCEPT ![w] = NoWork]
    PROVE  IInv'
<1>1. cursor' \in [Roots -> (0..clock) \X Nat]
  BY DEF IInv, Columns
<1>2. /\ work' = [v \in Workers |-> work'[v]]
      /\ \A v \in Workers \ {w} : work'[v] = work[v]
      /\ CallSound(work[w])'
  <2>1. CASE \E fl : Proceed(w, cursor', revision', fl)
    BY <1>1, <2>1, ProceedCorrect, NewCallSound
  <2>2. CASE work' = [work EXCEPT ![w] = NoWork]
    BY <2>2 DEF IInv, Columns, NoWork, CallSound
  <2> QED BY <2>1, <2>2
<1>3. Columns'
  BY <1>2 DEF IInv, Columns, memories
<1>4. Stored' = Stored /\ \A m : Stamp(m)' = Stamp(m)
  BY DEF memories, Stored, Stamp
<1>5. CallsSound'
  BY <1>2, <1>4 DEF IInv, CallsSound, CallSound, memories, Before
<1>6. PassedOverOnlyIfRaced'
  BY <1>4 DEF IInv, PassedOverOnlyIfRaced, Before
<1> QED BY <1>3, <1>5, <1>6 DEF IInv

-----------------------------------------------------------------------------
\* A write puts what it touches behind every cursor and every position read.
LEMMA WriteKeeps ==
    ASSUME IInv, NEW new \in SUBSET Memories, NEW old \in SUBSET Stored, NEW to,
           new \cap Stored = {}, to # "none", Write(new, old, to)
    PROVE  IInv'
<1> DEFINE touched == new \cup old
<1>1. /\ clock \in Nat /\ clock' = clock + 1
      /\ \A m \in touched : updated'[m] = clock + 1
      /\ \A m \in Memories \ touched : updated'[m] = updated[m]
      /\ \A m \in Memories : updated[m] \in 0..clock
      /\ updated' \in [Memories -> 0..clock']
      /\ Stored' = Stored \cup new
      /\ old \subseteq Memories
  BY DEF IInv, Columns, Write, Stamped, Stored
<1>2. UNCHANGED <<cursor, revision>>
  BY DEF Write, roots
<1>3. Columns'
  <2>1. work' = [w \in Workers |-> work'[w]]
    BY DEF Write
  <2>2. \A r \in Roots : cursor[r] \in (0..clock') \X Nat
    BY <1>1 DEF IInv, Columns
  <2> QED BY <1>1, <1>2, <2>1, <2>2 DEF IInv, Columns
<1>4. \A m \in Stored' \ touched : m \in Stored /\ Stamp(m)' = Stamp(m)
  BY <1>1 DEF Stored, Stamp
<1>5. \A m \in touched, s \in (0..clock) \X Nat : Before(s, Stamp(m))' /\ Before(s, Stamp(m)')
  BY <1>1 DEF Before, Stamp
<1>6. \A m \in Stored : Stamp(m) \in (0..clock) \X Nat
  BY <1>1 DEF Stored, Stamp, Memories
<1>7. CallsSound'
  <2> SUFFICES ASSUME NEW v \in Workers, work'[v].kind \in {"audit", "overflow"}
               PROVE  CallSound(work[v])'
    BY DEF CallsSound, CallSound
  <2>1. /\ work[v].kind \in {"audit", "overflow"}
        /\ work'[v] = [work[v] EXCEPT !.changed = @ \cup (work[v].chunk \cap old)]
    BY DEF Write
  <2>2. CallSound(work[v])
    BY DEF IInv, CallsSound
  <2>3. /\ IsCall(work'[v])
        /\ work'[v].root = work[v].root /\ work'[v].expected = work[v].expected
        /\ work'[v].chunk = work[v].chunk /\ work'[v].read = work[v].read
        /\ work'[v].changed = work[v].changed \cup (work[v].chunk \cap old)
    BY <2>1, <2>2 DEF CallSound, IsCall
  <2> DEFINE c == work[v]
  <2>4. /\ c.root \in Roots /\ c.expected \in (0..clock) \X Nat /\ c.chunk \subseteq Stored
        /\ \A m \in c.chunk : Before(c.expected, Stamp(m))
        /\ c.changed = {} =>
              \A m \in Stored \ c.chunk : Before(c.expected, Stamp(m)) =>
                  \A n \in c.chunk : Before(Stamp(n), Stamp(m))
        /\ \/ c.expected = cursor[c.root] /\ c.read = revision[c.root]
           \/ Before(c.expected, cursor[c.root])
    BY <2>1, <2>2 DEF CallSound
  <2>5. \A m \in c.chunk : Before(c.expected, Stamp(m)')
    BY <1>1, <1>4, <1>5, <2>4
  <2>6. ASSUME c.changed \cup (c.chunk \cap old) = {}, NEW m \in Stored' \ c.chunk,
               Before(c.expected, Stamp(m)'), NEW n \in c.chunk
        PROVE  Before(Stamp(n)', Stamp(m)')
    <3>1. n \in Stored /\ n \notin touched /\ Stamp(n)' = Stamp(n)
      BY <1>1, <1>4, <2>4, <2>6
    <3>2. CASE m \in touched
      BY <1>5, <1>6, <3>1, <3>2
    <3>3. CASE m \notin touched
      BY <1>4, <2>4, <2>6, <3>1, <3>3
    <3> QED BY <3>2, <3>3
  <2>7. c.expected \in (0..clock') \X Nat /\ c.chunk \subseteq Stored'
    BY <1>1, <2>4
  <2> HIDE DEF c
  <2> QED
    BY <1>2, <2>3, <2>4, <2>5, <2>6, <2>7 DEF CallSound, Before, c
<1>8. PassedOverOnlyIfRaced'
  <2> SUFFICES ASSUME NEW r \in Roots, NEW m \in Stored' \ Long, ~Before(cursor[r], Stamp(m)')
               PROVE  <<r, m>> \in audited' \cup excused'
    BY <1>2 DEF PassedOverOnlyIfRaced, Before
  <2>1. m \in Stored /\ m \notin touched /\ Stamp(m)' = Stamp(m)
    BY <1>4, <1>5 DEF IInv, Columns
  <2>2. <<r, m>> \in audited \cup excused
    BY <2>1 DEF IInv, PassedOverOnlyIfRaced
  <2> QED BY <2>1, <2>2 DEF Write
<1> QED BY <1>3, <1>7, <1>8 DEF IInv

\* A commit moves the cursor of its root forward, past Memories that were read or
\* are excused, and past every position anybody else has read this root from.
LEMMA CommitKeeps ==
    ASSUME IInv, NEW w \in Workers, CommitAudit(w)
    PROVE  /\ IInv'
           /\ \A r \in Roots : cursor'[r] = cursor[r] \/ Before(cursor[r], cursor'[r])
           /\ \A v \in Workers \ {w} : work'[v] = work[v]
           /\ revision' # revision => work[w].read = revision[work[w].root]
<1>1. cursor \in [Roots -> (0..clock) \X Nat]
  BY DEF IInv, Columns
<1>2. CASE ~Unmoved(w)
  <2>1. UNCHANGED <<memories, cursor, revision, audited, excused>>
    BY <1>2 DEF CommitAudit, roots, history
  <2>2. Proceed(w, cursor', revision', full')
    BY DEF CommitAudit
  <2>3. \A v \in Workers \ {w} : work'[v] = work[v]
    BY <1>1, <2>1, <2>2, ProceedCorrect
  <2> QED BY <2>1, <2>2, <2>3, CallKeeps
<1>3. CASE Unmoved(w)
  <2> DEFINE r == work[w].root
             c == work[w]
  <2>1. PICK last \in c.chunk :
            /\ \A m \in c.chunk \ {last} : Before(Stamp(m), Stamp(last))
            /\ cursor' = [cursor EXCEPT ![r] = Stamp(last)]
    BY <1>3 DEF CommitAudit
  <2>2. /\ revision' = [revision EXCEPT ![r] = @ + 1]
        /\ audited' = audited \cup {<<r, m>> : m \in Read(w)}
        /\ excused' = IF c.changed = {} THEN excused
                      ELSE excused \cup {<<r, m>> : m \in Passed(r, cursor') \ Read(w)}
        /\ Proceed(w, cursor', revision', full')
        /\ UNCHANGED memories
        /\ c.expected = cursor[r]
        /\ c.kind = "audit"
    BY <1>3 DEF CommitAudit, Unmoved
  <2>3. /\ r \in Roots /\ c.chunk \subseteq Stored
        /\ \A m \in c.chunk : Before(cursor[r], Stamp(m))
        /\ c.changed = {} =>
              \A m \in Stored \ c.chunk : Before(cursor[r], Stamp(m)) =>
                  \A n \in c.chunk : Before(Stamp(n), Stamp(m))
        /\ c.read = revision[r] \/ Before(cursor[r], cursor[r])
    BY <2>2 DEF IInv, CallsSound, CallSound
  <2> HIDE DEF c, r
  <2>4. \A m \in Stored : Stamp(m) \in (0..clock) \X Nat
    BY DEF IInv, Columns, Stored, Stamp, Memories
  <2>5. \A s \in (0..clock) \X Nat : s \in Position
    BY DEF IInv, Columns, Position
  <2>6. c.read = revision[r]
    BY <1>1, <2>3, <2>5, BeforeOrder
  <2>7. /\ cursor' \in [Roots -> (0..clock) \X Nat]
        /\ cursor'[r] = Stamp(last) /\ Before(cursor[r], cursor'[r])
        /\ \A q \in Roots \ {r} : cursor'[q] = cursor[q]
    BY <1>1, <2>1, <2>3, <2>4
  <2>8. /\ work' = [v \in Workers |-> work'[v]]
        /\ \A v \in Workers \ {w} : work'[v] = work[v]
        /\ CallSound(work[w])'
    BY <2>2, <2>7, ProceedCorrect, NewCallSound
  <2>9. Columns'
    <3>1. revision' \in [Roots -> Nat]
      BY <2>2, <2>3 DEF IInv, Columns
    <3>2. clock' = clock /\ updated' = updated
      BY <2>2 DEF memories
    <3>3. cursor' = [q \in Roots |-> cursor'[q]] /\ \A q \in Roots : cursor'[q] \in (0..clock) \X Nat
      BY <2>7
    <3> QED BY <2>8, <3>1, <3>2, <3>3 DEF IInv, Columns
  <2>10. Stored' = Stored /\ \A m : Stamp(m)' = Stamp(m)
    BY <2>2 DEF memories, Stored, Stamp
  <2>11. CallsSound'
    <3> SUFFICES ASSUME NEW v \in Workers \ {w}, work[v].kind \in {"audit", "overflow"}
                 PROVE  CallSound(work[v])'
      BY <2>8 DEF CallsSound, CallSound
    <3> DEFINE d == work[v]
    <3>1. CallSound(d) /\ d.root \in Roots /\ d.expected \in (0..clock) \X Nat
      BY DEF IInv, CallsSound, CallSound
    <3>2. \/ d.expected = cursor'[d.root] /\ d.read = revision'[d.root]
          \/ Before(d.expected, cursor'[d.root])
      <4>1. CASE d.root # r
        BY <2>2, <2>3, <2>7, <3>1, <4>1 DEF CallSound, IInv, Columns
      <4>2. CASE d.root = r
        <5>1. d.expected = cursor[r] \/ Before(d.expected, cursor[r])
          BY <3>1, <4>2 DEF CallSound
        <5> QED BY <1>1, <2>3, <2>5, <2>7, <3>1, <4>2, <5>1, BeforeOrder
      <4> QED BY <4>1, <4>2
    <3>3. clock' = clock /\ work'[v] = d
      BY <2>2, <2>8 DEF memories
    <3> HIDE DEF d
    <3> QED BY <2>10, <3>1, <3>2, <3>3 DEF CallSound, Before
  <2>12. PassedOverOnlyIfRaced'
    <3> SUFFICES ASSUME NEW q \in Roots, NEW m \in Stored \ Long, ~Before(cursor'[q], Stamp(m))
                 PROVE  <<q, m>> \in audited' \cup excused'
      BY <2>10 DEF PassedOverOnlyIfRaced, Before
    <3>1. CASE ~Before(cursor[q], Stamp(m))
      BY <2>2, <3>1 DEF IInv, PassedOverOnlyIfRaced
    <3>2. CASE Before(cursor[q], Stamp(m))
      <4>1. q = r
        BY <2>7, <3>2
      <4>2. CASE c.changed # {}
        <5>1. m \in Passed(r, cursor')
          BY <3>2, <4>1 DEF Passed, Backlog
        <5> QED BY <2>2, <4>1, <4>2, <5>1
      <4>3. CASE c.changed = {}
        <5>1. m \in c.chunk
          BY <2>3, <2>7, <3>2, <4>1, <4>3
        <5>2. m \in Read(w)
          BY <4>3, <5>1 DEF Read, c
        <5> QED BY <2>2, <4>1, <5>2
      <4> QED BY <4>2, <4>3
    <3> QED BY <3>1, <3>2
  <2> QED BY <2>6, <2>7, <2>8, <2>9, <2>11, <2>12 DEF IInv, c, r
<1> QED BY <1>2, <1>3

-----------------------------------------------------------------------------
\* What a step may do to the cursors and to the entries of an audit in flight.
StepSound ==
    /\ \A r \in Roots : cursor'[r] = cursor[r] \/ Before(cursor[r], cursor'[r])
    /\ \A w \in Workers :
          /\ work[w].kind = "audit" /\ work'[w] # work[w]
          /\ revision'[work[w].root] # revision[work[w].root]
          => work[w].read = revision[work[w].root]

LEMMA NextKeeps == IInv /\ [Next]_vars => IInv' /\ StepSound
<1> SUFFICES ASSUME IInv, [Next]_vars PROVE IInv' /\ StepSound
  OBVIOUS
<1>1. ASSUME NEW new \in SUBSET Memories, NEW old \in SUBSET Memories, Record(new, old)
      PROVE  IInv' /\ StepSound
  <2>1. old \subseteq Stored /\ new \cap Stored = {} /\ Write(new, old, "superseded")
    BY <1>1 DEF Record, Stored
  <2>2. UNCHANGED <<cursor, revision>>
    BY <2>1 DEF Write, roots
  <2> QED BY <2>1, <2>2, WriteKeeps DEF StepSound
<1>2. ASSUME NEW m \in Memories, Retract(m)
      PROVE  IInv' /\ StepSound
  <2>1. {m} \subseteq Stored /\ Write({}, {m}, "retracted")
    BY <1>2 DEF Retract, Stored
  <2>2. UNCHANGED <<cursor, revision>>
    BY <2>1 DEF Write, roots
  <2> QED BY <2>1, <2>2, WriteKeeps DEF StepSound
<1>3. CASE Induct
  <2>1. Proceed(Spawned, cursor', revision', full) /\ Spawned \in Workers
    BY <1>3, CoverageAssumption DEF Induct, roots
  <2>2. UNCHANGED <<memories, cursor, revision, audited, excused>>
    BY <1>3 DEF Induct, roots, history
  <2> QED BY <2>1, <2>2, CallKeeps DEF StepSound
<1>4. ASSUME NEW w \in Workers, Pass(w)
      PROVE  IInv' /\ StepSound
  <2>1. Proceed(w, cursor', revision', full)
    BY <1>4 DEF Pass, roots
  <2>2. UNCHANGED <<memories, cursor, revision, audited, excused>>
    BY <1>4 DEF Pass, roots, history
  <2> QED BY <2>1, <2>2, CallKeeps DEF StepSound
<1>5. ASSUME NEW w \in Workers, CommitAudit(w)
      PROVE  IInv' /\ StepSound
  BY <1>5, CommitKeeps DEF StepSound
<1>6. ASSUME NEW w \in Workers, CommitPlan(w) \/ Overflow(w) \/ Fail(w)
      PROVE  IInv' /\ StepSound
  <2>1. /\ work' = [work EXCEPT ![w] = NoWork]
        /\ UNCHANGED <<memories, cursor, revision, audited, excused>>
    BY <1>6 DEF CommitPlan, Overflow, Fail, roots, history
  <2> QED BY <2>1, CallKeeps DEF StepSound
<1>7. CASE UNCHANGED vars
  <2>1. UNCHANGED <<memories, cursor, revision, work, audited, excused>>
    BY <1>7 DEF vars, roots, history
  <2> QED
    BY <2>1 DEF IInv, Columns, CallsSound, CallSound, PassedOverOnlyIfRaced, StepSound,
                memories, Stored, Stamp, Before
<1> QED BY <1>1, <1>2, <1>3, <1>4, <1>5, <1>6, <1>7 DEF Next

\* The inductive invariant holds of every behaviour of coverage.
THEOREM CoverageInvariant == Spec => []IInv
  BY InitIInv, NextKeeps, PTL DEF Spec

\* Up to its cursor a root has audited the current version of every Memory that
\* fits a request, unless a Memory of a chunk changed while its audit was in
\* flight: apply_coverage_audit loses nothing to ties, chunks or a second worker.
THEOREM PassedOverOnlyInRaces == Spec => []PassedOverOnlyIfRaced
<1>1. IInv => PassedOverOnlyIfRaced
  BY DEF IInv
<1> QED BY <1>1, CoverageInvariant, PTL

\* No commit moves the cursor of a root back.
THEOREM CursorsOnlyAdvance == Spec => CursorsAdvance
<1>1. StepSound => [\A r \in Roots : cursor'[r] = cursor[r] \/ Before(cursor[r], cursor'[r])]_vars
  BY DEF StepSound
<1> QED BY <1>1, CoverageInvariant, NextKeeps, PTL DEF Spec, CursorsAdvance

\* Comparing the cursor, which apply_coverage_audit does, is as good as comparing
\* the revision, which it does not: an audit is committed on the entries it read.
THEOREM AuditsStayCurrent == Spec => AuditsOnCurrentEntries
<1>1. StepSound => [\A w \in Workers :
          /\ work[w].kind = "audit" /\ work'[w] # work[w]
          /\ revision'[work[w].root] # revision[work[w].root]
          => work[w].read = revision[work[w].root]]_vars
  BY DEF StepSound
<1> QED BY <1>1, CoverageInvariant, NextKeeps, PTL DEF Spec, AuditsOnCurrentEntries
-----------------------------------------------------------------------------
\* Whatever the pipeline asks for next is well-formed.
LEMMA ProceedTyped ==
    ASSUME IInv, NEW w \in Workers, NEW cur \in [Roots -> Cursors],
           NEW rev \in [Roots -> Nat], NEW fl, Proceed(w, cur, rev, fl)
    PROVE  /\ work'[w] \in Audits \/ IsPlan(work'[w])
           /\ \A v \in Workers \ {w} : work'[v] = work[v]
<1>1. CASE CallPlan(w, rev)
  <2>1. /\ work'[w] = [kind |-> "plan", expected |-> Token(rev), read |-> rev,
                       goals |-> PlanContext]
        /\ \A v \in Workers \ {w} : work'[v] = work[v]
    BY <1>1 DEF CallPlan, IInv, Columns
  <2>2. PlanContext \subseteq Goals
    BY DEF PlanContext
  <2> QED BY <2>1, <2>2 DEF IsPlan
<1>2. ASSUME NEW r \in Roots, CallAudit(w, r, cur, rev, fl)
      PROVE  work'[w] \in Audits /\ \A v \in Workers \ {w} : work'[v] = work[v]
  <2>1. PICK C \in Chunks(Backlog(r, cur)) :
            work' = [work EXCEPT ![w] =
                [kind |-> IF r \in fl THEN "overflow" ELSE "audit", root |-> r,
                 expected |-> cur[r], chunk |-> C, changed |-> {}, read |-> rev[r]]]
    BY <1>2 DEF CallAudit
  <2>2. C \subseteq Memories
    BY DEF Chunks, Backlog, Stored
  <2>3. cur[r] \in Cursors /\ rev[r] \in Nat
    OBVIOUS
  <2> QED BY <2>1, <2>2, <2>3 DEF Audits, IInv, Columns
<1> QED BY <1>1, <1>2 DEF Proceed

\* A position of a Memory is a cursor.
LEMMA StampIsCursor == IInv => \A m \in Memories : Stamp(m) \in Cursors
  BY CoverageAssumption DEF IInv, Columns, Stamp, Cursors, Memories

LEMMA WriteTyped ==
    ASSUME IInv, TypeOK, NEW new \in SUBSET Memories, NEW old \in SUBSET Memories,
           NEW to \in {"superseded", "retracted"}, Write(new, old, to)
    PROVE  TypeOK'
<1>1. clock' = clock + 1 /\ clock' \in Nat /\ Cursors \subseteq Cursors'
  BY DEF Write, TypeOK, Cursors
<1>2. updated' \in [Memories -> 0..clock']
  BY <1>1 DEF Write, Stamped, TypeOK
<1>3. status' \in [Memories -> {"none", "active", "superseded", "retracted"}]
  BY DEF Write, TypeOK
<1>4. cursor' \in [Roots -> Cursors'] /\ UNCHANGED <<revision, full, goal, failures, extra, plan>>
  BY <1>1 DEF Write, roots, TypeOK
<1>5. ASSUME NEW w \in Workers
      PROVE  work'[w] = NoWork \/ work'[w] \in Audits' \/ IsPlan(work'[w])
  <2>1. CASE work[w] \in Audits
    <3>1. /\ work'[w] = [work[w] EXCEPT !.changed = @ \cup (work[w].chunk \cap old)]
          /\ work[w].changed \cup (work[w].chunk \cap old) \in SUBSET Memories
      BY <2>1 DEF Write, Audits
    <3>2. work'[w] \in Audits
      BY <2>1, <3>1 DEF Audits
    <3> QED BY <1>1, <3>2 DEF Audits
  <2>2. CASE work[w] = NoWork
    BY <2>2 DEF Write, NoWork
  <2>3. CASE IsPlan(work[w])
    BY <2>3 DEF Write, IsPlan
  <2> QED BY <2>1, <2>2, <2>3 DEF TypeOK
<1>6. audited' \subseteq Roots \X Memories /\ excused' \subseteq Roots \X Memories
  BY DEF Write, TypeOK
<1> QED BY <1>1, <1>2, <1>3, <1>4, <1>5, <1>6 DEF TypeOK, IsPlan

LEMMA CommitTyped ==
    ASSUME IInv, TypeOK, NEW w \in Workers, CommitAudit(w)
    PROVE  TypeOK'
<1>1. UNCHANGED <<memories, goal, failures, extra>> /\ clock' = clock
  BY DEF CommitAudit, memories
<1>2. work[w] \in Audits
  <2>1. work[w].kind = "audit"
    BY DEF CommitAudit
  <2>2. work[w] = NoWork \/ work[w] \in Audits \/ work[w].kind = "plan"
    BY DEF TypeOK, IsPlan
  <2>3. NoWork.kind = "none"
    BY DEF NoWork
  <2>4. work[w] # NoWork
    BY <2>1, <2>3
  <2> QED BY <2>1, <2>2, <2>4
<1>3. /\ cursor' \in [Roots -> Cursors] /\ revision' \in [Roots -> Nat] /\ full' \subseteq Roots
      /\ audited' \subseteq Roots \X Memories /\ excused' \subseteq Roots \X Memories
      /\ plan' \in {"due", "done", "lost"}
  <2>1. CASE Unmoved(w)
    <3>1. work[w].root \in Roots /\ work[w].chunk \subseteq Memories
      BY <1>2 DEF Audits
    <3>2. cursor' \in [Roots -> Cursors]
      BY <2>1, <3>1, StampIsCursor DEF CommitAudit, TypeOK
    <3>3. revision' \in [Roots -> Nat] /\ full' \subseteq Roots
      BY <2>1, <3>1 DEF CommitAudit, TypeOK
    <3>4. audited' \subseteq Roots \X Memories
      BY <2>1, <3>1 DEF CommitAudit, TypeOK, Read
    <3>5. excused' \subseteq Roots \X Memories
      BY <2>1, <3>1 DEF CommitAudit, TypeOK, Passed, Backlog, Stored
    <3>6. plan' = "due"
      BY <2>1 DEF CommitAudit
    <3> QED BY <3>2, <3>3, <3>4, <3>5, <3>6
  <2>2. CASE ~Unmoved(w)
    BY <2>2 DEF CommitAudit, roots, history, TypeOK
  <2> QED BY <2>1, <2>2
<1>4. /\ work'[w] \in Audits \/ IsPlan(work'[w])
      /\ \A v \in Workers \ {w} : work'[v] = work[v]
  BY <1>3, ProceedTyped DEF CommitAudit
<1>5. Audits' = Audits
  BY <1>1 DEF Audits, Cursors
<1> QED BY <1>1, <1>3, <1>4, <1>5 DEF TypeOK, memories, Cursors, IsPlan

\* A step that makes one call, or ends one, and touches no Memory and no root.
LEMMA CallTyped ==
    ASSUME IInv, TypeOK, NEW w \in Workers,
           UNCHANGED <<memories, roots, audited, excused>>,
           goal' \in [Goals -> {"none", "open", "partial", "closed"}],
           failures' \in 0..MaxFailures, extra' \in 0..MaxExtra,
           plan' \in {"due", "done", "lost"},
           \/ Proceed(w, cursor, revision, full)
           \/ work' = [work EXCEPT ![w] = NoWork]
    PROVE  TypeOK'
<1>1. /\ work'[w] = NoWork \/ work'[w] \in Audits \/ IsPlan(work'[w])
      /\ \A v \in Workers \ {w} : work'[v] = work[v]
  <2>1. CASE Proceed(w, cursor, revision, full)
    BY <2>1, ProceedTyped DEF TypeOK
  <2>2. CASE work' = [work EXCEPT ![w] = NoWork]
    BY <2>2 DEF IInv, Columns
  <2> QED BY <2>1, <2>2
<1> QED BY <1>1 DEF TypeOK, memories, roots, Audits, Cursors, IsPlan

LEMMA TypesKept == IInv /\ TypeOK /\ [Next]_vars => TypeOK'
<1> SUFFICES ASSUME IInv, TypeOK, [Next]_vars PROVE TypeOK'
  OBVIOUS
<1>1. ASSUME NEW new \in SUBSET Memories, NEW old \in SUBSET Memories, Record(new, old)
      PROVE  TypeOK'
  BY <1>1, WriteTyped DEF Record
<1>2. ASSUME NEW m \in Memories, Retract(m)
      PROVE  TypeOK'
  BY <1>2, WriteTyped DEF Retract
<1>3. CASE Induct
  <2>1. /\ UNCHANGED <<memories, roots, audited, excused>> /\ Spawned \in Workers
        /\ UNCHANGED <<goal, failures, extra, plan>>
        /\ Proceed(Spawned, cursor, revision, full)
    BY <1>3, CoverageAssumption DEF Induct, history
  <2> QED BY <2>1, CallTyped DEF TypeOK
<1>4. ASSUME NEW w \in Workers, Pass(w)
      PROVE  TypeOK'
  <2>1. /\ UNCHANGED <<memories, roots, audited, excused>>
        /\ UNCHANGED <<goal, failures, plan>>
        /\ Proceed(w, cursor, revision, full)
    BY <1>4 DEF Pass, history
  <2>2. extra' \in 0..MaxExtra
    BY <1>4, CoverageAssumption DEF Pass, TypeOK
  <2> QED BY <2>1, <2>2, CallTyped DEF TypeOK
<1>5. ASSUME NEW w \in Workers, CommitAudit(w)
      PROVE  TypeOK'
  BY <1>5, CommitTyped
<1>6. ASSUME NEW w \in Workers, CommitPlan(w)
      PROVE  TypeOK'
  <2>1. /\ UNCHANGED <<memories, roots, failures, extra, audited, excused>>
        /\ work' = [work EXCEPT ![w] = NoWork]
    BY <1>6 DEF CommitPlan
  <2>2. /\ goal' \in [Goals -> {"none", "open", "partial", "closed"}]
        /\ plan' \in {"due", "done", "lost"}
    BY <1>6 DEF CommitPlan, TypeOK
  <2> QED BY <2>1, <2>2, CallTyped DEF TypeOK
<1>7. ASSUME NEW w \in Workers, Overflow(w) \/ Fail(w)
      PROVE  TypeOK'
  <2>1. /\ UNCHANGED <<memories, roots, goal, extra, audited, excused>>
        /\ work' = [work EXCEPT ![w] = NoWork]
        /\ plan' \in {"due", "done", "lost"}
    BY <1>7 DEF Overflow, Fail, history, TypeOK
  <2>2. failures' \in 0..MaxFailures
    BY <1>7, CoverageAssumption DEF Overflow, Fail, TypeOK
  <2> QED BY <2>1, <2>2, CallTyped DEF TypeOK
<1>8. CASE UNCHANGED vars
  BY <1>8 DEF vars, memories, roots, history, TypeOK, Audits, Cursors, IsPlan
<1> QED BY <1>1, <1>2, <1>3, <1>4, <1>5, <1>6, <1>7, <1>8 DEF Next

\* Type correctness of coverage: cursors are positions of the past, and the
\* token of a plan in flight is the sum of the revisions it was made from.
THEOREM CoverageTypes == Spec => []TypeOK
<1>1. Init => TypeOK
  BY CoverageAssumption DEF Init, TypeOK, NoWork, Cursors, Roots, Memories, Goals
<1> QED BY <1>1, TypesKept, CoverageInvariant, PTL DEF Spec

-----------------------------------------------------------------------------
\* The commits behind any revisions are finitely many.
LEMMA CommitsFinite ==
    ASSUME NEW f \in [Roots -> Nat] PROVE IsFiniteSet(Commits(f))
<1> DEFINE layer == [r \in Roots |-> {r} \X (1..f[r])]
           Layers == {layer[r] : r \in Roots}
<1>1. ASSUME NEW r \in Roots PROVE IsFiniteSet(layer[r])
  <2>1. IsFiniteSet({r}) /\ IsFiniteSet(1..f[r])
    <3>1. 1 \in Int /\ f[r] \in Int
      OBVIOUS
    <3> HIDE DEF layer, Layers
    <3> QED BY <3>1, FS_Singleton, FS_Interval
  <2>2. ASSUME NEW A, NEW B, IsFiniteSet(A), IsFiniteSet(B) PROVE IsFiniteSet(A \X B)
    BY <2>2, FS_Product
  <2>3. IsFiniteSet({r} \X (1..f[r]))
    BY <2>1, <2>2, Zenon
  <2> QED BY <2>3, Zenon
<1>2. IsFiniteSet(Layers)
  <2>1. IsFiniteSet(Roots)
    BY CoverageAssumption, FS_Interval DEF Roots
  <2>2. layer \in Surjection(Roots, Layers)
    <3> HIDE DEF layer
    <3>1. layer = [r \in Roots |-> layer[r]]
      BY DEF layer
    <3> QED BY <3>1 DEF Surjection
  <2> HIDE DEF layer, Layers
  <2> QED BY <2>1, <2>2, FS_Surjection
<1>3. IsFiniteSet(UNION Layers)
  <2>1. \A T \in Layers : IsFiniteSet(T)
    BY <1>1
  <2> HIDE DEF Layers
  <2> QED BY <1>2, <2>1, FS_UNION
<1>4. Commits(f) = UNION Layers
  BY DEF Commits
<1> QED BY <1>3, <1>4

\* The token tells revisions apart of which one lies behind the other: where no
\* root has gone back, an equal sum means that none has moved.
LEMMA TokenSeparates ==
    ASSUME NEW f \in [Roots -> Nat], NEW g \in [Roots -> Nat],
           \A r \in Roots : f[r] <= g[r], Token(f) = Token(g)
    PROVE  f = g
<1>1. Commits(f) \subseteq Commits(g)
  <2>1. \A r \in Roots : 1..f[r] \subseteq 1..g[r]
    OBVIOUS
  <2> QED BY <2>1 DEF Commits
<1>2. Commits(f) = Commits(g)
  BY <1>1, CommitsFinite, FS_Subset DEF Token
<1>3. ASSUME NEW r \in Roots, f[r] < g[r] PROVE FALSE
  <2>1. <<r, g[r]>> \in Commits(g)
    BY <1>3 DEF Commits
  <2>2. <<r, g[r]>> \in Commits(f)
    BY <1>2, <2>1
  <2>3. g[r] \in 1..f[r]
    BY <2>2 DEF Commits
  <2> QED BY <1>3, <2>3
<1> QED BY <1>3

\* A plan in flight was made from revisions that no root has gone back behind.
PlansBehind ==
    \A w \in Workers : work[w].kind = "plan" =>
        IsPlan(work[w]) /\ \A r \in Roots : work[w].read[r] <= revision[r]

\* The pipeline plans from the revisions it is given.
LEMMA ProceedPlans ==
    ASSUME IInv, NEW w \in Workers, NEW cur, NEW rev \in [Roots -> Nat], NEW fl,
           Proceed(w, cur, rev, fl)
    PROVE  work'[w].kind = "plan" => IsPlan(work'[w]) /\ work'[w].read = rev
<1>1. CASE work' = [work EXCEPT ![w] =
                      [kind |-> "plan", expected |-> Token(rev), read |-> rev,
                       goals |-> PlanContext]]
  BY <1>1 DEF IInv, Columns, IsPlan, PlanContext
<1>2. ASSUME NEW r \in Roots, CallAudit(w, r, cur, rev, fl)
      PROVE  work'[w].kind # "plan"
  BY <1>2 DEF CallAudit, IInv, Columns
<1> QED BY <1>1, <1>2 DEF Proceed, CallPlan

\* A step that takes no revision back and makes one call, or ends one, keeps it.
LEMMA PlansBehindKept ==
    ASSUME IInv, PlansBehind, revision' \in [Roots -> Nat],
           \A r \in Roots : revision[r] <= revision'[r],
           NEW w \in Workers,
           \/ \E cur, fl : Proceed(w, cur, revision', fl)
           \/ work' = [work EXCEPT ![w] = NoWork]
    PROVE  PlansBehind'
<1>1. \A v \in Workers \ {w} : work'[v] = work[v]
  <2>1. ASSUME NEW cur, NEW fl, Proceed(w, cur, revision', fl)
        PROVE  \A v \in Workers \ {w} : work'[v] = work[v]
    BY <2>1 DEF Proceed, CallPlan, CallAudit, IInv, Columns
  <2> QED BY <2>1 DEF IInv, Columns
<1>2. work'[w].kind = "plan" => IsPlan(work'[w]) /\ work'[w].read = revision'
  BY ProceedPlans DEF IInv, Columns, NoWork
<1>3. ASSUME NEW v \in Workers, work'[v].kind = "plan"
      PROVE  IsPlan(work'[v]) /\ \A r \in Roots : work'[v].read[r] <= revision'[r]
  <2>1. CASE v = w
    BY <2>1, <1>2, <1>3
  <2>2. CASE v # w
    <3>1. IsPlan(work[v]) /\ \A r \in Roots : work[v].read[r] <= revision[r]
      BY <2>2, <1>1, <1>3 DEF PlansBehind
    <3>2. work[v].read \in [Roots -> Nat] /\ revision \in [Roots -> Nat]
      BY <3>1 DEF IsPlan, IInv, Columns
    <3> QED BY <2>2, <1>1, <3>1, <3>2
  <2> QED BY <2>1, <2>2
<1> QED BY <1>3 DEF PlansBehind, IsPlan

\* No step makes a plan of other revisions than the present ones, and a plan
\* that changes goals finds the revisions it was made from.
LEMMA PlansKept ==
    ASSUME IInv, PlansBehind, [Next]_vars
    PROVE  /\ PlansBehind'
           /\ \A w \in Workers :
                 work[w].kind = "plan" /\ work'[w] # work[w] /\ goal' # goal
                 => work[w].read = revision
<1> DEFINE OnCurrent ==
             \A w \in Workers :
                 work[w].kind = "plan" /\ work'[w] # work[w] /\ goal' # goal
                 => work[w].read = revision
<1> HIDE DEF OnCurrent
<1>0. revision \in [Roots -> Nat]
  BY DEF IInv, Columns
<1>1. ASSUME NEW new, NEW old, NEW to, Write(new, old, to)
      PROVE  PlansBehind' /\ OnCurrent
  <2>1. UNCHANGED <<revision, goal>>
    BY <1>1 DEF Write, roots
  <2>2. ASSUME NEW w \in Workers, work'[w].kind = "plan"
        PROVE  work'[w] = work[w]
    <3>1. CASE work[w].kind \in {"audit", "overflow"}
      <4>1. IsCall(work[w])
        BY <3>1 DEF IInv, CallsSound, CallSound
      <4>2. work'[w] = [work[w] EXCEPT !.changed = @ \cup (work[w].chunk \cap old)]
        BY <1>1, <3>1 DEF Write
      <4>3. work'[w].kind = work[w].kind
        BY <4>1, <4>2 DEF IsCall
      <4> QED BY <2>2, <3>1, <4>3
    <3>2. CASE work[w].kind \notin {"audit", "overflow"}
      BY <1>1, <3>2 DEF Write
    <3> QED BY <3>1, <3>2
  <2> QED BY <2>1, <2>2 DEF PlansBehind, OnCurrent, IsPlan
<1>2. CASE Induct
  <2>1. Proceed(Spawned, cursor, revision, full) /\ UNCHANGED <<revision, goal>>
    BY <1>2 DEF Induct, roots
  <2> QED BY <1>0, <2>1, CoverageAssumption, PlansBehindKept DEF OnCurrent
<1>3. ASSUME NEW w \in Workers, Pass(w)
      PROVE  PlansBehind' /\ OnCurrent
  <2>1. Proceed(w, cursor, revision, full) /\ UNCHANGED <<revision, goal>>
    BY <1>3 DEF Pass, roots
  <2> QED BY <1>0, <2>1, PlansBehindKept DEF OnCurrent
<1>4. ASSUME NEW w \in Workers, CommitAudit(w)
      PROVE  PlansBehind' /\ OnCurrent
  <2>1. Proceed(w, cursor', revision', full') /\ UNCHANGED goal
    BY <1>4 DEF CommitAudit
  <2>2. revision' = revision \/ revision' = [revision EXCEPT ![work[w].root] = @ + 1]
    BY <1>4 DEF CommitAudit, roots
  <2>3. revision' \in [Roots -> Nat] /\ \A r \in Roots : revision[r] <= revision'[r]
    BY <1>0, <2>2
  <2> QED BY <2>1, <2>3, PlansBehindKept DEF OnCurrent
<1>5. ASSUME NEW w \in Workers, CommitPlan(w)
      PROVE  PlansBehind' /\ OnCurrent
  <2>1. work' = [work EXCEPT ![w] = NoWork] /\ UNCHANGED revision
    BY <1>5 DEF CommitPlan, roots
  <2>2. PlansBehind'
    <3>1. revision' \in [Roots -> Nat] /\ \A r \in Roots : revision[r] <= revision'[r]
      BY <1>0, <2>1
    <3> QED BY <2>1, <3>1, PlansBehindKept
  <2>3. ASSUME goal' # goal PROVE work[w].read = revision
    <3>1. Token(revision) = work[w].expected /\ work[w].kind = "plan"
      BY <1>5, <2>3 DEF CommitPlan
    <3>2. /\ IsPlan(work[w])
          /\ \A r \in Roots : work[w].read[r] <= revision[r]
      BY <3>1 DEF PlansBehind
    <3>3. work[w].read \in [Roots -> Nat] /\ work[w].expected = Token(work[w].read)
      BY <3>2 DEF IsPlan
    <3> QED BY <1>0, <3>1, <3>2, <3>3, TokenSeparates
  <2>4. \A v \in Workers \ {w} : work'[v] = work[v]
    BY <2>1 DEF IInv, Columns
  <2> QED BY <2>2, <2>3, <2>4 DEF OnCurrent
<1>6. ASSUME NEW w \in Workers, Overflow(w) \/ Fail(w)
      PROVE  PlansBehind' /\ OnCurrent
  <2>1. work' = [work EXCEPT ![w] = NoWork] /\ UNCHANGED <<revision, goal>>
    BY <1>6 DEF Overflow, Fail, roots
  <2>2. revision' \in [Roots -> Nat] /\ \A r \in Roots : revision[r] <= revision'[r]
    BY <1>0, <2>1
  <2>3. PlansBehind'
    BY <2>1, <2>2, PlansBehindKept
  <2> QED BY <2>1, <2>3 DEF OnCurrent
<1>7. CASE UNCHANGED vars
  BY <1>7 DEF vars, roots, PlansBehind, OnCurrent, IsPlan
<1> QED BY <1>1, <1>2, <1>3, <1>4, <1>5, <1>6, <1>7 DEF Next, Record, Retract, OnCurrent

\* Goals change only by a plan that was made from the entries every root has
\* now: revisions never go back, so that their sum, which is all the commit
\* compares, tells whether any of them has moved.
THEOREM PlansStayCurrent == Spec => PlansOnCurrentEntries
<1>1. Init => PlansBehind
  BY DEF Init, PlansBehind, NoWork
<1>2. IInv /\ PlansBehind /\ [Next]_vars => PlansBehind'
  BY PlansKept
<1>3. IInv /\ PlansBehind /\ [Next]_vars =>
        [\A w \in Workers :
              work[w].kind = "plan" /\ work'[w] # work[w] /\ goal' # goal
              => work[w].read = revision]_vars
  BY PlansKept
<1> QED BY <1>1, <1>2, <1>3, CoverageInvariant, PTL DEF Spec, PlansOnCurrentEntries
=============================================================================
