----------------------------- MODULE Coverage -----------------------------
(***************************************************************************)
(* Coverage and learning goals of one space: every coverage root reads the *)
(* Memories in the order of (updated_at, id) behind a cursor of its own,   *)
(* chunk by chunk, and when no root is behind the learning goals are       *)
(* planned from what the roots now say.  (store/_coverage.py,              *)
(* reasoners/coverage.py, learning_goals.py, base.py, reasoning.py,        *)
(* chunking.py, world.py, store/_memories.py, store/_messages.py.)         *)
(*                                                                         *)
(* A step is one synchronous stretch of the event loop: a write of         *)
(* Memories, or the pipeline from the answer of one model call to the      *)
(* request of the next.  A write stamps what it changes with a clock that  *)
(* moves at every write, so the Memories of one write share their stamp    *)
(* and differ by id only.  What an entry says is left out: the revision of *)
(* its root stands for the entries of that root.                           *)
(***************************************************************************)
EXTENDS Naturals, FiniteSets, FiniteSetsExt

CONSTANTS
    NumRoots,       \* coverage roots, in their declared order
    Workers,        \* who may run the pipeline: the spawned task, an import
    Spawned,        \* the one of them that _spawn deduplicates
    NumGoals,       \* bound: learning goals created in a behaviour
    NumMemories,    \* bound: Memories recorded in a behaviour
    Long,           \* input: Memories whose text exceeds one request
    MaxWrites,      \* bound: writes to memories
    MaxFailures,    \* bound: calls that fail, or that a stop cuts short
    MaxFull,        \* bound: roots whose entries outgrow a request
    MaxExtra        \* bound: runs of the pipeline for another reason than coverage

Roots    == 1..NumRoots
Memories == 1..NumMemories
Goals    == 1..NumGoals

ASSUME CoverageAssumption ==
    /\ {NumRoots, NumGoals, NumMemories, MaxWrites, MaxFailures, MaxFull, MaxExtra} \subseteq Nat
    /\ Spawned \in Workers
    /\ Long \subseteq Memories

VARIABLES
    clock,      \* time of the last write to memories
    status,     \* status of each Memory
    updated,    \* updated_at of each Memory; 0: no such Memory
    cursor,     \* (source_watermark, source_cursor_id) of each root; <<0, 0>>: NULL
    revision,   \* revision of each root
    full,       \* roots whose entries alone no longer fit one request
    goal,       \* status of each learning goal; "none": not created
    work,       \* the call each worker has in flight
    failures,   \* calls that have failed
    extra,      \* runs of the pipeline not asked for by coverage
    audited,    \* history: <<root, m>> when the current version of m was audited
    excused,    \* history: <<root, m>> passed over after a chunk changed in flight
    plan        \* history: is a plan "due" on the newest entries, "done" or "lost"

memories == <<clock, status, updated>>
roots    == <<cursor, revision, full>>
history  == <<audited, excused, plan>>
vars     == <<memories, roots, goal, work, failures, extra, history>>

NoWork == [kind |-> "none"]

Init ==
    /\ clock = 0
    /\ status = [m \in Memories |-> "none"]
    /\ updated = [m \in Memories |-> 0]
    /\ cursor = [r \in Roots |-> <<0, 0>>]
    /\ revision = [r \in Roots |-> 0]
    /\ full = {}
    /\ goal = [g \in Goals |-> "none"]
    /\ work = [w \in Workers |-> NoWork]
    /\ failures = 0 /\ extra = 0
    /\ audited = {} /\ excused = {} /\ plan = "done"

-----------------------------------------------------------------------------
Stored == {m \in Memories : status[m] # "none"}

\* The order of the audit: by updated_at, then by id.
Before(s, t) == s[1] < t[1] \/ (s[1] = t[1] /\ s[2] < t[2])

Stamp(m) == <<updated[m], m>>

\* Seeded fault of Backlog: a cursor that is a timestamp only.
BacklogByTime(r, cur) == {m \in Stored : cur[r][1] < updated[m]}

\* The Memories behind the cursor of root r.
Backlog(r, cur) == {m \in Stored : Before(cur[r], Stamp(m))}

\* Seeded fault of Stale: the scan compares timestamps only.
StaleByTime == \E r \in Roots, m \in Stored : cursor[r][1] < updated[m]

\* stale_coverage_spaces finds the space.
Stale == \E r \in Roots, m \in Stored : Before(cursor[r], Stamp(m))

\* What greedy_chunks may put first out of the backlog B: Memories from its
\* start up to the first long one, or a piece of a long one at the start.
Chunks(B) ==
    {C \in SUBSET B :
        /\ C # {}
        /\ \A m \in C, n \in B \ C : Before(Stamp(m), Stamp(n))
        /\ C \cap Long # {} => Cardinality(C) = 1}

\* Seeded fault of Token: the newest revision stands for all.
TokenMax(rev) == Max({rev[r] : r \in Roots})

\* The commits that have brought the roots to these revisions.
Commits(rev) == UNION {{r} \X (1..rev[r]) : r \in Roots}

\* _coverage_revision: the token a plan is committed against, the sum of the
\* revisions, which is the number of these commits.
Token(rev) == Cardinality(Commits(rev))

-----------------------------------------------------------------------------
\* learning_goal_context: the open goals and the twenty closed ones changed last,
\* which are all goals within the bound.
PlanContext == {g \in Goals : goal[g] # "none"}

\* Seeded fault of CallPlan: no plan follows when every root has caught up.
CallPlanNever(w, rev) == work' = [work EXCEPT ![w] = NoWork]

\* The calls of a plan, root by root and one to reconcile.
CallPlan(w, rev) ==
    work' = [work EXCEPT ![w] =
        [kind |-> "plan", expected |-> Token(rev), read |-> rev,
         goals |-> PlanContext]]

\* The audit of a chunk of root r; a root whose entries fill the request ends in
\* an error after one more await.
CallAudit(w, r, cur, rev, fl) ==
    \E C \in Chunks(Backlog(r, cur)) :
        work' = [work EXCEPT ![w] =
            [kind |-> IF r \in fl THEN "overflow" ELSE "audit", root |-> r,
             expected |-> cur[r], chunk |-> C, changed |-> {}, read |-> rev[r]]]

\* The pipeline up to its next call: the first root that is behind, or the plan.
Proceed(w, cur, rev, fl) ==
    LET behind == {r \in Roots : Backlog(r, cur) # {}}
    IN  IF behind = {}
        THEN CallPlan(w, rev)
        ELSE \E r \in behind :
                /\ \A q \in behind : r <= q
                /\ CallAudit(w, r, cur, rev, fl)

\* Seeded fault of Stamped: the stamp is not the time of the write.
StampedAhead(changed) ==
    [m \in Memories |-> IF m \in changed THEN clock + 2 ELSE updated[m]]

Stamped(changed) ==
    [m \in Memories |-> IF m \in changed THEN clock + 1 ELSE updated[m]]

\* One write records the Memories in new and changes those in old, with one stamp.
Write(new, old, to) ==
    /\ clock < MaxWrites
    /\ clock' = clock + 1
    /\ status' = [m \in Memories |->
                    IF m \in new THEN "active" ELSE IF m \in old THEN to ELSE status[m]]
    /\ updated' = Stamped(new \cup old)
    /\ work' = [w \in Workers |->
                  IF work[w].kind \in {"audit", "overflow"}
                  THEN [work[w] EXCEPT !.changed = @ \cup (work[w].chunk \cap old)]
                  ELSE work[w]]
    /\ audited' = {p \in audited : p[2] \notin old}
    /\ excused' = {p \in excused : p[2] \notin old}
    /\ UNCHANGED <<roots, goal, failures, extra, plan>>

\* add_manual_memory, supersede_memory and the commit of an extraction: new
\* Memories, of which each supersedes at most one.  Ids are random.
Record(new, old) ==
    /\ new # {} /\ new \cap Stored = {}
    /\ \A m \in old : status[m] = "active"
    /\ Cardinality(old) <= Cardinality(new)
    /\ Write(new, old, "superseded")

\* retract_memory.
Retract(m) ==
    /\ status[m] \in {"active", "superseded"}
    /\ Write({}, {m}, "retracted")

\* The pipeline is scheduled for what coverage lacks, at start-up or by the
\* daily induction.
Induct ==
    /\ work[Spawned] = NoWork
    /\ Stale
    /\ Proceed(Spawned, cursor, revision, full)
    /\ UNCHANGED <<memories, roots, goal, failures, extra, history>>

\* The pipeline reaches coverage although it was scheduled for a card, or is
\* run by an import.
Pass(w) ==
    /\ work[w] = NoWork
    /\ extra < MaxExtra
    /\ extra' = extra + 1
    /\ Proceed(w, cursor, revision, full)
    /\ UNCHANGED <<memories, roots, goal, failures, history>>

\* Seeded fault of Unmoved: no compare-and-set.
UnmovedBlind(w) == TRUE

\* Seeded fault of Unmoved: only the timestamps of the cursors are compared.
UnmovedTime(w) == cursor[work[w].root][1] = work[w].expected[1]

\* The compare-and-set of apply_coverage_audit: the cursor is as it was read.
Unmoved(w) == cursor[work[w].root] = work[w].expected

\* The Memories of the chunk that were read in full and have not changed since.
Read(w) == (work[w].chunk \ work[w].changed) \ Long

\* What root r leaves behind when its cursor moves to the position to[r].
Passed(r, to) == Backlog(r, cursor) \ Backlog(r, to)

\* The answer of an audit: the cursor moves to the last Memory of the chunk by
\* the stamps the Memories have now, the entries change, and the pipeline goes
\* on; after a lost race it reads the root again.
CommitAudit(w) ==
    LET r == work[w].root
        chunk == work[w].chunk
    IN  /\ work[w].kind = "audit"
        /\ IF Unmoved(w)
           THEN /\ \E last \in chunk :
                      /\ \A m \in chunk \ {last} : Before(Stamp(m), Stamp(last))
                      /\ cursor' = [cursor EXCEPT ![r] = Stamp(last)]
                /\ revision' = [revision EXCEPT ![r] = @ + 1]
                /\ \/ full' = full
                   \/ /\ Cardinality(full) < MaxFull
                      /\ full' = full \cup {r}
                /\ audited' = audited \cup {<<r, m>> : m \in Read(w)}
                /\ excused' = IF work[w].changed = {} THEN excused
                              ELSE excused \cup {<<r, m>> : m \in Passed(r, cursor') \ Read(w)}
                /\ plan' = "due"
           ELSE UNCHANGED <<roots, history>>
        /\ Proceed(w, cursor', revision', full')
        /\ UNCHANGED <<memories, goal, failures, extra>>

\* The answer of a planning pass: at most one new goal, and at most one of the
\* goals that were read moved.  A refused plan is dropped; nobody is told.
CommitPlan(w) ==
    /\ work[w].kind = "plan"
    /\ IF Token(revision) = work[w].expected
       THEN /\ \E add \in SUBSET {g \in Goals : goal[g] = "none"},
                  move \in SUBSET work[w].goals,
                  to \in {"open", "partial", "closed"} :
                  /\ Cardinality(add) <= 1 /\ Cardinality(move) <= 1
                  /\ goal' = [g \in Goals |-> IF g \in add THEN "open"
                                              ELSE IF g \in move THEN to ELSE goal[g]]
            /\ plan' = "done"
       ELSE UNCHANGED <<goal, plan>>
    /\ work' = [work EXCEPT ![w] = NoWork]
    /\ UNCHANGED <<memories, roots, failures, extra, audited, excused>>

\* A root whose entries no longer fit raises, which ends the run of the pipeline.
Overflow(w) ==
    /\ work[w].kind = "overflow"
    /\ work' = [work EXCEPT ![w] = NoWork]
    /\ UNCHANGED <<memories, roots, goal, failures, extra, history>>

\* A call that fails ends the whole run of the pipeline, and so does a stop.
Fail(w) ==
    /\ work[w].kind \in {"audit", "plan"}
    /\ failures < MaxFailures
    /\ failures' = failures + 1
    /\ work' = [work EXCEPT ![w] = NoWork]
    /\ plan' = IF work[w].kind = "plan" /\ plan = "due" THEN "lost" ELSE plan
    /\ UNCHANGED <<memories, roots, goal, extra, audited, excused>>

Next ==
    \/ \E new, old \in SUBSET Memories : Record(new, old)
    \/ \E m \in Memories : Retract(m)
    \/ Induct
    \/ \E w \in Workers :
          \/ Pass(w)
          \/ CommitAudit(w)
          \/ CommitPlan(w)
          \/ Overflow(w)
          \/ Fail(w)

(***************************************************************************)
(* The induction timer fires every day and a call is answered or fails.    *)
(* Nobody has to write a Memory or to import.                              *)
(***************************************************************************)
Spec ==
    /\ Init /\ [][Next]_vars
    /\ WF_vars(Induct)
    /\ \A w \in Workers :
          WF_vars(CommitAudit(w) \/ CommitPlan(w) \/ Overflow(w) \/ Fail(w))

-----------------------------------------------------------------------------
Cursors == (0..clock) \X (0..NumMemories)

Audits == [kind : {"audit", "overflow"}, root : Roots, expected : Cursors,
           chunk : SUBSET Memories, changed : SUBSET Memories, read : Nat]

\* A plan carries the sum of the revisions it was made from, and not another.
IsPlan(c) ==
    /\ c.kind = "plan"
    /\ c.read \in [Roots -> Nat] /\ c.goals \subseteq Goals
    /\ c = [kind |-> "plan", expected |-> Token(c.read), read |-> c.read, goals |-> c.goals]

\* Types of the variables.
TypeOK ==
    /\ clock \in Nat
    /\ status \in [Memories -> {"none", "active", "superseded", "retracted"}]
    /\ updated \in [Memories -> 0..clock]
    /\ cursor \in [Roots -> Cursors]
    /\ revision \in [Roots -> Nat]
    /\ full \subseteq Roots
    /\ goal \in [Goals -> {"none", "open", "partial", "closed"}]
    /\ \A w \in Workers : work[w] = NoWork \/ work[w] \in Audits \/ IsPlan(work[w])
    /\ failures \in 0..MaxFailures /\ extra \in 0..MaxExtra
    /\ audited \subseteq Roots \X Memories /\ excused \subseteq Roots \X Memories
    /\ plan \in {"due", "done", "lost"}

\* Behind a root's cursor the audit of that root has read the current version of
\* every Memory, however the backlog was cut into chunks, whoever committed them
\* and whichever Memories share a stamp; the one exception are those passed over
\* by a chunk of which a Memory changed while its audit was in flight (and a
\* Memory too long for one request, of which the audit reads the first piece).
PassedOverOnlyIfRaced ==
    \A r \in Roots, m \in Stored \ Long :
        ~Before(cursor[r], Stamp(m)) => <<r, m>> \in audited \cup excused

\* What data_schema.md says of the cursor: neither Memories of one timestamp nor
\* a retraction or replacement is missed by the audit.
NothingPassedOver ==
    \A r \in Roots, m \in Stored :
        ~Before(cursor[r], Stamp(m)) => <<r, m>> \in audited

\* A cursor never goes back, although two workers may audit the same root from
\* the same position and the commit takes the position from stamps that have
\* changed since.
CursorsAdvance ==
    [][\A r \in Roots : cursor'[r] = cursor[r] \/ Before(cursor[r], cursor'[r])]_vars

\* An audit is committed over the entries it was written for: that the cursor is
\* unmoved implies that nobody has committed this root since it was read, which
\* is why no revision needs to be compared.
AuditsOnCurrentEntries ==
    [][\A w \in Workers :
          /\ work[w].kind = "audit" /\ work'[w] # work[w]
          /\ revision'[work[w].root] # revision[work[w].root]
          => work[w].read = revision[work[w].root]]_vars

\* Goals change only by a plan made from the entries every root has now: the sum
\* of the revisions tells whether any of them moved.
PlansOnCurrentEntries ==
    [][\A w \in Workers :
          work[w].kind = "plan" /\ work'[w] # work[w] /\ goal' # goal
          => work[w].read = revision]_vars

\* Every root catches up in the end, once people stop writing (the bounds), as
\* long as no root's entries outgrow a request: a failed call leaves a space
\* that the scan finds again.
AuditedEventually == []<>(full # {} \/ \A r \in Roots : Backlog(r, cursor) = {})

\* The goals follow the newest entries in the end, although a plan that lost its
\* race is dropped in silence: whoever changed the entries meanwhile plans too.
\* The exception is a planning call that fails, after which nothing is stale.
PlannedUnlessLost == []<>(full # {} \/ plan # "due")

\* What design.md says of a failing audit: it holds up its own root only, so the
\* roots whose entries fit are caught up again and again.
RootsFailAlone ==
    \A r \in Roots : []<>(r \in full \/ Backlog(r, cursor) = {})
=============================================================================
