------------------------- MODULE ExtractionPipeline -------------------------
(***************************************************************************)
(* The intake and extraction pipeline of one space: messages are recorded, *)
(* cut into batches (when a batch is full, when the partial-flush timer    *)
(* fires, at start-up or by an import), and extracted batch by batch by a  *)
(* worker that retries failed batches a bounded number of times.           *)
(* (world.py, reasoners/extraction.py, reasoners/base.py,                  *)
(* store/_messages.py, cli.py.)                                            *)
(*                                                                         *)
(* The process is one asyncio event loop over a SQLite file: a step of the *)
(* model is one synchronous stretch of one task, and every store call is a *)
(* transaction inside such a stretch.  recorded, grouped, batchOf, state   *)
(* and attempts are the durable columns; a crash or an exit loses the rest *)
(* (mode to more).  The clock that stamps ingested_at does not go back, so *)
(* messages are numbered in the order of ingestion.                        *)
(***************************************************************************)
EXTENDS Naturals, FiniteSets

CONSTANTS
    MaxMessages,   \* bound: messages recorded in a behaviour
    BatchSize,     \* extraction_batch_size
    MaxAttempts,   \* MAX_EXTRACTION_ATTEMPTS
    MaxHalts       \* bound: stops and crashes of a server or an import

ASSUME PipelineAssumption ==
    /\ MaxMessages \in Nat
    /\ BatchSize \in Nat \ {0}
    /\ MaxAttempts \in Nat \ {0}
    /\ MaxHalts \in Nat

Messages == 1..MaxMessages

\* The task _schedule_extraction spawns (one per space, _scheduled holds its
\* key), and the extraction an import drives itself.
Workers == {"spawned", "import"}

VARIABLES
    recorded,   \* rows of messages: 1..recorded, in the order of ingested_at
    grouped,    \* messages 1..grouped have an extraction_batch_id
    batchOf,    \* extraction_batch_id, named by the batch's first message; 0: NULL
    state,      \* extraction_state of each message
    attempts,   \* extraction_attempts of each message
    mode,       \* "down", "serve" or "import"
    stopping,   \* _stopping
    intake,     \* the intake task is scheduled and has not run
    timer,      \* the partial-flush task in _flush_tasks is alive
    orphans,    \* partial-flush tasks alive that _flush_tasks does not hold
    phase,      \* where each extraction worker is, see Phases
    unit,       \* the batch it has loaded
    more,       \* more_batches, as computed when the batch was loaded
    halts,      \* stops and crashes so far
    failures,   \* history: fail_extraction calls recorded on each batch
    killed,     \* history: calls on each batch cut short by a crash
    applied     \* history: results committed for each batch

durable == <<recorded, grouped, batchOf, state, attempts>>
tasks   == <<intake, timer, orphans, phase, unit, more>>
history == <<failures, killed, applied>>
vars    == <<durable, mode, stopping, tasks, halts, history>>

(***************************************************************************)
(* idle     not running                                                    *)
(* ready    spawned, its first step has not run                            *)
(* loaded   the batch and its context are read, the query is being embedded*)
(* calling  the attempt is marked, the model call is in flight             *)
(***************************************************************************)
Phases == {"idle", "ready", "loaded", "calling"}

Init ==
    /\ recorded = 0 /\ grouped = 0
    /\ batchOf = [m \in Messages |-> 0]
    /\ state = [m \in Messages |-> "pending"]
    /\ attempts = [m \in Messages |-> 0]
    /\ mode = "down" /\ stopping = FALSE
    /\ intake = FALSE /\ timer = FALSE /\ orphans = 0
    /\ phase = [w \in Workers |-> "idle"]
    /\ unit = [w \in Workers |-> 0]
    /\ more = [w \in Workers |-> FALSE]
    /\ halts = 0
    /\ failures = [m \in Messages |-> 0]
    /\ killed = [m \in Messages |-> 0]
    /\ applied = [m \in Messages |-> 0]

-----------------------------------------------------------------------------
\* Seeded fault of GroupUpTo: runs aligned to the first message of all, not to
\* the first message without a batch.
GroupAligned(hi) ==
    /\ grouped' = hi
    /\ batchOf' = [m \in Messages |->
                     IF grouped < m /\ m <= hi
                     THEN m - ((m - 1) % BatchSize)
                     ELSE batchOf[m]]

\* create_extraction_batch, called in a loop on the oldest unbatched messages
\* up to message hi: runs of BatchSize, the last one possibly shorter.
GroupUpTo(hi) ==
    /\ grouped' = hi
    /\ batchOf' = [m \in Messages |->
                     IF grouped < m /\ m <= hi
                     THEN m - ((m - grouped - 1) % BatchSize)
                     ELSE batchOf[m]]

\* How far the full batches of _drain_extraction_batches reach.
FullUpTo == recorded - ((recorded - grouped) % BatchSize)

\* Seeded fault of FlushUpTo: a full batch is cut whatever there is.
FlushOverrun == grouped + BatchSize

\* How far a partial flush reaches: its first batch takes what there is.
FlushUpTo == IF recorded - grouped <= BatchSize THEN recorded ELSE FullUpTo

\* _spawn of the extraction worker if a batch was created: refused while
\* stopping, ignored while the worker runs.
ScheduleExtraction(needed) ==
    phase' = [phase EXCEPT !["spawned"] =
                IF needed /\ ~stopping /\ @ = "idle" THEN "ready" ELSE @]

\* Seeded fault of TimerAfterDrain: only a drain that has cut a batch arms it.
TimerIfFull(armed, hi) ==
    IF hi < recorded THEN armed \/ (~stopping /\ hi > grouped) ELSE FALSE

\* The end of a drain that has grouped up to hi, with the timer as armed:
\* a remainder arms the timer (not while stopping), no remainder cancels it.
TimerAfterDrain(armed, hi) ==
    IF hi < recorded THEN armed \/ ~stopping ELSE FALSE

-----------------------------------------------------------------------------
\* The row pending_extractions yields first among messages m and n.
Precedes(at, m, n) == at[m] < at[n] \/ (at[m] = at[n] /\ m <= n)

\* Seeded fault of PendingRows: completed rows are listed again.
AllRows(bo, st) == {m \in Messages : bo[m] # 0}

\* pending_extractions: the rows that are not completed and have a batch, and
\* among them the first of each batch, which settles its attempts and state.
PendingRows(bo, st) == {m \in Messages : bo[m] # 0 /\ st[m] # "completed"}

Leads(bo, st, at) ==
    {m \in PendingRows(bo, st) :
        \A n \in PendingRows(bo, st) : bo[n] = bo[m] => Precedes(at, m, n)}

\* _is_exhausted.
IsExhausted(st, at, m) == st[m] = "failed" /\ at[m] >= MaxAttempts

Eligible(bo, st, at) == {m \in Leads(bo, st, at) : ~IsExhausted(st, at, m)}

\* The head of _attempt: load the neediest eligible batch, or end the worker.
LoadUnit(w, bo, st, at) ==
    \/ /\ Eligible(bo, st, at) = {}
       /\ phase' = [phase EXCEPT ![w] = "idle"]
       /\ UNCHANGED <<unit, more>>
    \/ \E m \in Eligible(bo, st, at) :
          /\ \A n \in Eligible(bo, st, at) : Precedes(at, m, n)
          /\ phase' = [phase EXCEPT ![w] = "loaded"]
          /\ unit' = [unit EXCEPT ![w] = bo[m]]
          /\ more' = [more EXCEPT ![w] = Eligible(bo, st, at) # {m}]

\* The turn of the catch-up loop after a unit, on the states and attempts the
\* unit has left: should_continue, then the next unit.
NextUnit(w, st) ==
    IF more[w] /\ ~stopping
    THEN LoadUnit(w, batchOf, st, attempts)
    ELSE /\ phase' = [phase EXCEPT ![w] = "idle"]
         /\ UNCHANGED <<unit, more>>

-----------------------------------------------------------------------------
\* A turn: k messages are recorded (0 when all are duplicates) and the intake
\* task is spawned, or told to look again if it has not run yet.
Turn(k) ==
    /\ mode = "serve" /\ ~stopping
    /\ recorded + k <= MaxMessages
    /\ recorded' = recorded + k
    /\ intake' = TRUE
    /\ UNCHANGED <<grouped, batchOf, state, attempts, mode, stopping, timer,
                   orphans, phase, unit, more, halts, history>>

\* _intake_loop: it never suspends, so it runs once; it drains.
Intake ==
    /\ intake
    /\ intake' = FALSE
    /\ GroupUpTo(FullUpTo)
    /\ ScheduleExtraction(FullUpTo > grouped)
    /\ timer' = TimerAfterDrain(timer, FullUpTo)
    /\ UNCHANGED <<recorded, state, attempts, mode, stopping, orphans, unit,
                   more, halts, history>>

\* flush() up to its finally clause, which runs in the same stretch: the entry
\* of _flush_tasks is dropped before and after the drain, whoever owns it, so
\* a timer it arms lives on without an entry, and so does one it finds.
Flush(orphan) ==
    /\ IF orphan THEN orphans > 0 ELSE timer
    /\ GroupUpTo(FlushUpTo)
    /\ ScheduleExtraction(FlushUpTo > grouped)
    /\ timer' = FALSE
    /\ orphans' = (IF orphan THEN orphans - 1 + (IF timer THEN 1 ELSE 0) ELSE orphans)
                  + (IF TimerAfterDrain(FALSE, FlushUpTo) THEN 1 ELSE 0)
    /\ UNCHANGED <<recorded, state, attempts, mode, stopping, intake, unit,
                   more, halts, history>>

-----------------------------------------------------------------------------
\* The first step of the spawned worker.
Begin ==
    /\ phase["spawned"] = "ready"
    /\ IF stopping
       THEN /\ phase' = [phase EXCEPT !["spawned"] = "idle"]
            /\ UNCHANGED <<unit, more>>
       ELSE LoadUnit("spawned", batchOf, state, attempts)
    /\ UNCHANGED <<durable, mode, stopping, intake, timer, orphans, halts, history>>

\* Seeded fault of OpenRows: an update that reaches the first row only.
FirstOpenRow(w) == {m \in Messages : m = unit[w] /\ state[m] # "completed"}

\* The messages of worker w's batch that are not completed.
OpenRows(w) == {m \in Messages : batchOf[m] = unit[w] /\ state[m] # "completed"}

\* Seeded fault of Mark: the attempt at a batch that has failed is not counted.
MarkPendingOnly(w) ==
    /\ phase[w] = "loaded"
    /\ state' = [m \in Messages |-> IF m \in OpenRows(w) THEN "pending" ELSE state[m]]
    /\ attempts' = [m \in Messages |->
                      IF m \in OpenRows(w) /\ state[m] = "pending"
                      THEN attempts[m] + 1 ELSE attempts[m]]
    /\ phase' = [phase EXCEPT ![w] = "calling"]
    /\ UNCHANGED <<recorded, grouped, batchOf, mode, stopping, intake, timer,
                   orphans, unit, more, halts, history>>

\* The query is embedded: mark_extraction_attempt, then the model call.
Mark(w) ==
    /\ phase[w] = "loaded"
    /\ state' = [m \in Messages |-> IF m \in OpenRows(w) THEN "pending" ELSE state[m]]
    /\ attempts' = [m \in Messages |->
                      IF m \in OpenRows(w) THEN attempts[m] + 1 ELSE attempts[m]]
    /\ phase' = [phase EXCEPT ![w] = "calling"]
    /\ UNCHANGED <<recorded, grouped, batchOf, mode, stopping, intake, timer,
                   orphans, unit, more, halts, history>>

\* Seeded fault of Apply: a batch completed meanwhile is committed again.
ApplyAgain(w) ==
    /\ phase[w] = "calling"
    /\ state' = [m \in Messages |-> IF batchOf[m] = unit[w] THEN "completed" ELSE state[m]]
    /\ applied' = [applied EXCEPT ![unit[w]] = @ + 1]
    /\ NextUnit(w, state')
    /\ UNCHANGED <<recorded, grouped, batchOf, attempts, mode, stopping, intake,
                   timer, orphans, halts, failures, killed>>

\* A valid answer: apply_extraction returns early on a completed batch.
Apply(w) ==
    /\ phase[w] = "calling"
    /\ state' = IF OpenRows(w) # {}
                THEN [m \in Messages |-> IF batchOf[m] = unit[w] THEN "completed" ELSE state[m]]
                ELSE state
    /\ applied' = IF OpenRows(w) # {} THEN [applied EXCEPT ![unit[w]] = @ + 1] ELSE applied
    /\ NextUnit(w, state')
    /\ UNCHANGED <<recorded, grouped, batchOf, attempts, mode, stopping, intake,
                   timer, orphans, halts, failures, killed>>

\* The call, the validation of its answer or the commit fails: fail_extraction.
Fail(w) ==
    /\ phase[w] = "calling"
    /\ state' = [m \in Messages |-> IF m \in OpenRows(w) THEN "failed" ELSE state[m]]
    /\ failures' = IF OpenRows(w) # {} THEN [failures EXCEPT ![unit[w]] = @ + 1] ELSE failures
    /\ NextUnit(w, state')
    /\ UNCHANGED <<recorded, grouped, batchOf, attempts, mode, stopping, intake,
                   timer, orphans, halts, killed, applied>>

-----------------------------------------------------------------------------
\* start() of a server: extraction is scheduled if any batch is not completed,
\* the messages without a batch are drained.
StartServe ==
    /\ mode = "down"
    /\ mode' = "serve"
    /\ GroupUpTo(FullUpTo)
    /\ ScheduleExtraction(PendingRows(batchOf, state) # {} \/ FullUpTo > grouped)
    /\ timer' = TimerAfterDrain(FALSE, FullUpTo)
    /\ UNCHANGED <<recorded, state, attempts, stopping, intake, orphans, unit,
                   more, halts, history>>

\* gossipmemo import: start(), then import_messages up to its first suspension:
\* k messages are recorded, everything is grouped, and extraction is driven
\* from here, next to the worker start() may have spawned.
StartImport(k) ==
    LET started == [phase EXCEPT !["spawned"] =
                      IF PendingRows(batchOf, state) # {} \/ FullUpTo > grouped
                      THEN "ready" ELSE "idle"]
    IN  /\ mode = "down"
        /\ mode' = "import"
        /\ recorded + k <= MaxMessages
        /\ recorded' = recorded + k
        /\ GroupUpTo(recorded + k)
        /\ timer' = TimerAfterDrain(FALSE, FullUpTo)
        /\ \/ /\ Eligible(batchOf', state, attempts) = {}
              /\ phase' = started
              /\ UNCHANGED <<unit, more>>
           \/ \E m \in Eligible(batchOf', state, attempts) :
                 /\ \A n \in Eligible(batchOf', state, attempts) : Precedes(attempts, m, n)
                 /\ phase' = [started EXCEPT !["import"] = "loaded"]
                 /\ unit' = [unit EXCEPT !["import"] = batchOf'[m]]
                 /\ more' = [more EXCEPT !["import"] = Eligible(batchOf', state, attempts) # {m}]
        /\ UNCHANGED <<state, attempts, stopping, intake, orphans, halts, history>>

\* stop() up to its first suspension: nothing is spawned or armed any more.
Stop ==
    /\ ~stopping
    /\ \/ mode = "serve" /\ halts < MaxHalts /\ halts' = halts + 1
       \/ mode = "import" /\ phase["import"] = "idle" /\ UNCHANGED halts
    /\ stopping' = TRUE
    /\ UNCHANGED <<durable, mode, tasks, history>>

\* stop(), past the induction task: the timer in _flush_tasks is cancelled.
CancelTimer ==
    /\ stopping
    /\ timer
    /\ timer' = FALSE
    /\ UNCHANGED <<durable, mode, stopping, intake, orphans, phase, unit, more,
                   halts, history>>

\* Everything the process has in memory is gone.
Forget ==
    /\ mode' = "down" /\ stopping' = FALSE
    /\ intake' = FALSE /\ timer' = FALSE /\ orphans' = 0
    /\ phase' = [w \in Workers |-> "idle"]
    /\ unit' = [w \in Workers |-> 0]
    /\ more' = [w \in Workers |-> FALSE]

\* The tasks stop() waits for have ended.
Exit ==
    /\ mode # "down" /\ stopping
    /\ ~intake /\ ~timer
    /\ \A w \in Workers : phase[w] = "idle"
    /\ Forget
    /\ UNCHANGED <<durable, halts, history>>

\* The process is killed; a model call in flight is cut short.
Crash ==
    /\ mode # "down"
    /\ halts < MaxHalts
    /\ halts' = halts + 1
    /\ killed' = [b \in Messages |->
                    killed[b] + Cardinality({w \in Workers : phase[w] = "calling" /\ unit[w] = b})]
    /\ Forget
    /\ UNCHANGED <<durable, failures, applied>>

Next ==
    \/ \E k \in 0..MaxMessages : Turn(k) \/ StartImport(k)
    \/ Intake
    \/ \E orphan \in BOOLEAN : Flush(orphan)
    \/ Begin
    \/ \E w \in Workers : Mark(w) \/ Apply(w) \/ Fail(w)
    \/ StartServe
    \/ Stop
    \/ CancelTimer
    \/ Exit
    \/ Crash

(***************************************************************************)
(* The event loop runs every ready task, timers expire, every model call   *)
(* is answered or fails (the HTTP client has a timeout and bounded         *)
(* retries), a stopping process ends and an import is followed by stop(),  *)
(* and a process that is down is started again.  Nobody has to send a turn *)
(* or to stop a server.                                                    *)
(***************************************************************************)
Fairness ==
    /\ WF_vars(Intake)
    /\ \A orphan \in BOOLEAN : WF_vars(Flush(orphan))
    /\ WF_vars(Begin)
    /\ \A w \in Workers : WF_vars(Mark(w)) /\ WF_vars(Apply(w) \/ Fail(w))
    /\ WF_vars(StartServe \/ \E k \in 0..MaxMessages : StartImport(k))
    /\ WF_vars(mode = "import" /\ Stop)
    /\ WF_vars(CancelTimer)
    /\ WF_vars(Exit)

Spec == Init /\ [][Next]_vars /\ Fairness

-----------------------------------------------------------------------------
Running == mode # "down" /\ ~stopping

\* The workers with a call in flight on batch b.
CallsOn(b) == {w \in Workers : phase[w] = "calling" /\ unit[w] = b}

\* Types of the variables.
TypeOK ==
    /\ recorded \in 0..MaxMessages
    /\ grouped \in 0..recorded
    /\ batchOf \in [Messages -> 0..MaxMessages]
    /\ state \in [Messages -> {"pending", "failed", "completed"}]
    /\ attempts \in [Messages -> Nat]
    /\ mode \in {"down", "serve", "import"}
    /\ stopping \in BOOLEAN
    /\ intake \in BOOLEAN
    /\ timer \in BOOLEAN
    /\ orphans \in Nat
    /\ phase \in [Workers -> Phases]
    /\ unit \in [Workers -> 0..MaxMessages]
    /\ more \in [Workers -> BOOLEAN]
    /\ halts \in 0..MaxHalts
    /\ failures \in [Messages -> Nat]
    /\ killed \in [Messages -> Nat]
    /\ applied \in [Messages -> Nat]

\* No message waits for a batch without a task that will group it: as long as
\* the process runs, an intake task or a partial-flush timer is alive.  (The
\* 30-minute partial flush "remains the final backstop", world.py:425.)
UnbatchedCovered ==
    Running /\ grouped < recorded => intake \/ timer \/ orphans > 0

\* "Every message in a batch shares the batch's attempts and state; the first
\* row settles both" (store/_messages.py:715), although the updates select
\* rows by batch and by state, and two workers may be on one batch.
BatchUniform ==
    \A m, n \in Messages :
        batchOf[m] = batchOf[n] => state[m] = state[n] /\ attempts[m] = attempts[n]

\* The attempts of an open batch are its recorded failures, the calls a crash
\* cut short and the calls in flight: no attempt is lost or counted twice.
AttemptsAccounted ==
    \A b \in Messages :
        batchOf[b] = b /\ state[b] # "completed" =>
            attempts[b] = failures[b] + killed[b] + Cardinality(CallsOn(b))

\* The result of a batch is committed once, even when an import and the worker
\* its start() spawned have both loaded it, or it is retried after a crash.
AppliedAtMostOnce ==
    \A b \in Messages : applied[b] = (IF batchOf[b] = b /\ state[b] = "completed" THEN 1 ELSE 0)

\* A worker always comes to an end: a batch that keeps failing is retried a
\* bounded number of times, also next to others that keep failing.
DrainTerminates ==
    \A w \in Workers : (phase[w] # "idle") ~> (phase[w] = "idle")

Promise == INSTANCE ExtractionPromise
    WITH extracted <- {m \in Messages : batchOf[m] # 0 /\ state[m] = "completed"}

\* The pipeline keeps the promise of ExtractionPromise.
KeepsPromise == Promise!Spec

\* "one batch at a time, oldest and least-attempted first, until nothing is
\* pending" (README.md, Extraction drains sequentially per space): when the
\* worker is done no batch is left that no attempt has been made on.
NoStrandedBatch ==
    Running /\ (\A w \in Workers : phase[w] = "idle") =>
        \A m \in Messages : batchOf[m] # 0 => state[m] # "pending"

\* "A batch that keeps failing is retired after five recorded failures" and
\* "only failures the server actually observed count" (README.md): a batch
\* the drain skips has had MaxAttempts of them.
RetiredAfterObservedFailures ==
    \A b \in Messages :
        batchOf[b] = b /\ IsExhausted(state, attempts, b) => failures[b] >= MaxAttempts
=============================================================================
