# TLA+ models of GossipMemo

GossipMemo is a memory service: it records chat messages per *space*, lets a
language model extract Memories from them in batches, and folds what has changed
into cards about people, relationships and the user. It is one Python process,
one asyncio event loop, one SQLite file and one model provider. What is hard in
it is not the data but the order of things: work is deduplicated, retried,
batched, timed and restarted around model calls that take minutes, and the
database changes under a call that is in flight.

This directory holds specifications of that behaviour, configurations that
check them with TLC on small instances, and proofs checked by TLAPS.
`PROJECT.json` lists the runs, the properties, the source lines every definition
stands for, the hazards and the findings.

## 1. Inventory

The package is `src/src/gossipmemo` (paths below are relative to it unless they
start at the repository root).

| Component | State | Operations | Interacts through | Module |
|---|---|---|---|---|
| Provider gate (`transport.py`, `priority.py`) | queues of futures per tier, lock, label, back-off deadline | acquire, release, publish deadline | every model call awaits it | `ProviderGate` |
| LLM adapter (`llm.py`) | HTTP client, attempt counter of a call | complete: post, retry, fail | holds the gate over its retries | `ProviderGate` (client) |
| Intake and extraction scheduling (`world.py`, `cli.py`) | `_scheduled`, `_flush_tasks`, `_stopping`, tasks | turn, drain, flush, start, stop, import | spawns the reasoners | `ExtractionPipeline` |
| Extraction reasoner (`reasoners/extraction.py`, `base.py`) | the batch in flight, `more_batches` | attempt, catch up | message store, gate | `ExtractionPipeline` |
| Message store (`store/_messages.py`) | messages, batches, states, attempts | record, batch, mark, fail, apply | durable; one transaction per call | `ExtractionPipeline`, `OwnerFold` |
| Memories (`store/_memories.py`) | memories with status and `updated_at`, links | add, supersede, retract | HTTP handlers, extraction | `OwnerFold` |
| People and relationships (`store/_people.py`) | people, pairs, aliases | create, relate, merge | extraction, HTTP handlers | `OwnerFold` |
| Owner reasoning (`reasoners/person.py`, `relationship.py`, `user_model.py`, `store/_reasoning.py`, `_projections.py`, `policy.py`) | cards with a watermark, the fold in flight | scan, delta read, optimistic write | daily induction; memories by `updated_at`; an import's USER.md | `OwnerFold` |
| Coverage and learning goals (`store/_coverage.py`, `reasoners/coverage.py`, `learning_goals.py`, `chunking.py`) | a cursor over memories and a revision per root, goals | audit a chunk, plan | last stages of the pipeline | `Coverage` |
| Hypotheses and inferred memories (`store/_reasoning.py`) | their sources and status | reconcile, transition | written with a card | `OwnerReview` |
| Continuity (`reasoners/continuity.py`, `store/_continuity.py`) | summary and message watermark | fold new messages | intake, import | `Continuity` |
| Embedding worker and vectors (`embedding.py`, `store/_vectors.py`, `world.py`) | rows of the main file, index in a second file, worker task | embed, store, switch model, search | after extraction and reasoning | `VectorIndex` |
| Migrations (`migrations.py`, `schema.sql`, `store/_base.py`) | tables, history, backups | recognise, back up, upgrade steps | every start | `Migrations` |
| Hermes plugin (repository root: `integrations/hermes`) | provider state, caches, write queue, threads | hooks of a turn, prefetch, write, shutdown | HTTP client of the service | `Hermes` |
| Reads (`store/_memories.py`, `policy.py`, `store/_context.py`, `chunking.py`, `context_budget.py`) | none | recall, rank, version of a context | read only | partly: `VectorIndex` (ranking), `Hermes` (turn view) |
| SDK (`src/gossipmemo_client`) | connection | one request per call | plugin, scripts | partly: `Hermes` (keys, timeouts) |
| HTTP app, admin pages, config, prompts, models, logging, scripts | none of their own | delegate, render | - | not modelled |

What makes each correct, and is hard to see in a test:

- **Gate**: one request at a time under any cancellation; no lost wake-up;
  strict priority; the shared deadline holds back everybody who arrives.
- **Extraction**: no message is forgotten by timers, drains, stops and crashes;
  a batch is committed once although two workers may hold it; attempts mean what
  the retirement rule takes them for; the drain ends, and ends with nothing left.
- **Owner cards**: a card accepted as fresh contains every Memory and every
  withdrawal up to its watermark, although both change during the fold and an
  import may replace the user's card; merging people neither loses links nor makes
  two rows of one pair.
- **Coverage**: the cursor passes over no Memory that nobody has audited; audits
  and plans are committed on the entries they were made from; goals follow.
- **Inferences and hypotheses**: an answer made from an old context closes,
  supports and repeats only what the rows still allow when it is committed.
- **Continuity**: no message is left out of the summary for good, whatever
  message an answer names and whoever else commits.
- **Embedding**: an owner whose text changed is embedded again; the index and the
  main table give one answer, whatever ended between two commits.
- **Migrations**: a crash at any point leaves a database the next start accepts.
- **Hermes**: a turn is recorded once although answers are lost, in order, and
  the context shown is the one of the turn's own space and answer.

The hazards, with the line at which each bites, are in `PROJECT.json`.

## 2. Modules

| Module | What it is |
|---|---|
| `ProviderGate` | the gate and the request loop of its client |
| `MCProviderGate` | instance: three callers, all tiers, one retry, delays 1 and 2 |
| `ProviderGateProofs` | proofs about the gate |
| `ExtractionPromise` | abstract: messages are grouped with their neighbours, groups are extracted once |
| `ExtractionPipeline` | intake, timers, extraction worker, start, stop, crash, import; implements the promise |
| `MCExtractionPipeline` | instance: three messages, batches of two, two attempts, one halt |
| `ExtractionPipelineProofs` | proofs about the pipeline and of the refinement |
| `OwnerFold` | cards, memories, merges and the reasoning pipeline |
| `MCOwnerFold` | instance: three people, two memories, two relationship rows, one merge, one failed fold or import |
| `Coverage` | coverage roots with their cursors, the audits and plans in flight, learning goals |
| `CoverageProofs` | proofs about coverage |
| `MCCoverage` | instance: two roots, two workers, three memories in two writes, one of them too long for a request |
| `OwnerReview` | one owner's inferences and hypotheses under two processes that review it |
| `Continuity` | the running summary, its loops in the server and in an import |
| `VectorIndex` | the vectors in two files and the worker that makes them |
| `VectorSearch` | the two ways to search them, and what the reads make of it |
| `OwnerReviewState`, `ContinuityState` | the variables of the two modules above and what is promised about them |
| `Migrations` | what a start does to the database it finds, a statement at a time |
| `MCBackground` | instance: the four modules above, side by side in one run |
| `Hermes` | the gateway plugin, its prefetch and writing threads, and the log of the server |
| `MCHermes` | instance: a conversation and a scheduled job, two spaces, two turns, one mishap |
| `HermesProofs` | proofs about the plugin and the log |
| `OwnerFoldProofs`, `VectorIndexProofs`, `MigrationsProofs` | proofs about these three |
| `BackgroundProofs` | proofs about continuity and reviews, and about the four modules together |

The modules of the service share one reading of the program: **a step is one
synchronous stretch of the event loop**, from the resumption of an `await` to the
next `await` that suspends. Handlers are all `async`, so nothing runs in threads,
and every store call is one SQLite transaction inside such a stretch. What a
coroutine read before an `await` and uses after it is therefore a variable of the
model (`unit`, `more`, `expected`, `draft`).

Two processes can have one file open: a server, and an import started beside it.
The repository's README asks not to do this, but nothing prevents it, so
`OwnerReview`, `Continuity` and `Migrations` model it. Python's `sqlite3` begins a
transaction at the first write, and a SELECT before it is one of its own. What a
method reads there is therefore a step of its own, and another process may write
between two of them: the card, the Memories and their watermark, which a context
function reads one after the other; the watermark that `apply_relationship_reasoning`,
`apply_user_model_reasoning`, `apply_continuity_reasoning` and
`overwrite_user_model` read before they write; the decision of a migration. The
other modules are about one process, but for the import of a USER.md, which in
`OwnerFold` reads and writes the user's card while the pipeline folds.

`Hermes` is about threads instead: the gateway calls the hooks, one thread
prefetches and one writes, and a step is what one of them does between two points
at which another may act (a request, a queue, a join).

Definitions named *Seeded fault of X* are not part of the specifications: each is
a plausible bug in the code behind X, and replacing X by it makes the property
named in `PROJECT.json` fail. They show that the property can.

### ProviderGate

`pc` says where each caller is inside `complete()`: sleeping out the deadline,
queued on its future, granted (the future has a result but the task has not
resumed), posting, or sleeping between two attempts. Cancellation keeps its two
halves: `CancelWaiting` is `Task.cancel()`, which cancels the future at once;
`Unwind` is the `except` clause, which runs when the loop reaches the task. The
stretch between them is where the permit can be lost. Time is counted in ticks,
relative to now; the tier and the delay of a request are inputs. `Tick` is the
one action of the environment besides requests and cancellations.

`Finish` stands for every end of a request, good or bad: all of them go through
the `finally` clause. When a `Retry` publishes an earlier deadline than the one
that is out already the later one stays.

### ExtractionPromise and ExtractionPipeline

The promise has no timers, tasks, restarts or retries: messages arrive, are cut
into runs of at most `BatchSize` neighbours, and whole runs are extracted, once;
every message is grouped sooner or later. The pipeline maps to it by
`extracted <- the messages of completed batches`.

`recorded`, `grouped`, `batchOf`, `state` and `attempts` are columns and survive
`Crash` and `Exit`; the tasks do not. Messages are numbered in the order of
`ingested_at`, so a batch is a run of numbers and is named by its first. The
intake task, the flush timer that `_flush_tasks` holds, and the timers it no
longer holds (`orphans`: `flush()` pops the entry in `finally` even when the
drain before has armed a new timer) are separate. `Workers` are the task that
`_schedule_extraction` spawns and the extraction an import drives itself; they
can hold the same batch. `failures`, `killed` and `applied` are history
variables, read by properties only.

Decisions worth knowing:

- The worker always suspends between loading a batch and marking the attempt
  (the embedding of the query). Without an embedding provider the code does not
  suspend there; those behaviours are included.
- `_intake_loop` does not suspend, so `_dirty_intake_spaces` never makes it loop
  and `intake` is one flag.
- Only one space is modelled: spaces share nothing here but the gate.
- Store calls succeed; a model call, the validation of its answer and the commit
  may fail (`Fail`).
- An import of `USER.md` alone records no message and is not an action here
  (`OwnerFold` has it); an import and a server on one file at the same time are
  not in this module.

### OwnerFold

A write to memories moves `clock` and stamps what it changes, so a stamp names a
*version* of a Memory, and `card[o][m]` is the version of `m` the card of `o` was
last folded from. `LoadFrom` is the pipeline from one model call to the next:
the first reasoner with a stale owner, that owner's delta, its watermark, and
whether other targets were stale; `Commit` is the optimistic check, the write
and the next load. `Merge` is the whole of `merge_person` on links, Relationship
rows, watermarks and cards. `raced` and `overtaken` are history: what the fold in
flight answers with lacks a Memory that a merge brought, because the merge came
after the read or because the fold started from a card that lacked it already;
and a card's watermark has passed such a Memory.

`OverwriteReads` and `Overwrite` are `overwrite_user_model`, which an import of a
USER.md calls: a card that no Memory was folded into, stamped with the watermark
that was read. From then on the user's card is only asked to have what was written
after that watermark (`replaced`, `Since`): the Memories before it are meant to be
in the file. The fold that is in flight may still be accepted, when it expects a
later watermark, and then puts the folded card in the place of the imported one;
the method's docstring speaks of an explicit replacement, and nothing is lost that
the properties speak of.

Left out: inferred Memories (no watermark of a Person or Relationship counts them;
the UserModel's does, which only makes its card stale more often) and hypotheses,
which `OwnerReview` has, aliases, the chunks of a long fold (one answer in the end),
a worker of an import running the same pipeline at the same time, and a clock that
goes back.

### Coverage

A cursor is the pair (`source_watermark`, `source_cursor_id`) and a Memory stands
at (`updated_at`, id). The Memories of one write share their stamp, so whether
the id is compared decides what is read. `work[w]` is the call a worker has in
flight with everything it read: the root, the expected cursor, the chunk, or the
token and the goals of a plan. `Proceed` is the pipeline from one call to the
next: the first root that is behind in the declared order, or, when none is, the
plan. `Workers` are the task that `_schedule_reasoning_pipeline` spawns and the
pipeline an import runs itself (`import_messages`) next to the one `start()`
spawned; only they can lose a compare-and-set. `Pass` lets the pipeline reach
coverage for a card's sake or for an import.

The text of entries is abstracted to the revision of their root, which every
commit moves. `full` holds the roots whose entries outgrow a request: any commit
may make its root one, and nothing takes it back, since no audit of such a root
is ever answered. `Long` are Memories that exceed a request: `greedy_chunks` cuts
them up and `_audit_coverage` sends the first piece only. `audited`, `excused` and
`plan` are history variables. The field `read` of a call is history as well: the
code compares cursors and a sum, and `AuditsOnCurrentEntries` and
`PlansOnCurrentEntries` say that this is enough. The sum is written as the number
of the commits that make it up (`Commits`), one for each revision of each root.

Left out: the card reasoners before coverage (`OwnerFold` has them; a card whose
fold fails keeps coverage from its turn, which counts as a failed call here),
the prompts of goals and their duplicates, focus and `entry_ids`, the rounds that
reduce candidates, inferred Memories (coverage does not read them), and a clock
that goes back.

### OwnerReview

Beside its card, a review of an owner may draw an inference (a Memory derived from
others), withdraw one, propose a hypothesis, support, promote or reject one. What a
reasoner reads before its call are five statements: `Choose` (what is stale),
`ReadCard`, `ReadMemories`, `ReadWatermark`, which looks once more whether the card
it read is stale, and `ReadReview`, for the rows beside the card. The second process
may write between any two. `Check` and `Commit` are the two halves of an `apply_*`
method where it has two: for a Person everything is inside one transaction; for a
Relationship and for the user the watermark is compared first. `OverwriteReads` and
`Overwrite` are the import of a card, as in `OwnerFold`. All inferences make one
claim, and so do all hypotheses, since only rows of one claim meet. `NothingUnseen`
excepts `raced`. That is a review which committed although the watermark it read was
not that of the Memories it had read before (`shown`): another process wrote one in
between, and the watermark stands for a Memory the model was not shown. Or it is one
of a Relationship under which a Memory was written between the check and the
transaction: the code writes the watermark it finds then, with nothing to compare it
to. `OwnerFold` has the cards of many owners and their merge; here is one owner, of
each of the three kinds.

### Continuity

A loop goes through the statements of the code one at a time: the summary (`Look`),
the messages after it (`List`), the model call, the comparison of the watermark with
the one it read (`Compare`), and the UPDATE, which has no condition (`Write`).
Between two of them the other process may write, another task of the same process
only during the call (`Proceeds`). So both of two loops may find the watermark
unmoved and write, the second over the first, and `through` may go back. The answer
names the message it covers: any of the shown ones, the prior watermark, or one there
is not, in which case nothing is written, as after a conflict. `read.of` and
`summarised` are history: the messages a text was made from, which is more than the
watermark says. A loop that did not write ends with nothing to start it again;
`gaveUp` is that, and a call that raised.

### VectorIndex

The vector of an owner has a row in the main file and one in the index beside it,
and a commit of both is not atomic: `CrashBetween` commits the first. A vector and a
hash are the version of the text they are of. `IndexAway` is the extension or the
file missing, each time it is tried. In `VectorSearch`, `SearchIndex` and
`SearchMain` are `_search_sidecar` and `_search_python`; owners are numbered by
nearness, so what is found is a set. `Query`, `Compared` and `Prioritised` are what
the reads make of it: the fusion of two rankings, in exact fractions, the
comparisons of an extraction, and the order of a review.

### Migrations

A database is the tables that the steps touch, the rows of `learning_goals` and
the history. A process looks at the tables, decides (`Plan`), backs up, and runs
each step as a transaction, a statement at a time (`Work`); it may end, or a
statement fail, at each of them, and another process may be doing the same.
`Found` holds the databases a start may find: empty, of each earlier version,
cut short in each way, of a later version, or of something else, which must be
refused (`Refused`). The file a copy goes to is named by the version and the second,
so `Backup` makes a new file or writes over the last one; `overwritten` is history,
and says that a database other than the one in that file was written over it. A
statement that cannot run on the database it meets `Fails`,
as SQLite makes it fail, and its transaction is rolled back; `Executed` is what the
others do. A whole undisturbed start is a function of the database: whether it gets
to the end (`Starts`) and what it leaves (`Started`), which is what `schema.sql`
completes (`Completed`), whatever the order of its statements.

### MCBackground

The four modules share no variable, no step of the program writes the state of
two of them, and each property is about one. A behaviour of all of them is then
an interleaving of four, and satisfies a property if its projection does; so it
is enough to let one part move in each behaviour, and `part` says which. The run
therefore has as many states as the four runs together, not their product.

`SearchPathsAgree`, `SummarisedUnlessGaveUp` and `CommitsOnCurrentState` are
defined over variables alone, in `VectorSearch`, `ContinuityState` and
`OwnerReviewState`. `MCBackground` extends these and instantiates the steps, so
that the run checks, and the proofs prove, one and the same definition.

### Hermes

The first half is the provider: one object for all conversations of a gateway, which
`initialize` gives a client, a write queue and a thread, with a slot for the turn in
progress (`slot`), the last bundle of context (`bundle`, `cache`) and the turn's
fetch (`fetches`). `initialize` takes no lock and is three steps: it clears what the
provider keeps (`Clear`), replaces the client (`MakeClient`) and then the queue, for
which it starts a writer (`MakeQueue`). `making` says how far it is in each
conversation's hook, and every other thread may act in between: a request under the
old client may bring a bundle or leave a slot in the provider that was just cleared,
a turn may end while there is a new client and no queue yet, two initialisations may
overlap. Only `ensure_initialized` takes a lock, against itself
(`EnsureInitialized`). The second half is the server: a log of message keys per
space, in which a key is recorded once, and a version of the context. A request is
sent, served and answered in steps of their own and can be given up at each; what
was given up stays on the `wire` and may be served later. `hurt`, `failed`,
`crossed` and `crowded` are history that properties except: turns under which a step
of an initialisation was made or the provider finalized, and those that came upon a
slot such a turn left; turns whose own write raised; an answer that came after the
client of its request was replaced, or while an initialisation was about to replace
it; and two writers on one queue.

## 3. Runs

| Run | Checks | Shows |
|---|---|---|
| `gate` | `TypeOK`, `SinglePermit`, `NoIdlePermit`, `NoOvertaking`, `BackoffHoldsArrivals`, `LeakOnlyByCancelledWaiter`, `ForegroundServed` | the gate serialises, loses no wake-up, serves by tier then FIFO, and leaks in one way only |
| `gate_leak` | `PermitNeverOrphaned` (violated) | a caller cancelled while queued can be handed the permit and never gives it back |
| `extraction` | `TypeOK`, `UnbatchedCovered`, `BatchUniform`, `AttemptsAccounted`, `AppliedAtMostOnce`, `KeepsPromise`, `DrainTerminates` | nothing is forgotten, doubled or retried for ever; the pipeline implements the promise |
| `extraction_stranded` | `NoStrandedBatch` (violated) | a batch cut during the last model call of a drain stays pending |
| `extraction_retired` | `RetiredAfterObservedFailures` (violated) | a kill uses up an attempt |
| `owner_fold` | `TypeOK`, `FoldedUnlessOvertaken`, `NeverAhead`, `RelationsWellFormed`, `EvidenceKept`, `RefreshedEventually` | cards contain what their watermark says, also when an import replaces the user's; merges keep rows and links sound, cards become fresh |
| `owner_missed` | `NothingMissed` (violated) | a merge under a fold in flight leaves a card marked fresh without the Memories it brought |
| `coverage` | `TypeOK`, `PassedOverOnlyIfRaced`, `CursorsAdvance`, `AuditsOnCurrentEntries`, `PlansOnCurrentEntries`, `AuditedEventually`, `PlannedUnlessLost` | every Memory is audited by every root unless one of its chunk changed in flight; no commit on stale entries; audits and plans catch up |
| `coverage_skip` | `NothingPassedOver` (violated) | a Memory withdrawn during its audit takes the cursor past its withdrawal |
| `coverage_stalled` | `RootsFailAlone` (violated) | one root that cannot be audited stops all the roots behind it |
| `hermes` | `TypeOK`, `RecordedTwiceOnlyIfDisturbed`, `AnswerAloneOnlyIfDisturbed`, `ContextAsServed`, `ForeignBundleOnlyIfCrossed`, `InOrderUnlessDisturbed`, `WrittenUnlessDisturbed` | through given-up, late and repeated requests a turn is recorded once, in order and in the end, and shown its own context |
| `background` | `TypeOK`, `SearchPathsAgree`, `EmbeddedEventually`, `NextStartSucceeds`, `SummarisedUnlessGaveUp`, `CommitsOnCurrentState` | both searches agree and vectors catch up; every start can finish what another left; no message is left out of the summary; reviews commit on the rows as they are |

### Bounds, and why they are enough

- `gate`: three callers are a holder, a waiter and a third that arrives, is
  cancelled or overtakes; every caller may use every tier, again and again.
  `MaxRetries = 1` gives a first and a last attempt; with delays 1 and 2 a
  deadline can move later under a sleeper, or not.
- `extraction`: three messages in batches of two give a full batch, a remainder,
  and a second batch while the first is in flight; two attempts tell a retry
  from a retirement; `MaxHalts = 1` puts one stop or crash anywhere. Restarts
  after an import's own end are free.
- `owner_fold`: two Memories, three writes (`MaxWrites`), so that one can change
  while a card holds another; three people and the pairs {a,c}, {b,c}, so that a
  merge of a and b makes two rows one; Memories about a and c together, so that
  people share evidence without a row; one merge; one failed fold or one import,
  whose read and write may have anything between them (771,707 states). Two merges
  make the instance too large to run each time; the proofs cover any number of merges
  and imports. `owner_missed` has no import and no failure: it is about merges.
- `coverage`: two roots are a root and one behind it; two writes of three
  Memories give shared stamps, chunks that end between them, and a change under
  an audit in flight; one failed call, one root that fills up, one run of the
  pipeline for another reason, which is also how both workers come to run at
  once. Two Memories in three writes (591,596 states) were checked by hand with
  the same result.
- `hermes`: a conversation with the user and a scheduled job, because the guard
  of one is provider-wide and the other sets it; two spaces, so that a session
  may be initialised on another one; two turns, of one conversation or of both;
  one mishap anywhere: a session started or finalized, a request given up, an
  answer lost, a view unavailable, or a context that changes (1,220,567 states). The
  first initialisation is free, so the one event may begin a second over it.
- `background`, vectors: three owners with one wanted, one asked for and two when
  widened, so that a retraction leaves too few and the widened search may or may
  not cover the rest; two models; batches of two; three texts written and two
  mishaps, so that a crash between the files can meet a start with another model.
- `background`, migrations: two processes and two mishaps, for each of the
  databases of `Found`: a crash in one process while the other is between its
  decision and its lock, and another after it.
- `background`, continuity: four messages with a threshold of two, so that a loop
  has work twice; all three loops; three mishaps, one more than it takes to start
  the server and an import.
- `background`, reviews: two processes, two Memories, two rows of each sort, two
  writes, one import: a Memory can come and be withdrawn, or two come, around a
  review and between its reads. The four parts have 636,558 states together.
- Deadlock is checked in the gate and in the extraction runs. In `OwnerFold`,
  `Coverage`, `Hermes` and the background the system rests when everything is
  done and the bounds forbid another write, so deadlock is not checked there.

### Fairness

Weak fairness only, and only of what the program or its environment does by
itself: a ready task runs, time passes, a sleep ends, a model call is answered or
fails (the HTTP client has a timeout and retries are bounded), the daily
induction fires, a process that is down is started again, a stop that has begun
ends. Nobody has to send a turn, write a Memory, merge people, cancel a request
or stop a server. `ForegroundServed` and `RefreshedEventually` are claims about
this fairness; `ForegroundServed` is conditional on the permit not being
orphaned, which is what `gate_leak` shows can happen. `RefreshedEventually`
speaks of the time after the last write: while Memories keep changing, every
answer may be refused. `AuditedEventually` and `PlannedUnlessLost` say the same of
coverage, as long as every root fits a request. `WrittenUnlessDisturbed` needs the
writing threads of the plugin to run and their requests to end, which the client's
timeout grants. `EmbeddedEventually` needs the worker to go on
(`WorkerRuns`: it looks, sleeps and writes); that a provider may fail is bounded
by the events, not excluded. The other three parts of the background state
safety.

## 4. Findings

1. **The permit can be orphaned** (`gate_leak`). `_dispatch` gives the permit to
   the head of the queue even if its future is already cancelled
   (`transport.py:129-134`); the cancelled caller finds itself out of the queue
   and, its future being cancelled, does not release. All later requests wait for
   ever. `LeakOnlyByCancelledWaiter`, which is proved, says that this is the only
   way.
2. **A batch can be stranded** (`extraction_stranded`). `more_batches` is older
   than the call (`reasoners/extraction.py:214`) and `_spawn` drops requests for a
   running worker (`world.py:289`). The batch waits for the next turn that fills
   a batch, the next flush or the next restart; the repository's README says the
   drain runs "until nothing is pending".
3. **Kills count as failures** (`extraction_retired`). The repository's README
   says they do not; `mark_extraction_attempt` counts before the call.
4. **A merge can be missed by a card** (`owner_missed`). See `OwnerFold`,
   `NothingMissed`. `FoldedUnlessOvertaken` shows that merges are the only way: the
   cards it excepts are those in `overtaken`. Besides the race with a fold in
   flight there is a second route without any race: merging s into t gives an
   existing Relationship of t and o older Memories about s and o, and does not
   reset it when s and o had no row of their own. And there is a third, found by
   the attempt to prove `FoldedUnlessOvertaken`: a fold that starts from a card
   which already lacks such a Memory, and commits after another merge has reset
   the card, writes the gap back over the reset.
5. **A withdrawal can be passed over by coverage** (`coverage_skip`). The commit
   of an audit takes the cursor from the stamps the chunk's Memories have by then
   (`store/_coverage.py:127-132`). `data_schema.md` says that retractions and
   replacements are not missed. `PassedOverOnlyIfRaced` shows that a change in
   flight is the only way, besides a Memory too long for one request, of which
   only the first piece is audited (`reasoners/coverage.py:109`).
6. **One root stops the others** (`coverage_stalled`). A root whose entries no
   longer fit raises, the pipeline ends, and the next one starts at the same root;
   `design.md` says that only that root stays behind. Goals are not planned either.

`PlannedUnlessLost` has an exception that is no contradiction of a document but
worth knowing: a planning call that fails is not made again until some Memory
changes, since nothing is stale by then.

Smaller disagreements met on the way, each seen in the code while modelling it
and without a run of its own:

- `VectorIndex`: `_search_python` raises on rows of mixed dimensions although the
  module's docstring says that the fall-back never raises; rows the index missed are
  not reconciled by `ensure_vector_index`, which compares its meta row only,
  although the comment of the write says so (`missed` is what is left); a search
  does not compare the meta row at all; a search in the scope of a person takes the
  twenty nearest of the space and filters afterwards.
- `Hermes`: the guard that keeps scheduled jobs from writing does not hold in
  `pre_llm_call` and is one for all conversations; initialising a session clears
  the slot of another one in mid-turn, and its user message is then recorded
  twice; a turn queued behind the stop mark is lost, and so is one that ends when
  the new client is there and the new queue is not; finalizing may close the
  client that another session has just been given; an answer in flight may put a
  bundle of the old space into a provider initialised for a new one, also one that
  comes after the bundle was cleared and before the client is replaced, although
  the comment there says that such a bundle "must never survive a re-initialize"
  (`__init__.py:240-242`); a user
  message repeated after a turn that was cut off takes the old key. The exceptions
  of the run's properties (`hurt`, `crossed`, `crowded`) name these cases.
- `Continuity`: two processes may both find the watermark unmoved and write, so that
  a summary is lost and the watermark goes back (nothing is left out for that: the
  loop that wrote last looks again); after a conflict a loop ends although messages
  may have arrived meanwhile, so more than the threshold can wait for the next turn
  or start; a model that keeps naming the prior watermark keeps the loop going for
  ever.
- `OwnerFold`: an import of a USER.md that meets a fold in flight may lose its card to
  that fold's answer, or take the watermark back under a card that was just written.
- `Migrations`: the repository's README says that a full backup is taken first; when
  a second process starts within the same second, its copy, of the migrated database
  by then, goes over the first (`migrations.py:338`). `NextStartSucceeds` excepts it.
- `OwnerReview`: two equal inferences in one answer (two batches of a long fold,
  concatenated) are both inserted, since the rows to compare with are read once
  before the loop, although `_reconcile_inferred_memories` says it deduplicates; a
  Memory written by another process between the read of the Memories and that of
  their watermark, or between the check and the transaction of a Relationship, is
  passed unseen (`raced`), and two processes may both commit a Relationship; a
  hypothesis may be renamed to what another open one says; inferences and promoted
  hypotheses outlive the Memories they came from.

## 5. Proofs

All proofs hold for every value of the constants that satisfies the module's
assumption (`GateAssumption`, `PipelineAssumption`, `CoverageAssumption`,
`FoldAssumption`, `HermesAssumption`, and the `Parameters` of `Continuity`,
`OwnerReview`, `VectorIndex` and `Migrations`, which `MCBackground` assumes of its
instances). The assumptions say that bounds are naturals, that a batch has room for
one, and that the values that stand for nothing are none of the others.

**Gate** (`ProviderGateProofs`). `SinglePermit` and `NoIdlePermit` are not
inductive: a grant pops whoever is at the head of a queue, so one must know that
the head does not own the permit yet, stands in the queue of its own tier, and
stands there once. `QueuesSound` says so and `IInv` is its conjunction with the
type invariant and the two properties. Nearly every step that changes the permit
is `Dispatch` on some queues and phases, so `DispatchCorrect` carries the work;
`ReleaseCorrect`, `EnqueueCorrect`, `WithdrawCorrect` and `MoveCorrect` reduce the
actions to it. Theorems: `GateInvariant`, `GateTypes`, `OnePermit`,
`NoLostWakeup`, and the action property `OnlyLeak`.

The order half adds that a queued caller stands in the queue of its tier
(`QueuedWaits`), and one statement about every step (`StepOrdered`): it grants the
first in line, keeps the order of those who stay queued, and lets nobody arrive
before the deadline. `DispatchOrder`, `ReleaseOrder`, `EnqueueOrder` and
`MoveOrder` reduce the actions to what happens to a queue. Theorems:
`NobodyOvertakes`, `ArrivalsHeldBack`.

**Pipeline** (`ExtractionPipelineProofs`). The properties hold together or not at
all, and need four facts about columns and tasks: batches are named by a member
of their own (`Named`), a message without a batch is untouched (`Fresh`), a worker
past its load has a batch (`UnitSound`), a process that is down has no task
(`NoTaskDown`). One lemma per action shows that it keeps `IInv`; `GroupCorrect`
holds the arithmetic of cutting, used by four actions. Theorems:
`PipelineInvariant`, `PipelineTypes`, `NobodyForgotten`, `BatchesUniform`,
`AttemptsAreAccounted`, `ResultsOnce`, and `PromiseSafe`: the pipeline implements
the safety part of `ExtractionPromise`.

**Coverage** (`CoverageProofs`). What the commit does to a cursor depends on what
its audit read long before, so the invariant is about calls in flight
(`CallSound`): the chunk lies behind the position it was read from; unless one of
its Memories changed, nothing between that position and the end of the chunk was
left out; and the position is the root's cursor, with the revision that was read,
or lies behind the cursor, where it stays because cursors advance. The last part
is what makes comparing cursors as good as comparing revisions. `ProceedCorrect`
and `NewCallSound` are about a call that is made, `WriteKeeps` about Memories that
change under it, `CommitKeeps` about its answer. Theorems: `CoverageInvariant`,
`PassedOverOnlyInRaces`, `CursorsOnlyAdvance`, `AuditsStayCurrent`, and
`CoverageTypes`, by a chain of its own (`ProceedTyped`, `WriteTyped`,
`CommitTyped`): the types do not need what is true of the values.
That the sum of the revisions is enough for a plan is `PlansStayCurrent`. No
revision goes back, so what a plan has read is at most what there is now; the
commits behind the one are then among the commits behind the other, and two finite
sets of one size, the first within the second, are the same set
(`TokenSeparates`).

**Owner cards** (`OwnerFoldProofs`). That a card has folded every Memory up to its
watermark depends on the fold in flight, so `DraftSound` says of the draft what is
true of a card, relative to the watermark it expects: every Memory up to it is there
as it is now, unless a merge brought it and `raced` says so, or, in the user's, it
is older than the watermark an import has given the card. A write keeps this because
its stamp is later than every watermark; a merge because it is raced when the
evidence grows; a load because it adds to a card that is sound, or marks the fold
`raced` when the card is overtaken, which is how the third route of finding 4 came
out; an import because what it read is no later than the watermark and no earlier
than the last import's (`ImportSound`). Pairs and links (`PairsSound` and its
companions) are proved through the row a merge leaves, joined or rekeyed. Theorems:
`FoldInvariant`, `FoldTypes`, `NothingLostInFolds`, `CardsNeverAhead`,
`MergesKeepRowsSound`, `MergesKeepEvidence`.

**Vectors** (`VectorIndexProofs`). One half is an invariant (`IndexSound`): the
index has the vector of each row of its model that it did not miss, and none
without a row; theorem `IndexFollowsRows`. The other is about the n nearest of a
finite set: whoever is nearer than one of them is one of them, they are all or n,
and cutting before the status is looked up or after it leaves the same k, when
everything or k of the first n were left (`ClosestFiltered`). Together they give
`SearchesFindTheSame`. The types (`VectorTypes`) need that a stamp is no later than
the text it is of, and a count: the texts written are the pairs of an owner and a
version up to its own, so that one more write is one more pair (`Written`).

**Migrations** (`MigrationsProofs`). A start decides, waits for the lock and then runs
what it decided on a database that another start may have migrated meanwhile. Why
this is harmless is the invariant:

- There are few databases: the one found (`AsFound`), or the one its transaction
  leads to, with some of `schema.sql` applied since (`Brings`). It goes from the
  first to the second in one commit, and never back.
- A transaction cannot run again on what it leaves (`Once`): its first statement,
  or the one after the idempotent creation of the history table, finds the table or
  the history row already there, and the rollback leaves the database as it was.
- So whatever was decided, by however many processes and however stale, is the
  transaction of the database found or nothing (`Decided`), and what is under way is
  an initial part of it on the database found, or has changed nothing (`Working`).

What `schema.sql` adds later does not make a database look like an older one, which
is where the databases of `Found`, which are part of the model and not a constant,
are compared one by one: a start on a completed database has nothing to run. Every
goal is in one of the two tables of the rebuild at each statement, and what was
found is in a backup before a step touches it, until a later copy is written over
that. A database that is refused is never written (`Untouched`). The chain of
databases a transaction goes through (`Ran`) is a recursive function; its equations
are proved from the well-foundedness of `<` (`RanSteps`). Theorems: `Invariant`,
`NextStartAlwaysSucceeds`.

**Background** (`BackgroundProofs`). Everything the run of `MCBackground` checks but
the liveness of the worker, for the composition itself. `PartsMove` says that a step
is a step of one part and leaves what the other three keep; the four invariants
therefore hold together (`BackgroundInvariant`), and each property follows from the
part it is about. `SameVectors`, `SameSearches`, `SameSchema` and `SameStart` carry
the theorems of the two modules above over to the instances of the run. Theorems:
`BackgroundTypes`, `BackgroundSearches`, `StartsAfterStarts`,
`NothingLeftUnsummarised`, `ReviewsCommitOnCurrentState`. The other two parts are
proved in this module:

- Continuity: `SummarisedUnlessGaveUp` needs two facts together: what is behind the
  watermark is in the summary, and what is behind the watermark a loop has read is in
  the summary it read (`Covered`), so that a loop which writes over another's takes
  both back together; and due work has a task that will look (`Attended`), for
  whoever wrote last looks again.
- Reviews: what a commit does to rows follows from the rows (`InferencesGrown`,
  `HypothesesGrown`, one lemma per action an answer may ask for). `NothingUnseen`
  does not: the card and each draft on its way must have every Memory up to their
  watermark, a draft up to the one of the moment its Memories were read, unless an
  import stands for it or a commit was raced (`CardSound`, `DraftSound`). The types
  need that rows stay within their number and that no review names a row beyond it
  (`Bounded`).

**Hermes** (`HermesProofs`). None of the properties is inductive, and most need
the same question answered: where may a key of a message be?

- `KeysLocated` answers it for an undisturbed turn. A key is issued while it is in
  a log, in a request that was given up, with a writer, in a queue or with a
  prefetch that was sent; the keys of a turn are then all on their way to one
  space, the client's, and through one queue. `KeysOnce` adds that of the two keys
  a user message may have, the one of its prefetch and the one of its batch, only
  one is ever issued, and `LogOnce` that the server compares keys.
  `MessagesRecordedOnce` follows: sending again is safe because whoever sends again
  uses the same key.
- `MessagesProven`: the slot says that a user message is stored only when it is in
  the log of that space, and a batch goes without its user message only then.
  Theorem `AnswersAccompanied`.
- `OrderSound` goes from the queue through its one writer to the log: what waits is
  in the order of turns, what the writer holds is earlier than what waits, what is
  written is earlier than both, as long as there is one writer (`OneWriter`).
  Theorem `AnswersInOrder`.
- `SpacesSound` follows a bundle back to its request, which is of the client it was
  sent by (`clients` numbers them): what a provider has in hand or will accept is of
  the client's space, and while an initialisation is between its clears and its new
  client (`Replacing`) it has nothing in hand, unless an answer came in, which is
  `crossed`. Theorem `BundlesOfTheClient`.
- `SlotsSound`: a turn that is undisturbed has no slot of one that was not, which a
  request under the old client may leave behind the clears. `FetchesSound` says what a
  request brings when it ends; theorem `ContextServed`.
- `Budget` is why an initialisation always finds a place for its writing thread:
  each is paid for by a session that was started or finalized, so initialisations
  and the sessions being closed together are at most one more than the events.
  The types rest on it; theorem `HermesTypes`.

The exceptions of the properties (`hurt`, `failed`, `crossed`, `crowded`) enter
the invariant where the code loses track: from the first step of another `initialize`
on a turn's queue and client may not belong together, so the parts about keys are
about turns after `hurt`. Theorem `HermesInvariant` is the conjunction of all parts.

**Least and greatest**. `Min` and `Max` of the community modules choose a member;
that there is one to choose follows from the well-foundedness of `<` on the
naturals (`LeastExists`), and for a greatest one from the least distance to a bound
(`GreatestOfNaturals`). Each module that needs them proves them.

**Only model-checked**: everything that needs fairness (`ForegroundServed`,
`DrainTerminates`, `RefreshedEventually`, `AuditedEventually`,
`PlannedUnlessLost`, `EmbeddedEventually`, `WrittenUnlessDisturbed`, and that
`KeepsPromise` groups every message in the end), since the provers have no rule for
it. Every safety property of a run that must pass is a theorem as well.

## 6. Not modelled

- HTTP application, admin pages, configuration, prompts, models, logging: handlers
  validate and call the world or the store, pages read and render. They keep no
  state that another call could find changed.
- What an answer of the model says, beyond what the store decides by: several
  candidates of one extraction that supersede the same Memory, wording, confidence,
  aliases and the matching of names in text.
- The reading side beyond ranking: budgets and sampling of a context are functions
  of what is read, without state.
- Full-text rows, which are written in the transaction of their Memory.
- The messages' idempotency keys on the server beyond what `Hermes` needs of them;
  the parsing of chat files by an import.
- A clock that goes back (the stamps are wall-clock times), and a database that
  processes of two versions of the program migrate at once.
- A flush timer that outlives `stop()` because `_flush_tasks` lost it
  (`world.py:491`): the extraction module has it while the process runs, and takes a
  process that has stopped to have no task.
- Threads between two assignments of the plugin that one step stands for: the single
  clears of `initialize`, the queue and the start of its writer, those of a shutdown.
- The tools of the plugin and the other calls of the SDK: one request each.

## 7. Plan

What is left, in order of what it would add:

1. An abstract memory service (messages in, cards that contain them) that
   `ExtractionPipeline` and `OwnerFold` implement together.
2. The several candidates of one extraction, as a module of its own.
