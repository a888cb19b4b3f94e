---------------------------- MODULE MCBackground ----------------------------
(* The four parts of the background that share no state with each other, in *)
(* one run: the vectors, the migrations, the continuity and the reviews of  *)
(* an owner. No step of the program writes the state of two of them, and    *)
(* each property is about one, so a behaviour of all of them shows what its *)
(* four projections show: part says which one moves.                        *)
EXTENDS VectorSearch, ContinuityState, OwnerReviewState

CONSTANTS
    Models, BatchSize, VectorWrites, VectorEvents,
    Processes, MigrationEvents,
    MaxMessages, ContinuityEvents,
    Reviewers, MaxImports, MaxRows, ReviewWrites

VARIABLES
    part,
    text, phase, worker, batch, vectorEvents,
    found, db, backups, overwritten, lock, copy, steps, tables, plan, written, migrationEvents,
    continuityEvents

Vectors == INSTANCE VectorIndex WITH
    MaxWrites <- VectorWrites, MaxEvents <- VectorEvents, events <- vectorEvents

Schema == INSTANCE Migrations WITH
    MaxEvents <- MigrationEvents, events <- migrationEvents, phase <- steps

Summary == INSTANCE Continuity WITH
    MaxEvents <- ContinuityEvents, events <- continuityEvents

Reviews == INSTANCE OwnerReview WITH MaxWrites <- ReviewWrites

ASSUME VectorAssumption == Vectors!Parameters
ASSUME SummaryAssumption == Summary!Parameters
ASSUME SchemaAssumption == Schema!Parameters
ASSUME ReviewAssumption == Reviews!Parameters

vectors == <<text, active, rows, index, model, phase, worker, batch, missed, vectorEvents>>
schema  == <<found, db, backups, overwritten, lock, copy, steps, tables, plan, written,
             migrationEvents>>
summary == <<count, through, loop, read, up, intake, importing, summarised, gaveUp,
             continuityEvents>>
vars    == <<part, vectors, schema, summary, reviewed>>

Init ==
    /\ part \in {"vectors", "schema", "summary", "reviews"}
    /\ Vectors!Init /\ Schema!Init /\ Summary!Init /\ Reviews!Init
    /\ part # "schema" => found = Schema!Empty
    /\ part # "reviews" => kind = "person"

VectorsMove ==
    /\ part = "vectors" /\ Vectors!Next
    /\ UNCHANGED <<part, schema, summary, reviewed>>
SchemaMoves ==
    /\ part = "schema" /\ Schema!Next
    /\ UNCHANGED <<part, vectors, summary, reviewed>>
SummaryMoves ==
    /\ part = "summary" /\ Summary!Next
    /\ UNCHANGED <<part, vectors, schema, reviewed>>
ReviewsMove ==
    /\ part = "reviews" /\ Reviews!Next
    /\ UNCHANGED <<part, vectors, schema, summary>>

Next == VectorsMove \/ SchemaMoves \/ SummaryMoves \/ ReviewsMove

\* the worker of the vectors alone must go on; the other parts state safety
WorkerRuns ==
    /\ part = "vectors" /\ Vectors!WorkerSteps
    /\ UNCHANGED <<part, schema, summary, reviewed>>

Spec == Init /\ [][Next]_vars /\ WF_vars(WorkerRuns)

-----------------------------------------------------------------------------
\* The part that moves keeps its state within its types.
TypeOK ==
    CASE part = "vectors" -> Vectors!TypeOK
      [] part = "schema"  -> Schema!TypeOK
      [] part = "summary" -> Summary!TypeOK
      [] part = "reviews" -> Reviews!TypeOK

\* VectorIndex: while the worker runs, what has no vector gets one.
EmbeddedEventually == Vectors!EmbeddedEventually

\* Migrations: what was interrupted, the next start can finish.
NextStartSucceeds == part = "schema" => Schema!NextStartSucceeds
=============================================================================
