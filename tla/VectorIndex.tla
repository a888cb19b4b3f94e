---------------------------- MODULE VectorIndex ----------------------------
(***************************************************************************)
(* Vectors: the rows of the main database, the index beside it in a file   *)
(* of its own, and the worker that embeds what has no row. VectorSearch    *)
(* has the searches.  (src/src/gossipmemo/store/_vectors.py, the embedding *)
(* worker of world.py, embedding.py.)                                      *)
(*                                                                         *)
(* The owners of one kind and space are numbers: the smaller is nearer to  *)
(* the query, whatever version of its text a vector is of. A hash, and a   *)
(* vector, are the version they were made from; a model stands for the     *)
(* model and the dimension. The extension may fail to load, and the file   *)
(* to attach, each time they are tried.                                    *)
(*                                                                         *)
(* Left out: a second process; queries of another dimension than the       *)
(* rows', which raise and are ranked by words alone; the sweep of orphans, *)
(* for no code deletes an owner.                                           *)
(***************************************************************************)
EXTENDS VectorSearch

CONSTANTS
    Models,
    BatchSize,
    MaxWrites,      \* bound: texts written
    MaxEvents       \* bound: stops, crashes, failures and fall-backs, together

\* what the proofs ask of the constants
Parameters ==
    /\ IsFiniteSet(Owners) /\ Owners \subseteq Nat
    /\ None \notin Models
    /\ {Wanted, OverFetch, Escalated, MaxWrites, MaxEvents} \subseteq Nat
    /\ BatchSize \in Nat \ {0}

VARIABLES
    text,       \* version of each owner's text; 0: there is no such owner yet
    phase,      \* down, up, stopping
    worker,     \* idle, look, ask, backoff
    batch,      \* owners and versions the provider is asked for
    events

vars == <<text, active, rows, index, model, phase, worker, batch, missed, events>>

NoIndex == [model |-> None, rows |-> [o \in Owners |-> 0]]
Known   == {o \in Owners : text[o] # 0}

Event == events < MaxEvents /\ events' = events + 1

\* the extension does not load, or the file is not attached
IndexAway == Event

-----------------------------------------------------------------------------
(* The worker. *)

\* pending_embeddings: no row, a row of another text or of another model
Pending(m) == {o \in Known : rows[o] # [model |-> m, text |-> text[o]]}

\* Seeded fault of Scheduled: it does not ask whether there is an embedding.
ScheduledAnyway == IF phase = "up" /\ worker = "idle" THEN "look" ELSE worker

\* _schedule_embedding
Scheduled == IF phase = "up" /\ model # None /\ worker = "idle" THEN "look" ELSE worker

\* _process_embedding_batch up to the request, or the end of the loop
WorkerLooks ==
    /\ worker = "look"
    /\ IF phase = "stopping" \/ Pending(model) = {}
       THEN worker' = "idle" /\ UNCHANGED batch
       ELSE /\ worker' = "ask"
            /\ batch' = [o \in Closest(Pending(model), BatchSize) |-> text[o]]
    /\ UNCHANGED <<text, active, rows, index, model, phase, missed, events>>

\* The rows of a batch are written under the text that was read for it.
Upserted == [o \in Owners |-> IF o \in DOMAIN batch
                              THEN [model |-> model, text |-> batch[o]]
                              ELSE rows[o]]

\* the index takes the batch when it is of this model
IndexUpserted ==
    IF index.model = model
    THEN [index EXCEPT !.rows = [o \in Owners |-> IF o \in DOMAIN batch THEN batch[o]
                                                  ELSE index.rows[o]]]
    ELSE index

\* upsert_embeddings: both files, when the index is there
WorkerWrites ==
    /\ worker = "ask"
    /\ rows' = Upserted
    /\ \/ /\ index' = IndexUpserted
          /\ missed' = IF index.model = model THEN missed \ DOMAIN batch ELSE missed
          /\ UNCHANGED events
       \/ /\ IndexAway
          /\ missed' = missed \cup DOMAIN batch
          /\ UNCHANGED index
    /\ worker' = "look"
    /\ batch' = <<>>
    /\ UNCHANGED <<text, active, model, phase>>

\* the process ends between the commit of the one file and of the other
CrashBetween ==
    /\ worker = "ask" /\ index.model = model
    /\ Event
    /\ rows' = Upserted
    /\ missed' = missed \cup DOMAIN batch
    /\ phase' = "down" /\ worker' = "idle" /\ batch' = <<>> /\ model' = None
    /\ UNCHANGED <<text, active, index>>

\* Seeded fault of AfterFailure: a failed batch ends the worker.
AfterFailureEnds == "idle"

AfterFailure == "backoff"

\* the provider fails, or its answer is no answer
WorkerFails ==
    /\ worker = "ask"
    /\ Event
    /\ worker' = AfterFailure
    /\ batch' = <<>>
    /\ UNCHANGED <<text, active, rows, index, model, phase, missed>>

WorkerRetries ==
    /\ worker = "backoff"
    /\ worker' = "look"
    /\ UNCHANGED <<text, active, rows, index, model, phase, batch, missed, events>>

-----------------------------------------------------------------------------
(* The process. *)

\* Seeded fault of Rebuilt: an index there is is kept, whatever it is of.
RebuiltKept(m) == IF index.model = None THEN
    [model |-> m, rows |-> [o \in Owners |-> IF rows[o].model = m THEN rows[o].text ELSE 0]]
    ELSE [index EXCEPT !.model = m]

\* _rebuild_sidecar: from the rows of the model
Rebuilt(m) ==
    [model |-> m, rows |-> [o \in Owners |-> IF rows[o].model = m THEN rows[o].text ELSE 0]]

\* resolve_embedding_dim: what the provider tells must be what is configured,
\* and either will do alone; without any there is no embedding
Resolved(probed, configured) ==
    IF probed = None THEN configured
    ELSE IF configured \in {None, probed} THEN probed ELSE None

\* start: no embedding; an index of this model is kept; another one is built
\* anew; or it cannot be reached
Start(m) ==
    /\ phase = "down"
    /\ phase' = "up" /\ model' = m
    /\ \/ m = None /\ UNCHANGED <<index, missed, worker, events>>
       \/ m # None /\ index.model = m /\ worker' = "look" /\ UNCHANGED <<index, missed, events>>
       \/ m # None /\ index.model # m /\ worker' = "look"
          /\ \/ index' = Rebuilt(m) /\ missed' = {} /\ UNCHANGED events
             \/ IndexAway /\ UNCHANGED <<index, missed>>
    /\ UNCHANGED <<text, active, rows, batch>>

\* the process ends while it builds: the tables are there and nothing in them
CrashBuilding(m) ==
    /\ phase = "down" /\ m # None /\ index.model # m
    /\ Event
    /\ index' = NoIndex
    /\ UNCHANGED <<text, active, rows, model, phase, worker, batch, missed>>

\* stop waits for the worker, which ends when it has written what it asked for
Stop ==
    /\ phase = "up"
    /\ Event
    /\ phase' = "stopping"
    /\ UNCHANGED <<text, active, rows, index, model, worker, batch, missed>>

Stopped ==
    /\ phase = "stopping" /\ worker = "idle"
    /\ phase' = "down" /\ model' = None
    /\ UNCHANGED <<text, active, rows, index, worker, batch, missed, events>>

Crash ==
    /\ phase # "down"
    /\ Event
    /\ phase' = "down" /\ model' = None /\ worker' = "idle" /\ batch' = <<>>
    /\ UNCHANGED <<text, active, rows, index, missed>>

\* the versions there were of the texts
Written == Cardinality({w \in Owners \X (1..MaxWrites) : w[2] <= text[w[1]]})

\* a text is written: by a reasoner, which schedules the worker when it is
\* done, or by a request, which does not
Write(o) ==
    /\ phase = "up" /\ Written < MaxWrites
    /\ text' = [text EXCEPT ![o] = @ + 1]
    /\ active' = IF text[o] = 0 THEN active \cup {o} ELSE active
    /\ worker' \in {worker, Scheduled}
    /\ UNCHANGED <<rows, index, model, phase, batch, missed, events>>

\* a status changes without the text: nothing of a vector does
Retract(o) ==
    /\ phase = "up" /\ o \in active
    /\ active' = active \ {o}
    /\ UNCHANGED <<text, rows, index, model, phase, worker, batch, missed, events>>

-----------------------------------------------------------------------------
Init ==
    /\ text = [o \in Owners |-> 0] /\ active = {}
    /\ rows = [o \in Owners |-> NoRow] /\ index = NoIndex
    /\ model = None /\ phase = "down" /\ worker = "idle" /\ batch = <<>>
    /\ missed = {} /\ events = 0

Next ==
    \/ WorkerLooks \/ WorkerWrites \/ WorkerFails \/ WorkerRetries \/ CrashBetween
    \/ \E probed, configured \in Models \cup {None} :
          LET m == Resolved(probed, configured) IN Start(m) \/ CrashBuilding(m)
    \/ Stop \/ Stopped \/ Crash
    \/ \E o \in Owners : Write(o) \/ Retract(o)

\* the event loop runs the worker, and the provider answers or fails
WorkerSteps == WorkerLooks \/ WorkerWrites \/ WorkerRetries

Spec == Init /\ [][Next]_vars /\ WF_vars(WorkerSteps)

-----------------------------------------------------------------------------
(* Properties. *)

\* The worker and the store keep their state within these types.
TypeOK ==
    /\ text \in [Owners -> 0..MaxWrites]
    /\ active \subseteq Known
    /\ \A o \in Owners : rows[o] \in {NoRow} \cup [model : Models, text : 1..MaxWrites]
    /\ index.model \in Models \cup {None} /\ index.rows \in [Owners -> 0..MaxWrites]
    /\ model \in Models \cup {None}
    /\ phase \in {"down", "up", "stopping"} /\ (phase = "down" => model = None)
    /\ worker \in {"idle", "look", "ask", "backoff"} /\ (worker # "idle" => model # None)
    /\ (batch # <<>>) = (worker = "ask")
    /\ \A o \in DOMAIN batch : o \in Known /\ batch[o] \in 1..text[o]
    /\ missed \subseteq Owners /\ events \in 0..MaxEvents

\* While the worker runs, and though the provider fails and texts change under
\* a request, what has no vector gets one, or the process ends.
EmbeddedEventually ==
    \A o \in Owners :
        (worker # "idle" /\ o \in Pending(model)) ~> (o \notin Pending(model) \/ phase # "up")
=============================================================================
