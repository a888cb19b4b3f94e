-------------------------- MODULE ExtractionPromise --------------------------
(***************************************************************************)
(* What the intake and extraction pipeline promises for one space, without *)
(* timers, tasks, restarts or retries: every recorded message is, sooner   *)
(* or later, grouped once with its neighbours into a batch of at most      *)
(* BatchSize messages, and the messages of a batch are extracted together, *)
(* once.                                                                   *)
(***************************************************************************)
EXTENDS Naturals

CONSTANTS
    MaxMessages,   \* bound: messages recorded in a behaviour
    BatchSize      \* extraction_batch_size

Messages == 1..MaxMessages

VARIABLES
    recorded,      \* messages 1..recorded exist, in the order of ingestion
    grouped,       \* messages 1..grouped belong to a batch
    batchOf,       \* the batch of each message, named by its first message; 0: none
    extracted      \* the messages whose batch has been extracted

vars == <<recorded, grouped, batchOf, extracted>>

Init ==
    /\ recorded = 0
    /\ grouped = 0
    /\ batchOf = [m \in Messages |-> 0]
    /\ extracted = {}

\* The messages after the first `grouped` are cut, up to some message, into
\* runs of neighbours; nobody's batch changes afterwards.
Cut ==
    /\ grouped' \in grouped..recorded'
    /\ \A m \in Messages :
          IF m > grouped /\ m <= grouped'
          THEN /\ batchOf'[m] \in grouped + 1..m
               /\ m < batchOf'[m] + BatchSize
               /\ \A n \in batchOf'[m]..m : batchOf'[n] = batchOf'[m]
          ELSE batchOf'[m] = batchOf[m]

\* Messages arrive, are grouped, or both in one step (an import).
Ingest ==
    /\ recorded' \in recorded..MaxMessages
    /\ Cut
    /\ UNCHANGED extracted

\* One batch is extracted as a whole, and never again.
Extract ==
    /\ \E b \in Messages :
          /\ batchOf[b] = b
          /\ b \notin extracted
          /\ extracted' = extracted \cup {m \in Messages : batchOf[m] = b}
    /\ UNCHANGED <<recorded, grouped, batchOf>>

Next == Ingest \/ Extract

\* No recorded message stays without a batch.
EveryMessageGrouped ==
    \A m \in Messages : (recorded >= m) ~> (grouped >= m)

Safe == Init /\ [][Next]_vars

Spec == Safe /\ EveryMessageGrouped
=============================================================================
