--------------------------- MODULE VectorSearch -----------------------------
(***************************************************************************)
(* The two ways a search for the nearest vectors may go, what is made of   *)
(* what it finds, and that both make the same. VectorIndex has the steps.  *)
(* (_search_sidecar and _search_python of src/src/gossipmemo/store/        *)
(* _vectors.py, and their callers.)                                        *)
(***************************************************************************)
EXTENDS Naturals, FiniteSets, Sequences, SequencesExt, FiniteSetsExt

CONSTANTS
    Owners,         \* 1..n, the nearest first
    None,
    Wanted,         \* k: how many a search asks for
    OverFetch,      \* how many the index is asked for ...
    Escalated,      \* ... and how many when those were too few
    Compares,       \* how many memories an extraction is given to compare with
    RankOffset      \* k of the fusion of two rankings

VARIABLES
    active,     \* owners whose status is asked for
    rows,       \* the main table: model and version of each owner's vector
    index,      \* the index: the model in its meta row, and its versions
    model,      \* the model of the running process, or None
    missed      \* history: owners whose last vector did not reach an index of
                \* the same model

NoRow == [model |-> None, text |-> 0]

Sorted(S) == SetToSortSeq(S, LAMBDA a, b : a < b)
Cut(s, n) == SubSeq(s, 1, Min({n, Len(s)}))

\* the n nearest of S
Closest(S, n) == {o \in S : Cardinality({p \in S : p < o}) < n}

-----------------------------------------------------------------------------
(* Searches. What is found is a set of owners: their numbers rank them.     *)

\* the owners that have a vector
InIndex == {o \in Owners : index.rows[o] # 0}
InMain  == {o \in Owners : rows[o] # NoRow}

\* _sidecar_knn_joined: the nearest n, and then the status
Nearest(n) == Closest(InIndex, n) \cap active

\* _search_sidecar: once more and wider, when the status has left too few of as
\* many as were asked for
SearchIndex ==
    LET first == Nearest(OverFetch)
        short == /\ Cardinality(first) < Wanted
                 /\ Cardinality(Closest(InIndex, OverFetch)) = OverFetch
    IN  Closest(IF short /\ Escalated > OverFetch THEN Nearest(Escalated) ELSE first, Wanted)

\* _search_python: the status first
SearchMain == Closest(InMain \cap active, Wanted)

\* reciprocal_rank_fusion of two rankings; the score of an owner is the sum of
\* 1 / (RankOffset + rank), here in units of 1 / Unit
Unit == FoldSet(LAMBDA r, u : u * (RankOffset + r), 1, 0..Cardinality(Owners))
Share(s, o) == FoldSet(LAMBDA i, u : u + (IF s[i] = o THEN Unit \div (RankOffset + i - 1) ELSE 0),
                       0, DOMAIN s)
Fused(s, t) ==
    LET seen == s \o SelectSeq(t, LAMBDA o : o \notin ToSet(s))
        score(o) == Share(s, o) + Share(t, o)
        first(o) == CHOOSE i \in DOMAIN seen : seen[i] = o
    IN  SetToSortSeq(ToSet(seen),
                     LAMBDA a, b : score(a) > score(b)
                                   \/ (score(a) = score(b) /\ first(a) < first(b)))

\* _recall_memories, before the limit cuts it: the words' ranking, and the hits
\* that are in scope
Recall(words, hits, scope) ==
    Fused(words, Sorted(hits \cap scope))

\* read, likewise: without a word or a hit, the latest of the scope
Query(words, hits, scope) ==
    LET fused == Recall(words, hits, scope)
    IN  IF fused = <<>> THEN Reverse(Sorted(scope)) ELSE fused

\* embed_query_vector: without a client or an answer a query has no vector, and
\* nothing is searched for
HasVector(answered) == model # None /\ answered

\* load_extraction_comparisons: the fusion and then who else is mentioned; when
\* no text of the batch has a vector, both as the latest come
Compared(words, hits, mentioned, answered) ==
    LET latest(S) == Reverse(Sorted(S))
        fused == Fused(words, Sorted(hits \cap active))
    IN  Cut(IF HasVector(answered) /\ fused # <<>>
            THEN fused \o latest(mentioned \ ToSet(fused))
            ELSE latest(ToSet(words) \cup mentioned),
            Compares)

\* similarity_priority_order: what was found first, as it was found, and the
\* rest in the order it had
Prioritised(items, hits) ==
    Sorted(hits \cap ToSet(items)) \o SelectSeq(items, LAMBDA o : o \notin hits)

-----------------------------------------------------------------------------
\* The index is of the present model and took every vector, and so are the rows.
IndexWhole ==
    /\ model # None /\ index.model = model /\ missed = {}
    /\ \A o \in Owners : rows[o].model \in {None, model}

\* Whichever way a search goes, a query returns the same memories, an extraction
\* compares with the same and a review weighs them in the same order, from vectors
\* of the same texts: as long as the index is of the present model and took
\* every vector, the rows of the main table are of that model too, and the
\* widened search covers them. That holds through changes of model, builds cut
\* short, retractions after the vector was made and texts written again.
SearchPathsAgree ==
    (IndexWhole /\ Cardinality(InMain) <= Escalated)
    => /\ \A o \in Owners : index.rows[o] = rows[o].text
       /\ \A scope \in {active, active \ {1}} :
          \A words \in {<<>>, Sorted(scope), Reverse(Sorted(scope))} :
          \A answered \in BOOLEAN :
             LET one   == IF HasVector(answered) THEN SearchIndex ELSE {}
                 other == IF HasVector(answered) THEN SearchMain ELSE {}
             IN  /\ Query(words, one, scope) = Query(words, other, scope)
                 /\ Compared(words, one, scope, answered) = Compared(words, other, scope, answered)
                 /\ Prioritised(words, one) = Prioritised(words, other)
=============================================================================
