---------------------------- MODULE OwnerReview ----------------------------
(***************************************************************************)
(* The actions that come with a card: inferences drawn, withdrawn, and     *)
(* hypotheses proposed and closed, by two processes that review one owner  *)
(* while Memories come and go.  (src/src/gossipmemo/store/_reasoning.py    *)
(* and the three owner reasoners.)                                         *)
(*                                                                         *)
(* OwnerFold has the cards of many owners and the merge of people; here is *)
(* one owner, of any of the three kinds, and the rows beside its card. All *)
(* inferences make one claim, and so do all hypotheses: rows of another    *)
(* claim do not meet these. The server and an import of the same file each *)
(* run the reasoner; a transaction is a step, a SELECT outside of one is a *)
(* step, and so is what a store method compares before its first write. An *)
(* import with a card for the user puts it in the place of the present one.*)
(*                                                                         *)
(* Left out: the newest hundred, and what of those fits in a request       *)
(* (_bounded_comparisons): an answer that cannot name a row is one that    *)
(* does not; roles of evidence, confidence, wording.                       *)
(***************************************************************************)
EXTENDS OwnerReviewState, Naturals, FiniteSets, Sequences, FiniteSetsExt

CONSTANTS
    Reviewers,      \* processes
    None,
    MaxRows,        \* bound: rows of inferences, and of hypotheses
    MaxWrites,      \* bound: writes to the Memories of Evidence
    MaxImports      \* bound: cards imported for the user

\* what the proofs ask of the constants
Parameters == {MaxRows, MaxWrites, MaxImports} \subseteq Nat

vars == reviewed

\* Inference i is the Memory Cardinality(Evidence) + i.
InferenceIds == 1..MaxRows
MemoryOf(i)  == Cardinality(Evidence) + i
Memories     == Evidence \cup {MemoryOf(i) : i \in InferenceIds}

Idle == [stage |-> "idle", since |-> 0, shown |-> 0, expected |-> 0,
         draft |-> [m \in Evidence |-> 0], inferred |-> {}, open |-> {}]

Watermark == Max({0} \cup {updated[m] : m \in Evidence})

\* is_profile_stale, of a card with this watermark
Stale(since) ==
    Watermark # 0 /\ IF kind = "person" THEN since < Watermark ELSE since # Watermark

-----------------------------------------------------------------------------
(* What an answer asks for: inferences drawn from sets of Memories, an     *)
(* inference to withdraw, a hypothesis to propose or to add to, and one to *)
(* close. A fold of two batches joins what both ask for.                   *)
Sources   == (SUBSET Evidence) \ {{}}
Proposals == [id : {None} \cup 1..MaxRows, evidence : Sources]
Moves     == {v \in [id : 1..MaxRows, status : {"promoted", "rejected"},
                     to : {None} \cup Memories] :
                 (v.status = "promoted") = (v.to # None)}

Asks(infer, retract, propose, move) ==
    [infer |-> infer, retract |-> retract, propose |-> propose, move |-> move]

Answers ==
    {Asks(<<>>, None, None, None)}
    \cup {Asks(<<s>>, None, p, None) : s \in Sources, p \in Proposals \cup {None}}
    \cup {Asks(<<s, t>>, None, None, None) : s \in Sources, t \in Sources}
    \cup {Asks(<<>>, i, None, v) : i \in InferenceIds, v \in Moves \cup {None}}
    \cup {Asks(<<>>, None, p, v) : p \in Proposals, v \in Moves \cup {None}}
    \cup {Asks(<<>>, None, None, v) : v \in Moves}

-----------------------------------------------------------------------------
(* The commit. *)

\* the sources of a claim that are still active and the owner's
Valid(S) == S \cap ActiveEvidence

\* _reconcile_inferred_memories: each finds the row it repeats among those
\* there were before the first of them
Drawn(rows, answer) ==
    LET repeated == ActiveInferences(rows)
        Draw(now, S) ==
            IF Valid(S) = {} THEN now
            ELSE IF repeated # {}
                 THEN [now EXCEPT ![Min(repeated)].from = @ \cup Valid(S)]
                 ELSE Append(now, [status |-> "active", from |-> Valid(S)])
        one == IF answer.infer = <<>> THEN rows ELSE Draw(rows, answer.infer[1])
    IN  IF Len(answer.infer) < 2 THEN one ELSE Draw(one, answer.infer[2])

\* _apply_inferred_memory_actions; the UserModel applies none
Inferred(answer, shown) ==
    LET rows == Drawn(inferences, answer)
    IN  IF kind = "user" THEN inferences
        ELSE [i \in DOMAIN rows |->
                 IF i = answer.retract /\ i \in shown /\ rows[i].status = "active"
                 THEN [rows[i] EXCEPT !.status = "retracted"] ELSE rows[i]]

\* the upserts of _apply_hypothesis_actions: one with an id must have been shown
\* it and find it open, one without joins the open row of its claim
Proposed(p, shown) ==
    LET none == [status |-> "open", evidence |-> {}, to |-> None]
        hit  == IF p.id # None THEN {p.id} \cap shown \cap Open(hypotheses)
                               ELSE Open(hypotheses)
    IN  IF p = None THEN hypotheses
        ELSE IF Valid(p.evidence) = {} \/ (p.id # None /\ hit = {}) THEN hypotheses
        ELSE IF hit = {} THEN Append(hypotheses, [none EXCEPT !.evidence = Valid(p.evidence)])
        ELSE [hypotheses EXCEPT ![Min(hit)].evidence = @ \cup Valid(p.evidence)]

\* the transitions: of a hypothesis that was shown and is open, and to a Memory
\* that is active, when it is promoted
Moved(rows, v, shown, drawn) ==
    IF v = None THEN rows
    ELSE IF /\ v.id \in shown \cap Open(rows)
            /\ \/ v.to = None
               \/ v.to \in ActiveEvidence
               \/ v.to \in {MemoryOf(i) : i \in ActiveInferences(drawn)}
    THEN [rows EXCEPT ![v.id] = [@ EXCEPT !.status = v.status, !.to = v.to]]
    ELSE rows

\* Seeded fault of Claimed: the answer is written whatever came meanwhile.
ClaimedAlways(r) == TRUE

\* the condition of the write itself; a Relationship's has none
Claimed(r) ==
    /\ kind = "person" => Watermark = review[r].expected
    /\ kind # "relationship" => source < review[r].expected

Commit(r) ==
    /\ review[r].stage = (IF kind = "person" THEN "asked" ELSE "checked")
    /\ Claimed(r)
    /\ \E answer \in Answers :
          LET drawn == Inferred(answer, review[r].inferred)
              moved == Moved(Proposed(answer.propose, review[r].open), answer.move,
                             review[r].open, drawn)
          IN  /\ Len(drawn) <= MaxRows /\ Len(moved) <= MaxRows
              /\ inferences' = drawn
              /\ hypotheses' = moved
    /\ source' = IF kind = "user" THEN review[r].expected ELSE Watermark
    /\ card' = review[r].draft /\ UNCHANGED <<replaced, imports>>
    /\ raced' = \/ raced
                \/ review[r].shown # review[r].expected
                \/ kind = "relationship" /\ Watermark # review[r].expected
    /\ review' = [review EXCEPT ![r] = Idle]
    /\ UNCHANGED <<kind, clock, status, updated>>

\* the Memories changed since they were read: the next attempt reads again
Conflict(r) ==
    /\ review[r].stage = "asked" /\ Watermark # review[r].expected
    /\ review' = [review EXCEPT ![r] = Idle]
    /\ UNCHANGED <<kind, clock, status, updated, inferences, hypotheses, cards, raced>>

\* the other process has written the card of this watermark, or of a later one
Refused(r) ==
    /\ review[r].stage = (IF kind = "person" THEN "asked" ELSE "checked")
    /\ Watermark = review[r].expected \/ kind = "user"
    /\ ~ Claimed(r)
    /\ review' = [review EXCEPT ![r] = Idle]
    /\ UNCHANGED <<kind, clock, status, updated, inferences, hypotheses, cards, raced>>

\* the watermark is compared before the transaction begins
Check(r) ==
    /\ kind # "person" /\ review[r].stage = "asked"
    /\ Watermark = review[r].expected
    /\ review' = [review EXCEPT ![r].stage = "checked"]
    /\ UNCHANGED <<kind, clock, status, updated, inferences, hypotheses, cards, raced>>

-----------------------------------------------------------------------------
\* load_context: a card that is stale is chosen, ...
Choose(r) ==
    /\ review[r].stage = "idle" /\ Stale(source)
    /\ review' = [review EXCEPT ![r].stage = "chosen"]
    /\ UNCHANGED <<kind, clock, status, updated, inferences, hypotheses, cards, raced>>

\* ... and read, ...
ReadCard(r) ==
    /\ review[r].stage = "chosen"
    /\ review' = [review EXCEPT ![r].stage = "card", ![r].since = source, ![r].draft = card]
    /\ UNCHANGED <<kind, clock, status, updated, inferences, hypotheses, cards, raced>>

\* ... the Memories written since the card's watermark, ...
ReadMemories(r) ==
    LET c == review[r] IN
    /\ c.stage = "card"
    /\ review' = [review EXCEPT ![r] = [c EXCEPT
          !.stage = "memories", !.shown = Watermark,
          !.draft = [m \in Evidence |-> IF c.since = 0 \/ updated[m] > c.since
                                        THEN updated[m] ELSE c.draft[m]]]]
    /\ UNCHANGED <<kind, clock, status, updated, inferences, hypotheses, cards, raced>>

\* ... the watermark of the Memories, by which the card may not be stale, ...
ReadWatermark(r) ==
    LET c == review[r] IN
    /\ c.stage = "memories"
    /\ review' = [review EXCEPT ![r] =
          IF Stale(c.since)
          THEN [c EXCEPT !.stage = "reading", !.since = 0, !.expected = Watermark]
          ELSE Idle]
    /\ UNCHANGED <<kind, clock, status, updated, inferences, hypotheses, cards, raced>>

\* ... and then owner_review_context
ReadReview(r) ==
    /\ review[r].stage = "reading"
    /\ review' = [review EXCEPT ![r].stage = "asked",
                                ![r].inferred = ActiveInferences(inferences),
                                ![r].open = Open(hypotheses)]
    /\ UNCHANGED <<kind, clock, status, updated, inferences, hypotheses, cards, raced>>

\* the calls fail, or the process ends and starts anew
Lost(r) ==
    /\ review[r].stage = "asked"
    /\ review' = [review EXCEPT ![r] = Idle]
    /\ UNCHANGED <<kind, clock, status, updated, inferences, hypotheses, cards, raced>>

Stamp(m) ==
    /\ clock < MaxWrites
    /\ clock' = clock + 1
    /\ updated' = [updated EXCEPT ![m] = clock + 1]

\* a Memory of the owner is extracted or added by hand
Add(m) ==
    /\ status[m] = "none" /\ \A n \in Evidence : n < m => status[n] # "none"
    /\ Stamp(m)
    /\ status' = [status EXCEPT ![m] = "active"]
    /\ UNCHANGED <<kind, inferences, hypotheses, cards, review, raced>>

\* one is retracted, or superseded by another owner's
Retract(m) ==
    /\ status[m] = "active"
    /\ Stamp(m)
    /\ status' = [status EXCEPT ![m] = "retracted"]
    /\ UNCHANGED <<kind, inferences, hypotheses, cards, review, raced>>

\* a request retracts an inference, which is in nobody's watermark
RetractInference(i) ==
    /\ i \in ActiveInferences(inferences)
    /\ inferences' = [inferences EXCEPT ![i].status = "retracted"]
    /\ UNCHANGED <<kind, clock, status, updated, hypotheses, cards, review, raced>>

\* overwrite_user_model: the watermark, ...
OverwriteReads(r) ==
    /\ kind = "user" /\ review[r].stage = "idle"
    /\ imports < MaxImports /\ imports' = imports + 1
    /\ review' = [review EXCEPT ![r] = [Idle EXCEPT !.stage = "overwriting",
                                                   !.expected = Watermark]]
    /\ UNCHANGED <<kind, clock, status, updated, inferences, hypotheses, source, card, replaced,
                   raced>>

\* ... and the card, of which no Memory is a part
Overwrite(r) ==
    /\ review[r].stage = "overwriting"
    /\ source' = review[r].expected /\ replaced' = Max({replaced, source'})
    /\ card' = [m \in Evidence |-> 0]
    /\ review' = [review EXCEPT ![r] = Idle]
    /\ UNCHANGED <<kind, clock, status, updated, inferences, hypotheses, imports, raced>>

-----------------------------------------------------------------------------
Init ==
    /\ kind \in {"person", "relationship", "user"}
    /\ clock = 0
    /\ status = [m \in Evidence |-> "none"] /\ updated = [m \in Evidence |-> 0]
    /\ inferences = <<>> /\ hypotheses = <<>>
    /\ source = 0 /\ card = [m \in Evidence |-> 0] /\ replaced = 0 /\ imports = 0
    /\ review = [r \in Reviewers |-> Idle]
    /\ raced = FALSE

Next ==
    \/ \E r \in Reviewers :
          \/ Choose(r) \/ ReadCard(r) \/ ReadMemories(r) \/ ReadWatermark(r) \/ ReadReview(r)
          \/ Lost(r) \/ Check(r) \/ Commit(r) \/ Conflict(r) \/ Refused(r)
          \/ OverwriteReads(r) \/ Overwrite(r)
    \/ \E m \in Evidence : Add(m) \/ Retract(m)
    \/ \E i \in InferenceIds : RetractInference(i)

Spec == Init /\ [][Next]_vars

-----------------------------------------------------------------------------
(* Properties. *)

\* The rows, the card and the reviews keep their state within these types.
TypeOK ==
    /\ kind \in {"person", "relationship", "user"}
    /\ clock \in 0..MaxWrites /\ {source, replaced} \subseteq 0..clock
    /\ imports \in 0..MaxImports /\ raced \in BOOLEAN
    /\ status \in [Evidence -> {"none", "active", "retracted"}]
    /\ updated \in [Evidence -> 0..clock] /\ card \in [Evidence -> 0..clock]
    /\ \A m \in Evidence : (status[m] = "none") = (updated[m] = 0)
    /\ Len(inferences) <= MaxRows /\ Len(hypotheses) <= MaxRows
    /\ \A i \in DOMAIN inferences : inferences[i] \in
          [status : {"active", "retracted"}, from : Sources]
    /\ \A h \in DOMAIN hypotheses :
          /\ hypotheses[h].status \in {"open", "promoted", "rejected"}
          /\ hypotheses[h].evidence \in Sources
          /\ hypotheses[h].to \in {None} \cup Memories
          /\ (hypotheses[h].status = "promoted") = (hypotheses[h].to # None)
    /\ \A r \in Reviewers :
          /\ review[r].stage \in {"idle", "chosen", "card", "memories", "reading", "asked",
                                 "checked", "overwriting"}
          /\ {review[r].since, review[r].shown, review[r].expected} \subseteq 0..clock
          /\ review[r].inferred \subseteq InferenceIds /\ review[r].open \subseteq 1..MaxRows
=============================================================================
