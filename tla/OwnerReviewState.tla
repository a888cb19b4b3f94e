------------------------- MODULE OwnerReviewState ---------------------------
(***************************************************************************)
(* What is kept beside the card of one owner, and what its reviews have to *)
(* respect. OwnerReview has the steps.                                     *)
(***************************************************************************)
EXTENDS Naturals

CONSTANT Evidence   \* Memories that are not inferred, 1..n in the order they come

VARIABLES
    kind,       \* person, relationship, user
    clock,
    status,     \* of Evidence: none, active, retracted
    updated,    \* stamp of the last write to each; 0: none
    inferences, \* status of each, and the Memories it is derived from
    hypotheses, \* status of each, its evidence, and what it was promoted to
    source,     \* the watermark of the card
    card,       \* the stamp of each Memory as the card has it
    replaced,   \* history: the latest watermark an imported card was given, or 0
    imports,    \* cards imported
    review,     \* the review each process runs
    raced       \* history: a review committed although a Memory was written between
                \* its two reads, or between its check and its commit

cards    == <<source, card, replaced, imports>>
reviewed == <<kind, clock, status, updated, inferences, hypotheses, cards, review, raced>>

ActiveEvidence == {m \in Evidence : status[m] = "active"}
ActiveInferences(rows) == {i \in DOMAIN rows : rows[i].status = "active"}
Open(rows) == {h \in DOMAIN rows : rows[h].status = "open"}

-----------------------------------------------------------------------------
\* A hypothesis that was closed, by whichever process, is not opened, closed
\* otherwise or given evidence by a review that saw it open.
ClosedStaysClosed ==
    \A h \in DOMAIN hypotheses \ Open(hypotheses) : hypotheses'[h] = hypotheses[h]

\* What a claim newly rests on was active when it was committed.
RestsOnActive ==
    /\ \A h \in DOMAIN hypotheses' :
          LET had == IF h \in DOMAIN hypotheses THEN hypotheses[h].evidence ELSE {}
          IN  hypotheses'[h].evidence \ had \subseteq ActiveEvidence
    /\ \A i \in DOMAIN inferences' :
          LET had == IF i \in DOMAIN inferences THEN inferences[i].from ELSE {}
          IN  inferences'[i].from \ had \subseteq ActiveEvidence

\* A claim that is active, or open, is not made a second time.
NotMadeTwice ==
    /\ ActiveInferences(inferences) # {} => DOMAIN inferences' = DOMAIN inferences
    /\ Open(hypotheses) # {} => DOMAIN hypotheses' = DOMAIN hypotheses

\* The card has every Memory up to its watermark as it is now, but for those an
\* imported card was put in the place of.
NothingUnseen ==
    \A m \in Evidence : updated'[m] \in (replaced' + 1)..source' => card'[m] = updated'[m]

\* However old the context its answer was made from, and whatever the other
\* process and the requests did since, a review commits on the Memories,
\* inferences and hypotheses as they are: closed hypotheses stay as they are,
\* new support is active, no claim is made twice, and the card passes no Memory
\* the model was not shown. The last is not so when another process wrote a
\* Memory between the reads of the Memories and of their watermark, which then
\* stands for one the model was not shown, nor for a Relationship when it did so
\* between the check and the transaction.
CommitsOnCurrentState ==
    [][/\ ClosedStaysClosed /\ RestsOnActive /\ NotMadeTwice
       /\ raced' \/ NothingUnseen]_reviewed
=============================================================================
