-------------------------- MODULE ContinuityState ---------------------------
(***************************************************************************)
(* What is kept about the running summary of one space's messages, and     *)
(* what is promised about it. Continuity has the steps.                    *)
(***************************************************************************)
EXTENDS Naturals, FiniteSets

CONSTANTS
    Server,         \* the loop of the server
    AtStart,        \* the loop an import's process starts with
    Import,         \* the one import_messages runs itself
    Threshold       \* continuity_threshold

Loops == {Server, AtStart, Import}

VARIABLES
    count,      \* messages 1..count
    through,    \* the watermark; 0: none
    loop,       \* of each loop: idle, look, list, ask, write
    read,       \* what it read: the watermark, what the summary was of, the last message
    up,         \* the server runs, and does not stop: "up", "stopping", "down"
    intake,     \* the server's intake is to look at the space
    importing,  \* the import has yet to look at the space
    summarised, \* history: messages the summary was made from
    gaveUp      \* history: a loop, or an import, ended with work left since the
                \* last time nothing was left or a loop was started for it

-----------------------------------------------------------------------------
\* When the server runs and nothing is under way, fewer messages than the
\* threshold are missing from the summary itself, whatever message an answer
\* named and whoever wrote over whose summary, unless the last loop
\* for them gave up.
SummarisedUnlessGaveUp ==
    (up = "up" /\ ~ intake /\ ~ importing /\ ~ gaveUp /\ \A l \in Loops : loop[l] = "idle")
        => Cardinality((1..count) \ summarised) < Threshold
=============================================================================
