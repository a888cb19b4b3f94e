----------------------------- MODULE Continuity -----------------------------
(***************************************************************************)
(* The running summary of one space's messages.                            *)
(* (src/src/gossipmemo/reasoners/continuity.py and base.py,                *)
(* store/_continuity.py; the triggers in world.py.)                        *)
(*                                                                         *)
(* Messages are numbered in the order of their rows. A loop reads the      *)
(* summary, then the messages after its watermark, asks the model,         *)
(* compares the watermark with the one it read, and writes what was        *)
(* answered. Each of these is a statement of its own, and the write has no *)
(* condition: between two of them another process may write, though not    *)
(* another task of the same one. The answer names the message it goes up   *)
(* to: any the model was shown, or one there is not. Loops run in the      *)
(* server, started by its intake, and in an import, which starts one with  *)
(* the process and one of its own.                                         *)
(*                                                                         *)
(* Left out: the words, and what is cut from a prior summary that is too   *)
(* long for the request; people; other spaces.                             *)
(***************************************************************************)
EXTENDS ContinuityState

CONSTANTS
    MaxMessages,    \* bound: messages
    MaxEvents       \* bound: starts, stops, crashes, calls that raise, answers that
                    \* name no message, and imports, together

Parameters ==
    /\ Threshold \in Nat \ {0} /\ MaxMessages \in Nat /\ MaxEvents \in Nat
    /\ Server # AtStart /\ Server # Import /\ AtStart # Import

VARIABLE events

vars == <<count, through, loop, read, up, intake, importing, summarised, gaveUp, events>>

Event == events < MaxEvents /\ events' = events + 1

\* pending_continuities
Due == count - through >= Threshold

Nothing == [through |-> 0, of |-> {}, last |-> 0]

\* a store call does not give way to the tasks of its own process
Between == {"list", "write"}
ServerFree == loop[Server] \notin Between
ImportFree == loop[AtStart] \notin Between /\ loop[Import] \notin Between

-----------------------------------------------------------------------------
(* Messages, and what starts a loop. *)

\* turn: the messages are recorded and the intake scheduled
Turn ==
    /\ up = "up" /\ ServerFree
    /\ count < MaxMessages
    /\ count' = count + 1
    /\ intake' = TRUE
    /\ UNCHANGED <<through, loop, read, up, importing, summarised, gaveUp, events>>

\* a loop is started unless it runs, or the process stops
Spawned(l) == IF loop[l] = "idle" THEN [loop EXCEPT ![l] = "look"] ELSE loop

\* _intake_loop: a loop that runs stands for the one that is due
Intake ==
    /\ intake /\ ServerFree
    /\ intake' = FALSE
    /\ loop' = IF Due /\ up = "up" THEN Spawned(Server) ELSE loop
    /\ gaveUp' = (gaveUp /\ loop[Server] # "idle" /\ Due)
    /\ UNCHANGED <<count, through, read, up, importing, summarised, events>>

\* start: what is due is found again
Start ==
    /\ up = "down"
    /\ Event
    /\ up' = "up"
    /\ loop' = IF Due THEN Spawned(Server) ELSE loop
    /\ gaveUp' = FALSE
    /\ UNCHANGED <<count, through, read, intake, importing, summarised>>

\* import: its process starts like the server, and records its messages
ImportStart ==
    /\ ~ importing /\ loop[Import] = "idle" /\ loop[AtStart] = "idle"
    /\ Event
    /\ count < MaxMessages
    /\ \E n \in (count + 1)..MaxMessages : count' = n
    /\ loop' = IF Due THEN Spawned(AtStart) ELSE loop
    /\ importing' = TRUE
    /\ UNCHANGED <<through, read, up, intake, summarised, gaveUp>>

\* import_messages after the other stages, or when one of them has raised
ImportDrives ==
    /\ importing /\ ImportFree
    /\ importing' = FALSE
    /\ \/ /\ loop' = IF Due THEN Spawned(Import) ELSE loop
          /\ UNCHANGED <<gaveUp, events>>
       \/ /\ Event
          /\ gaveUp' = TRUE
          /\ UNCHANGED loop
    /\ UNCHANGED <<count, through, read, up, intake, summarised>>

-----------------------------------------------------------------------------
(* A loop. *)

Ends(l) == loop' = [loop EXCEPT ![l] = "idle"] /\ read' = [read EXCEPT ![l] = Nothing]

\* _stopping in the process of a loop: an import stops when its own is done
Stopping(l) ==
    \/ l = Server /\ up = "stopping"
    \/ l = AtStart /\ ~ importing /\ loop[Import] = "idle"

\* it goes on in a call, or no task of its process is in the midst of one
Proceeds(l) == loop[l] \in Between \/ IF l = Server THEN ServerFree ELSE ImportFree

\* should_continue, and continuity_context: the summary, ...
Look(l) ==
    /\ loop[l] = "look" /\ Proceeds(l)
    /\ IF Stopping(l)
       THEN Ends(l) /\ gaveUp' = (gaveUp \/ Due)
       ELSE /\ loop' = [loop EXCEPT ![l] = "list"]
            /\ read' = [read EXCEPT ![l] = [through |-> through, of |-> summarised,
                                            last |-> through]]
            /\ UNCHANGED gaveUp
    /\ UNCHANGED <<count, through, up, intake, importing, summarised, events>>

\* ... and the messages after it
List(l) ==
    /\ loop[l] = "list" /\ Proceeds(l)
    /\ IF count = read[l].through
       THEN Ends(l) /\ gaveUp' = (gaveUp /\ count # through)
       ELSE /\ loop' = [loop EXCEPT ![l] = "ask"]
            /\ read' = [read EXCEPT ![l].last = count]
            /\ UNCHANGED gaveUp
    /\ UNCHANGED <<count, through, up, intake, importing, summarised, events>>

\* the messages a model may name: those of the request and the prior one; an
\* answer to a request in parts is given the last of them
Named(l) == {n \in read[l].through..read[l].last : n # 0}

\* Seeded fault of Again: the loop runs again after a conflict only.
AgainAfterConflict(applied) == ~ applied

\* continue_when
Again(applied) == applied

After(l, applied) ==
    IF Again(applied)
    THEN /\ loop' = [loop EXCEPT ![l] = "look"]
         /\ read' = [read EXCEPT ![l] = Nothing]
         /\ UNCHANGED gaveUp
    ELSE Ends(l) /\ gaveUp' = (gaveUp \/ ~ applied)

\* the answer, and apply_continuity_reasoning up to its write: the watermark is
\* not the one that was read, or the answer names a message there is not, or it
\* is going to be written
Compare(l) ==
    LET same == through = read[l].through IN
    /\ loop[l] = "ask" /\ Proceeds(l)
    /\ \/ same /\ loop' = [loop EXCEPT ![l] = "write"] /\ UNCHANGED <<read, gaveUp, events>>
       \/ same /\ Event /\ After(l, FALSE)
       \/ ~ same /\ After(l, FALSE) /\ UNCHANGED events
    /\ UNCHANGED <<count, through, up, intake, importing, summarised>>

\* its UPDATE, over whatever was written since
Write(l) ==
    /\ loop[l] = "write" /\ Proceeds(l)
    /\ through' \in Named(l)
    /\ summarised' = read[l].of \cup (read[l].through + 1)..read[l].last
    /\ After(l, TRUE)
    /\ UNCHANGED <<count, up, intake, importing, events>>

\* the call raises
AskFails(l) ==
    /\ loop[l] = "ask" /\ Proceeds(l)
    /\ Event
    /\ Ends(l)
    /\ gaveUp' = TRUE
    /\ UNCHANGED <<count, through, up, intake, importing, summarised>>

\* stop waits for the loop, which ends when its answer is in
Stop ==
    /\ up = "up" /\ ServerFree
    /\ Event
    /\ up' = "stopping"
    /\ UNCHANGED <<count, through, loop, read, intake, importing, summarised, gaveUp>>

Stopped ==
    /\ up = "stopping" /\ loop[Server] = "idle"
    /\ up' = "down" /\ intake' = FALSE
    /\ UNCHANGED <<count, through, loop, read, importing, summarised, gaveUp, events>>

Crash ==
    /\ up # "down"
    /\ Event
    /\ up' = "down" /\ intake' = FALSE
    /\ Ends(Server)
    /\ UNCHANGED <<count, through, importing, summarised, gaveUp>>

\* the import's process ends
ImportCrash ==
    /\ importing \/ loop[AtStart] # "idle" \/ loop[Import] # "idle"
    /\ Event
    /\ importing' = FALSE
    /\ loop' = [loop EXCEPT ![AtStart] = "idle", ![Import] = "idle"]
    /\ read' = [read EXCEPT ![AtStart] = Nothing, ![Import] = Nothing]
    /\ gaveUp' = TRUE
    /\ UNCHANGED <<count, through, up, intake, summarised>>

-----------------------------------------------------------------------------
Init ==
    /\ count = 0 /\ through = 0
    /\ loop = [l \in Loops |-> "idle"] /\ read = [l \in Loops |-> Nothing]
    /\ up = "down" /\ intake = FALSE /\ importing = FALSE
    /\ summarised = {} /\ gaveUp = FALSE /\ events = 0

Next ==
    \/ Turn \/ Intake \/ Start \/ Stop \/ Stopped \/ Crash
    \/ ImportStart \/ ImportDrives \/ ImportCrash
    \/ \E l \in Loops : Look(l) \/ List(l) \/ Compare(l) \/ Write(l) \/ AskFails(l)

Spec == Init /\ [][Next]_vars

-----------------------------------------------------------------------------
(* Properties. *)

\* The loops keep their state within these types.
TypeOK ==
    /\ count \in 0..MaxMessages /\ through \in 0..count
    /\ loop \in [Loops -> {"idle", "look", "list", "ask", "write"}]
    /\ read \in [Loops -> [through : 0..count, of : SUBSET (1..count), last : 0..count]]
    /\ up \in {"up", "stopping", "down"} /\ (up = "down" => loop[Server] = "idle")
    /\ intake \in BOOLEAN /\ importing \in BOOLEAN /\ gaveUp \in BOOLEAN
    /\ summarised \subseteq 1..count /\ events \in 0..MaxEvents

=============================================================================
