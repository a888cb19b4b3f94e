--------------------------- MODULE BackgroundProofs ---------------------------
(***************************************************************************)
(* Proofs about the background as the run composes it, for any numbers of  *)
(* messages, Memories, reviewers, processes, writes and mishaps: every     *)
(* property of that run that is not one of liveness.                       *)
(*                                                                         *)
(* Each part has an inductive invariant of its own: the vectors and the    *)
(* migrations in VectorIndexProofs and MigrationsProofs, the continuity    *)
(* and the reviews below. No step moves two parts (PartsMove), so the      *)
(* background has the four of them together (BackgroundInvariant), and     *)
(* each property follows from the one of the part it is about.             *)
(***************************************************************************)
EXTENDS MCBackground, FiniteSetTheorems, SequenceTheorems, WellFoundedInduction, TLAPS

-----------------------------------------------------------------------------
(* The continuity. Two facts together make that messages are summarised    *)
(* unless a loop gave up on them. What is behind the watermark is in the   *)
(* summary, because a loop writes a watermark together with the summary of *)
(* what it read, and so also when it takes both back to before another's   *)
(* (Covered). And work that is due has somebody who will see it: who wrote *)
(* last looks again (Attended).                                            *)

\* The summary has everything behind the watermark, also the one a loop read.
Covered ==
    /\ 1..through \subseteq summarised
    /\ \A l \in Summary!Loops :
          loop[l] \in {"list", "ask", "write"} => 1..read[l].through \subseteq read[l].of

\* A loop that looks again, or gives up: not one that read a later watermark,
\* which has been taken back since, and is to find nothing after it.
Attending(l) ==
    \/ loop[l] \in {"look", "ask", "write"}
    \/ loop[l] = "list" /\ read[l].through < count

\* What is due has a task that is to look, or one that gave up.
Attended ==
    (up = "up" /\ ~ intake /\ ~ importing /\ ~ gaveUp /\ Summary!Due)
        => \E l \in Summary!Loops : Attending(l)

SummaryInv == Summary!TypeOK /\ Covered /\ Attended

\* TypeOK in parts, each about few variables.
CountsTyped ==
    /\ count \in 0..MaxMessages /\ through \in 0..count
    /\ summarised \subseteq 1..count /\ continuityEvents \in 0..ContinuityEvents
LoopsTyped ==
    /\ loop \in [Summary!Loops -> {"idle", "look", "list", "ask", "write"}]
    /\ up \in {"up", "stopping", "down"} /\ (up = "down" => loop[Server] = "idle")
ReadsTyped ==
    read \in [Summary!Loops -> [through : 0..count, of : SUBSET (1..count), last : 0..count]]
FlagsTyped == intake \in BOOLEAN /\ importing \in BOOLEAN /\ gaveUp \in BOOLEAN

\* The parts are the whole.
LEMMA SummaryParts == Summary!TypeOK <=> CountsTyped /\ LoopsTyped /\ ReadsTyped /\ FlagsTyped
  BY DEF Summary!TypeOK, CountsTyped, LoopsTyped, ReadsTyped, FlagsTyped

\* Nothing is due of no message.
LEMMA SummaryInitially == ASSUME Summary!Parameters, Summary!Init PROVE SummaryInv
<1>1. Summary!TypeOK
  <2>1. CountsTyped
    BY DEF Summary!Parameters, Summary!Init, CountsTyped
  <2>2. LoopsTyped
    BY DEF Summary!Init, LoopsTyped, Summary!Loops
  <2>3. ReadsTyped
    BY DEF Summary!Init, ReadsTyped, Summary!Nothing
  <2>4. FlagsTyped
    BY DEF Summary!Init, FlagsTyped
  <2> QED
    BY <2>1, <2>2, <2>3, <2>4, SummaryParts
<1>2. Covered /\ Attended
  BY DEF Summary!Parameters, Summary!Init, Covered, Attended, Summary!Due
<1> QED
  BY <1>1, <1>2 DEF SummaryInv

\* No loop takes the watermark past what there is, and none runs when all is down.
LEMMA SummaryTypeKept ==
    ASSUME Summary!Parameters, SummaryInv, [Summary!Next]_(Summary!vars)
    PROVE  Summary!TypeOK'
<1> SUFFICES (CountsTyped /\ LoopsTyped /\ ReadsTyped /\ FlagsTyped)'
  BY SummaryParts DEF Summary!TypeOK, CountsTyped, LoopsTyped, ReadsTyped, FlagsTyped
<1> CountsTyped /\ LoopsTyped /\ ReadsTyped /\ FlagsTyped /\ Covered
  BY SummaryParts DEF SummaryInv
<1> USE DEF Summary!Parameters, Summary!Loops
<1>1. CASE Summary!Stop
  <2>1. CountsTyped'
    BY <1>1 DEF Summary!Stop, Summary!Event, CountsTyped
  <2>2. LoopsTyped'
    BY <1>1 DEF Summary!Stop, Summary!Event, LoopsTyped
  <2>3. ReadsTyped'
    BY <1>1 DEF Summary!Stop, Summary!Event, ReadsTyped, CountsTyped
  <2>4. FlagsTyped'
    BY <1>1 DEF Summary!Stop, Summary!Event, FlagsTyped
  <2> QED
    BY <2>1, <2>2, <2>3, <2>4
<1>2. CASE Summary!Stopped
  <2>1. CountsTyped'
    BY <1>2 DEF Summary!Stopped, CountsTyped
  <2>2. LoopsTyped'
    BY <1>2 DEF Summary!Stopped, LoopsTyped
  <2>3. ReadsTyped'
    BY <1>2 DEF Summary!Stopped, ReadsTyped, CountsTyped
  <2>4. FlagsTyped'
    BY <1>2 DEF Summary!Stopped, FlagsTyped
  <2> QED
    BY <2>1, <2>2, <2>3, <2>4
<1>3. CASE Summary!Turn
  <2>1. CountsTyped'
    BY <1>3 DEF Summary!Turn, CountsTyped
  <2>2. LoopsTyped'
    BY <1>3 DEF Summary!Turn, LoopsTyped
  <2>3. ReadsTyped'
    BY <1>3 DEF Summary!Turn, ReadsTyped, CountsTyped
  <2>4. FlagsTyped'
    BY <1>3 DEF Summary!Turn, FlagsTyped
  <2> QED
    BY <2>1, <2>2, <2>3, <2>4
<1>4. CASE Summary!Intake
  <2>1. CountsTyped'
    BY <1>4 DEF Summary!Intake, Summary!Spawned, CountsTyped
  <2>2. LoopsTyped'
    BY <1>4 DEF Summary!Intake, Summary!Spawned, LoopsTyped
  <2>3. ReadsTyped'
    BY <1>4 DEF Summary!Intake, Summary!Spawned, ReadsTyped, CountsTyped
  <2>4. FlagsTyped'
    BY <1>4 DEF Summary!Intake, Summary!Spawned, FlagsTyped
  <2> QED
    BY <2>1, <2>2, <2>3, <2>4
<1>5. CASE Summary!Start
  <2>1. CountsTyped'
    BY <1>5 DEF Summary!Start, Summary!Spawned, Summary!Event, CountsTyped
  <2>2. LoopsTyped'
    BY <1>5 DEF Summary!Start, Summary!Spawned, Summary!Event, LoopsTyped
  <2>3. ReadsTyped'
    BY <1>5 DEF Summary!Start, Summary!Spawned, Summary!Event, ReadsTyped, CountsTyped
  <2>4. FlagsTyped'
    BY <1>5 DEF Summary!Start, Summary!Spawned, Summary!Event, FlagsTyped
  <2> QED
    BY <2>1, <2>2, <2>3, <2>4
<1>6. CASE Summary!Crash
  <2>1. CountsTyped'
    BY <1>6 DEF Summary!Crash, Summary!Ends, Summary!Event, Summary!Nothing, CountsTyped
  <2>2. LoopsTyped'
    BY <1>6 DEF Summary!Crash, Summary!Ends, Summary!Event, Summary!Nothing, LoopsTyped
  <2>3. ReadsTyped'
    BY <1>6 DEF Summary!Crash, Summary!Ends, Summary!Event, Summary!Nothing, ReadsTyped,
                CountsTyped
  <2>4. FlagsTyped'
    BY <1>6 DEF Summary!Crash, Summary!Ends, Summary!Event, Summary!Nothing, FlagsTyped
  <2> QED
    BY <2>1, <2>2, <2>3, <2>4
<1>7. CASE Summary!ImportStart
  <2>1. CountsTyped'
    BY <1>7 DEF Summary!ImportStart, Summary!Spawned, Summary!Event, CountsTyped
  <2>2. LoopsTyped'
    BY <1>7 DEF Summary!ImportStart, Summary!Spawned, Summary!Event, LoopsTyped
  <2>3. ReadsTyped'
    BY <1>7 DEF Summary!ImportStart, Summary!Spawned, Summary!Event, ReadsTyped, CountsTyped
  <2>4. FlagsTyped'
    BY <1>7 DEF Summary!ImportStart, Summary!Spawned, Summary!Event, FlagsTyped
  <2> QED
    BY <2>1, <2>2, <2>3, <2>4
<1>8. CASE Summary!ImportDrives
  <2>1. CountsTyped'
    BY <1>8 DEF Summary!ImportDrives, Summary!Spawned, Summary!Event, CountsTyped
  <2>2. LoopsTyped'
    BY <1>8 DEF Summary!ImportDrives, Summary!Spawned, Summary!Event, LoopsTyped
  <2>3. ReadsTyped'
    BY <1>8 DEF Summary!ImportDrives, Summary!Spawned, Summary!Event, ReadsTyped, CountsTyped
  <2>4. FlagsTyped'
    BY <1>8 DEF Summary!ImportDrives, Summary!Spawned, Summary!Event, FlagsTyped
  <2> QED
    BY <2>1, <2>2, <2>3, <2>4
<1>9. CASE Summary!ImportCrash
  <2>1. CountsTyped'
    BY <1>9 DEF Summary!ImportCrash, Summary!Nothing, Summary!Event, CountsTyped
  <2>2. LoopsTyped'
    BY <1>9 DEF Summary!ImportCrash, Summary!Nothing, Summary!Event, LoopsTyped
  <2>3. ReadsTyped'
    BY <1>9 DEF Summary!ImportCrash, Summary!Nothing, Summary!Event, ReadsTyped, CountsTyped
  <2>4. FlagsTyped'
    BY <1>9 DEF Summary!ImportCrash, Summary!Nothing, Summary!Event, FlagsTyped
  <2> QED
    BY <2>1, <2>2, <2>3, <2>4
<1>10. ASSUME NEW l \in Summary!Loops, Summary!Look(l)
       PROVE  (CountsTyped /\ LoopsTyped /\ ReadsTyped /\ FlagsTyped)'
  <2>1. CountsTyped'
    BY <1>10 DEF Summary!Look, Summary!Ends, Summary!Nothing, CountsTyped
  <2>2. LoopsTyped'
    BY <1>10 DEF Summary!Look, Summary!Ends, Summary!Nothing, LoopsTyped
  <2>3. ReadsTyped'
    <3>1. /\ count' = count
          /\ \/ read' = [read EXCEPT ![l] = Summary!Nothing]
             \/ read' = [read EXCEPT ![l] =
                            [through |-> through, of |-> summarised, last |-> through]]
      BY <1>10 DEF Summary!Look, Summary!Ends
    <3>2. /\ Summary!Nothing \in [through : 0..count, of : SUBSET (1..count), last : 0..count]
          /\ [through |-> through, of |-> summarised, last |-> through]
                \in [through : 0..count, of : SUBSET (1..count), last : 0..count]
      BY DEF CountsTyped, Summary!Nothing
    <3> QED
      BY <3>1, <3>2 DEF ReadsTyped
  <2>4. FlagsTyped'
    BY <1>10 DEF Summary!Look, Summary!Ends, Summary!Nothing, FlagsTyped
  <2> QED
    BY <2>1, <2>2, <2>3, <2>4
<1>11. ASSUME NEW l \in Summary!Loops, Summary!List(l) \/ Summary!Compare(l)
       PROVE  (CountsTyped /\ LoopsTyped /\ ReadsTyped /\ FlagsTyped)'
  <2> USE DEF Summary!List, Summary!Compare, Summary!After, Summary!Again, Summary!Ends,
              Summary!Nothing, Summary!Event
  <2>1. CountsTyped'
    BY <1>11 DEF CountsTyped
  <2>2. LoopsTyped'
    BY <1>11 DEF LoopsTyped
  <2>3. ReadsTyped'
    <3>1. read[l] \in [through : 0..count, of : SUBSET (1..count), last : 0..count]
      BY DEF ReadsTyped
    <3>2. /\ count' = count
          /\ \/ read' = [read EXCEPT ![l] = Summary!Nothing]
             \/ read' = [read EXCEPT ![l].last = count]
             \/ read' = read
      BY <1>11
    <3>3. /\ Summary!Nothing \in [through : 0..count, of : SUBSET (1..count), last : 0..count]
          /\ [read[l] EXCEPT !.last = count]
                \in [through : 0..count, of : SUBSET (1..count), last : 0..count]
      BY <3>1 DEF CountsTyped
    <3> QED
      BY <3>2, <3>3 DEF ReadsTyped
  <2>4. FlagsTyped'
    BY <1>11 DEF FlagsTyped
  <2> QED
    BY <2>1, <2>2, <2>3, <2>4
<1>14. ASSUME NEW l \in Summary!Loops, Summary!Write(l)
       PROVE  (CountsTyped /\ LoopsTyped /\ ReadsTyped /\ FlagsTyped)'
  <2> USE DEF Summary!After, Summary!Again, Summary!Ends, Summary!Nothing
  <2>1. CountsTyped'
    <3>1. read[l] \in [through : 0..count, of : SUBSET (1..count), last : 0..count]
      BY DEF ReadsTyped
    <3>2. Summary!Named(l) \subseteq 0..count
      BY <3>1 DEF Summary!Named, CountsTyped
    <3>3. read[l].of \cup (read[l].through + 1)..read[l].last \subseteq 1..count
      BY <3>1 DEF CountsTyped
    <3>4. /\ through' \in Summary!Named(l)
          /\ summarised' = read[l].of \cup (read[l].through + 1)..read[l].last
          /\ count' = count /\ continuityEvents' = continuityEvents
      BY <1>14 DEF Summary!Write
    <3> QED
      BY <3>2, <3>3, <3>4 DEF CountsTyped
  <2>2. LoopsTyped'
    BY <1>14 DEF Summary!Write, LoopsTyped
  <2>3. ReadsTyped'
    BY <1>14 DEF Summary!Write, ReadsTyped, CountsTyped
  <2>4. FlagsTyped'
    BY <1>14 DEF Summary!Write, FlagsTyped
  <2> QED
    BY <2>1, <2>2, <2>3, <2>4
<1>12. ASSUME NEW l \in Summary!Loops, Summary!AskFails(l)
       PROVE  (CountsTyped /\ LoopsTyped /\ ReadsTyped /\ FlagsTyped)'
  <2>1. CountsTyped'
    BY <1>12 DEF Summary!AskFails, Summary!Ends, Summary!Nothing, Summary!Event, CountsTyped
  <2>2. LoopsTyped'
    BY <1>12 DEF Summary!AskFails, Summary!Ends, Summary!Nothing, Summary!Event, LoopsTyped
  <2>3. ReadsTyped'
    BY <1>12 DEF Summary!AskFails, Summary!Ends, Summary!Nothing, Summary!Event, ReadsTyped,
                 CountsTyped
  <2>4. FlagsTyped'
    BY <1>12 DEF Summary!AskFails, Summary!Ends, Summary!Nothing, Summary!Event, FlagsTyped
  <2> QED
    BY <2>1, <2>2, <2>3, <2>4
<1>13. CASE UNCHANGED Summary!vars
  BY <1>13 DEF Summary!vars, CountsTyped, LoopsTyped, ReadsTyped, FlagsTyped
<1> QED
  BY <1>1, <1>2, <1>3, <1>4, <1>5, <1>6, <1>7, <1>8, <1>9, <1>10, <1>11, <1>12, <1>13,
     <1>14 DEF Summary!Next

\* A loop reads the summary with its watermark, and writes over the same one.
LEMMA CoveredKept ==
    ASSUME Summary!Parameters, SummaryInv, [Summary!Next]_(Summary!vars)
    PROVE  Covered'
<1> /\ CountsTyped /\ ReadsTyped /\ LoopsTyped /\ Covered
    /\ \A l \in Summary!Loops : read[l].through \in Nat /\ read[l].last \in Nat
  BY SummaryParts DEF SummaryInv, ReadsTyped, CountsTyped
<1> DEFINE Knows == {"list", "ask", "write"}
<1>1. ASSUME NEW l \in Summary!Loops, Summary!Look(l) PROVE Covered'
  <2>1. ASSUME NEW k \in Summary!Loops, loop'[k] \in Knows, k # l
        PROVE  loop[k] \in Knows /\ read'[k] = read[k]
    BY <1>1, <2>1 DEF Summary!Look, Summary!Ends, LoopsTyped, ReadsTyped
  <2>2. ASSUME loop'[l] \in Knows
        PROVE  read'[l] = [through |-> through, of |-> summarised, last |-> through]
    BY <1>1, <2>2 DEF Summary!Look, Summary!Ends, LoopsTyped, ReadsTyped
  <2> QED
    BY <1>1, <2>1, <2>2 DEF Summary!Look, Covered
<1>2. ASSUME NEW l \in Summary!Loops, Summary!List(l) \/ Summary!Compare(l) PROVE Covered'
  <2>1. ASSUME NEW k \in Summary!Loops, loop'[k] \in Knows
        PROVE  /\ loop[k] \in Knows
               /\ read'[k].through = read[k].through /\ read'[k].of = read[k].of
    BY <1>2, <2>1 DEF Summary!List, Summary!Compare, Summary!After, Summary!Again,
                      Summary!Ends, LoopsTyped, ReadsTyped
  <2>2. through' = through /\ summarised' = summarised
    BY <1>2 DEF Summary!List, Summary!Compare
  <2> QED
    BY <2>1, <2>2 DEF Covered
<1>4. ASSUME NEW l \in Summary!Loops, Summary!Write(l) PROVE Covered'
  <2>1. ASSUME NEW k \in Summary!Loops, loop'[k] \in Knows
        PROVE  loop[k] \in Knows /\ read'[k] = read[k]
    BY <1>4, <2>1 DEF Summary!Write, Summary!After, Summary!Again, Summary!Ends, LoopsTyped,
                      ReadsTyped
  <2>2. 1..through' \subseteq summarised'
    <3>1. /\ through' \in Nat /\ through' <= read[l].last
          /\ summarised' = read[l].of \cup (read[l].through + 1)..read[l].last
      BY <1>4 DEF Summary!Write, Summary!Named
    <3>2. 1..read[l].through \subseteq read[l].of
      BY <1>4 DEF Summary!Write, Covered
    <3> QED
      BY <3>1, <3>2
  <2> QED
    BY <2>1, <2>2 DEF Covered
<1>3. ASSUME \/ Summary!Turn \/ Summary!Intake
             \/ Summary!Start \/ Summary!Stop \/ Summary!Stopped \/ Summary!Crash
             \/ Summary!ImportStart \/ Summary!ImportDrives \/ Summary!ImportCrash
             \/ UNCHANGED Summary!vars
             \/ \E l \in Summary!Loops : Summary!AskFails(l)
      PROVE  Covered'
  <2>1. through' = through /\ summarised' = summarised
    BY <1>3 DEF Summary!Turn, Summary!Intake, Summary!Start, Summary!Stop, Summary!Stopped,
                Summary!Crash, Summary!ImportStart, Summary!ImportDrives,
                Summary!ImportCrash, Summary!AskFails, Summary!vars
  <2>2. ASSUME NEW k \in Summary!Loops, loop'[k] \in Knows
        PROVE  loop[k] \in Knows /\ read'[k] = read[k]
    BY <1>3, <2>2 DEF Summary!Turn, Summary!Intake, Summary!Start, Summary!Stop,
                      Summary!Stopped, Summary!Crash, Summary!ImportStart, Summary!ImportDrives,
                      Summary!ImportCrash, Summary!AskFails, Summary!vars, Summary!Spawned,
                      Summary!Ends, LoopsTyped, ReadsTyped
  <2> QED
    BY <2>1, <2>2 DEF Covered
<1> QED
  BY <1>1, <1>2, <1>3, <1>4 DEF Summary!Next

\* Whoever takes a task off, or makes work due, leaves one that will look.
LEMMA AttendedKept ==
    ASSUME Summary!Parameters, SummaryInv, [Summary!Next]_(Summary!vars)
    PROVE  Attended'
<1> /\ CountsTyped /\ LoopsTyped /\ ReadsTyped /\ FlagsTyped /\ Attended
    /\ Server \in Summary!Loops /\ AtStart \in Summary!Loops /\ Import \in Summary!Loops
    /\ Threshold \in Nat \ {0} /\ count \in Nat /\ through \in Nat
  BY SummaryParts DEF SummaryInv, Summary!Loops, Summary!Parameters, CountsTyped
<1>1. CASE Summary!Turn
  BY <1>1 DEF Summary!Turn, Attended
<1>2. CASE Summary!Intake
  <2>1. CASE Summary!Due /\ up = "up"
    <3>1. loop'[Server] \in {"look", "ask"}
      BY <1>2, <2>1 DEF Summary!Intake, Summary!Spawned, Summary!ServerFree, Summary!Between,
                        LoopsTyped
    <3> QED
      BY <3>1 DEF Attended, Attending
  <2>2. CASE ~ (Summary!Due /\ up = "up")
    BY <1>2, <2>2 DEF Summary!Intake, Attended, Summary!Due
  <2> QED
    BY <2>1, <2>2
<1>3. CASE Summary!Start
  BY <1>3 DEF Summary!Start, Summary!Spawned, LoopsTyped, Attended, Attending, Summary!Due
<1>4. CASE Summary!Stop \/ Summary!Stopped \/ Summary!Crash
  BY <1>4 DEF Summary!Stop, Summary!Stopped, Summary!Crash, Attended
<1>5. CASE Summary!ImportStart \/ Summary!ImportCrash
  BY <1>5 DEF Summary!ImportStart, Summary!ImportCrash, Attended
<1>6. CASE Summary!ImportDrives
  <2>1. CASE gaveUp'
    BY <2>1 DEF Attended
  <2>2. CASE Summary!Due /\ loop' = Summary!Spawned(Import)
    <3>1. loop'[Import] \in {"look", "ask"}
      BY <1>6, <2>2 DEF Summary!ImportDrives, Summary!Spawned, Summary!ImportFree,
                        Summary!Between, LoopsTyped
    <3> QED
      BY <3>1 DEF Attended, Attending
  <2>3. CASE ~ Summary!Due
    BY <1>6, <2>3 DEF Summary!ImportDrives, Attended, Summary!Due
  <2> QED
    BY <1>6, <2>1, <2>2, <2>3 DEF Summary!ImportDrives
<1>7. ASSUME NEW l \in Summary!Loops, Summary!Look(l) PROVE Attended'
  <2>1. CASE Summary!Stopping(l) /\ Summary!Ends(l) /\ gaveUp' = (gaveUp \/ Summary!Due)
    BY <1>7, <2>1 DEF Summary!Look, Attended, Summary!Due
  <2>2. ASSUME ~ Summary!Stopping(l), Summary!Due' PROVE Attending(l)'
    <3>1. loop'[l] = "list" /\ read'[l].through = through /\ count' = count
      BY <1>7, <2>2 DEF Summary!Look, LoopsTyped, ReadsTyped
    <3>2. through < count
      BY <1>7, <2>2 DEF Summary!Look, Summary!Due
    <3> QED
      BY <3>1, <3>2 DEF Attending
  <2> QED
    BY <1>7, <2>1, <2>2 DEF Summary!Look, Attended
<1>8. ASSUME NEW l \in Summary!Loops, Summary!List(l) PROVE Attended'
  <2>1. CASE count = read[l].through
    <3>1. ~ Attending(l)
      BY <1>8, <2>1 DEF Summary!List, Attending
    <3>2. ASSUME NEW k \in Summary!Loops, Attending(k) PROVE Attending(k)'
      <4>1. k # l
        BY <3>1, <3>2
      <4>2. loop'[k] = loop[k] /\ read'[k] = read[k] /\ count' = count
        BY <1>8, <2>1, <4>1 DEF Summary!List, Summary!Ends, LoopsTyped, ReadsTyped
      <4> QED
        BY <3>2, <4>2 DEF Attending
    <3>3. Summary!Due => gaveUp' = gaveUp
      BY <1>8, <2>1 DEF Summary!List, Summary!Due, FlagsTyped
    <3> QED
      BY <1>8, <3>2, <3>3 DEF Summary!List, Attended, Summary!Due
  <2>2. CASE count # read[l].through
    <3>1. loop'[l] = "ask"
      BY <1>8, <2>2 DEF Summary!List, LoopsTyped
    <3> QED
      BY <3>1 DEF Attended, Attending
  <2> QED
    BY <2>1, <2>2
<1>9. ASSUME NEW l \in Summary!Loops, Summary!Compare(l) PROVE Attended'
  <2>1. CASE loop' = [loop EXCEPT ![l] = "write"]
    BY <2>1 DEF Attended, Attending, LoopsTyped
  <2>2. CASE Summary!After(l, FALSE)
    BY <2>2 DEF Summary!After, Summary!Again, Attended
  <2> QED
    BY <1>9, <2>1, <2>2 DEF Summary!Compare
<1>10. ASSUME NEW l \in Summary!Loops, Summary!Write(l) PROVE Attended'
  <2>1. loop'[l] = "look"
    BY <1>10 DEF Summary!Write, Summary!After, Summary!Again, LoopsTyped
  <2> QED
    BY <2>1 DEF Attended, Attending
<1>11. ASSUME NEW l \in Summary!Loops, Summary!AskFails(l) PROVE Attended'
  BY <1>11 DEF Summary!AskFails, Attended
<1>12. CASE UNCHANGED Summary!vars
  BY <1>12 DEF Summary!vars, Attended, Attending, Summary!Due
<1> QED
  BY <1>1, <1>2, <1>3, <1>4, <1>5, <1>6, <1>7, <1>8, <1>9, <1>10, <1>11, <1>12 DEF Summary!Next

\* Then less than the threshold is missing.
LEMMA SummarySuffices == ASSUME Summary!Parameters, SummaryInv PROVE SummarisedUnlessGaveUp
<1> SUFFICES ASSUME ~ Summary!Due PROVE Cardinality((1..count) \ summarised) < Threshold
  BY DEF SummaryInv, Attended, Attending, SummarisedUnlessGaveUp, Loops, Summary!Loops
<1> count \in Nat /\ through \in 0..count /\ Threshold \in Nat
  BY DEF SummaryInv, Summary!TypeOK, Summary!Parameters
<1>1. (1..count) \ summarised \subseteq (through + 1)..count
  BY DEF SummaryInv, Covered
<1>2. /\ IsFiniteSet((through + 1)..count)
      /\ Cardinality((through + 1)..count) = count - through
  <2>1. /\ IsFiniteSet((through + 1)..count)
        /\ Cardinality((through + 1)..count) =
              IF through + 1 > count THEN 0 ELSE count - (through + 1) + 1
    BY FS_Interval, through + 1 \in Int, count \in Int
  <2> QED
    BY <2>1
<1>3. Cardinality((1..count) \ summarised) <= count - through
  BY <1>1, <1>2, FS_Subset
<1>4. Cardinality((1..count) \ summarised) \in Nat
  BY <1>1, <1>2, FS_Subset, FS_CardinalityType
<1> QED
  BY <1>3, <1>4 DEF Summary!Due

-----------------------------------------------------------------------------
(* The reviews. What a step does to the rows follows from what is in them. *)
(* That the card passes no Memory unseen does not: it needs that the card  *)
(* has every Memory up to its watermark as it is now, and each draft on    *)
(* its way up to the watermark there was when its Memories were read       *)
(* (CardSound, DraftSound), but for those an imported card was put in the  *)
(* place of. A write keeps this because its stamp is later than all of     *)
(* them. That a review names no row there is not, and holds no later       *)
(* stamp, is needed for its types only (Bounded).                          *)

\* A row of the inferences, one of the hypotheses, and a review on its way.
InferenceRow  == [status : {"active", "retracted"}, from : Reviews!Sources]
HypothesisRow == {h \in [status : {"open", "promoted", "rejected"},
                         evidence : Reviews!Sources, to : {None} \cup Reviews!Memories] :
                     (h.status = "promoted") = (h.to # None)}
Drafting == {"card", "memories", "reading", "asked", "checked"}
Review == [stage : {"idle", "chosen", "overwriting"} \cup Drafting,
           since : Nat, shown : Nat, expected : Nat,
           draft : [Evidence -> Nat], inferred : SUBSET Nat, open : SUBSET Nat]

\* What became of rows, and of which Memories: none was dropped, a claim that
\* was active, or open, was not made twice, what was closed is what it was, and
\* what support there is more is active.
InferencesGrown(old, new) ==
    /\ new \in Seq(InferenceRow) /\ Len(old) <= Len(new)
    /\ Reviews!ActiveInferences(old) # {} => Len(new) = Len(old)
    /\ \A i \in 1..Len(old) : new[i].from \ old[i].from \subseteq Reviews!ActiveEvidence
    /\ \A i \in (1..Len(new)) \ (1..Len(old)) : new[i].from \subseteq Reviews!ActiveEvidence

HypothesesGrown(old, new) ==
    /\ new \in Seq(HypothesisRow) /\ Len(old) <= Len(new)
    /\ Reviews!Open(old) # {} => Len(new) = Len(old)
    /\ \A h \in (1..Len(old)) \ Reviews!Open(old) : new[h] = old[h]
    /\ \A h \in 1..Len(old) : new[h].evidence \ old[h].evidence \subseteq Reviews!ActiveEvidence
    /\ \A h \in (1..Len(new)) \ (1..Len(old)) : new[h].evidence \subseteq Reviews!ActiveEvidence

\* A set of naturals that is not empty has a least member.
LEMMA LeastExists ==
    ASSUME NEW S \in SUBSET Nat, S # {} PROVE \E k \in S : \A j \in S : k <= j
<1>1. PICK k \in S : \A j \in S : <<j, k>> \notin OpToRel(<, Nat)
  BY NatLessThanWellFounded, WFMin, Zenon
<1>2. ASSUME NEW j \in S, j < k PROVE <<j, k>> \in OpToRel(<, Nat)
  BY <1>2 DEF OpToRel
<1>3. ASSUME NEW j \in S PROVE ~ (j < k)
  BY <1>1, <1>2, Zenon
<1> QED BY <1>3

\* Min of a set of naturals, which chooses, is one of them.
LEMMA LeastOfNaturals ==
    ASSUME NEW S \in SUBSET Nat, S # {} PROVE Reviews!Min(S) \in S
  BY LeastExists DEF Reviews!Min

\* Max of a set of naturals that is bounded is one of them, and none is greater.
LEMMA GreatestOfNaturals ==
    ASSUME NEW n \in Nat, NEW S \in SUBSET (0..n), S # {}
    PROVE  Reviews!Max(S) \in S /\ \A s \in S : s <= Reviews!Max(S)
<1> DEFINE D == {n - s : s \in S}
<1>1. PICK d \in D : \A e \in D : d <= e
  <2>1. ASSUME NEW s \in S PROVE s \in 0..n /\ n - s \in Nat
    OBVIOUS
  <2>2. D \in SUBSET Nat /\ D # {}
    BY <2>1
  <2> HIDE DEF D
  <2> QED BY <2>2, LeastExists
<1>2. PICK k \in S : d = n - k
  OBVIOUS
<1>3. ASSUME NEW s \in S PROVE s <= k
  <2>1. d <= n - s
    BY <1>1
  <2> QED BY <2>1, <1>2
<1> QED BY <1>3 DEF Reviews!Max

\* A card draws an inference only where none is active, from active Memories.
LEMMA DrawnGrows ==
    ASSUME NEW claims \in Seq(InferenceRow), NEW answer
    PROVE  InferencesGrown(claims, Reviews!Drawn(claims, answer))
<1> DEFINE repeated == Reviews!ActiveInferences(claims)
           Draw(now, S) ==
               IF Reviews!Valid(S) = {} THEN now
               ELSE IF repeated # {}
                    THEN [now EXCEPT ![Reviews!Min(repeated)].from = @ \cup Reviews!Valid(S)]
                    ELSE Append(now, [status |-> "active", from |-> Reviews!Valid(S)])
<1>1. InferencesGrown(claims, claims)
  BY DEF InferencesGrown
<1>2. ASSUME NEW now, InferencesGrown(claims, now), NEW S
      PROVE  InferencesGrown(claims, Draw(now, S))
  <2> Reviews!Valid(S) \subseteq Reviews!ActiveEvidence /\ Reviews!ActiveEvidence \subseteq Evidence
    BY DEF Reviews!Valid, Reviews!ActiveEvidence
  <2> now \in Seq(InferenceRow)
    BY <1>2 DEF InferencesGrown
  <2>1. CASE Reviews!Valid(S) # {} /\ repeated # {}
    <3> DEFINE i == Reviews!Min(repeated)
               row == [now[i] EXCEPT !.from = @ \cup Reviews!Valid(S)]
    <3>1. i \in 1..Len(claims) /\ i \in 1..Len(now)
      <4>1. repeated \subseteq 1..Len(claims) /\ Len(claims) \in Nat /\ Len(now) \in Nat
        BY DEF Reviews!ActiveInferences
      <4>2. i \in repeated
        BY <2>1, <4>1, LeastOfNaturals
      <4> QED
        BY <4>1, <4>2, <1>2 DEF InferencesGrown
    <3>2. now[i] \in InferenceRow
      BY <3>1
    <3>3. row \in InferenceRow /\ row.from = now[i].from \cup Reviews!Valid(S)
      <4>1. now[i].from \cup Reviews!Valid(S) \in Reviews!Sources
        BY <3>2, <2>1 DEF InferenceRow, Reviews!Sources
      <4> QED
        BY <3>2, <4>1 DEF InferenceRow
    <3>4. Draw(now, S) = [now EXCEPT ![i] = row]
      BY <2>1
    <3> HIDE DEF i, row, Draw, repeated
    <3>5. /\ Draw(now, S) \in Seq(InferenceRow) /\ Len(Draw(now, S)) = Len(now)
          /\ \A j \in 1..Len(now) : Draw(now, S)[j] = IF j = i THEN row ELSE now[j]
      BY <3>1, <3>3, <3>4, ExceptSeq
    <3> QED
      BY <3>1, <3>3, <3>5, <1>2 DEF InferencesGrown
  <2>2. CASE Reviews!Valid(S) # {} /\ repeated = {}
    <3> DEFINE row == [status |-> "active", from |-> Reviews!Valid(S)]
    <3>1. row \in InferenceRow /\ row.from \subseteq Reviews!ActiveEvidence
      <4>1. Reviews!Valid(S) \in Reviews!Sources
        BY <2>2 DEF Reviews!Sources
      <4> QED
        BY <4>1 DEF InferenceRow
    <3>2. Draw(now, S) = Append(now, row)
      BY <2>2
    <3> HIDE DEF row, Draw
    <3>3. /\ Draw(now, S) \in Seq(InferenceRow) /\ Len(Draw(now, S)) = Len(now) + 1
          /\ \A j \in 1..Len(now) : Draw(now, S)[j] = now[j]
          /\ Draw(now, S)[Len(now) + 1] = row
      BY <3>1, <3>2, AppendProperties
    <3>4. Len(claims) \in Nat /\ Len(now) \in Nat /\ Len(claims) <= Len(now)
      BY <1>2 DEF InferencesGrown
    <3>5. \A j \in 1..Len(claims) :
             Draw(now, S)[j].from \ claims[j].from \subseteq Reviews!ActiveEvidence
      BY <3>3, <3>4, <1>2 DEF InferencesGrown
    <3>6. ASSUME NEW j \in (1..Len(Draw(now, S))) \ (1..Len(claims))
          PROVE  Draw(now, S)[j].from \subseteq Reviews!ActiveEvidence
      <4>1. CASE j = Len(now) + 1
        BY <3>1, <3>3, <4>1
      <4>2. CASE j # Len(now) + 1
        <5>1. j \in (1..Len(now)) \ (1..Len(claims)) /\ Draw(now, S)[j] = now[j]
          BY <3>3, <3>4, <3>6, <4>2
        <5> QED
          BY <5>1, <1>2 DEF InferencesGrown
      <4> QED
        BY <4>1, <4>2
    <3> QED
      BY <3>3, <3>4, <3>5, <3>6, <2>2 DEF InferencesGrown
  <2>3. CASE Reviews!Valid(S) = {}
    BY <2>3, <1>2
  <2> QED
    BY <2>1, <2>2, <2>3
<1>3. Reviews!Drawn(claims, answer) =
         LET one == IF answer.infer = <<>> THEN claims ELSE Draw(claims, answer.infer[1])
         IN  IF Len(answer.infer) < 2 THEN one ELSE Draw(one, answer.infer[2])
  BY Zenon DEF Reviews!Drawn
<1> HIDE DEF Draw
<1> QED
  BY <1>1, <1>2, <1>3

\* What an answer retracts it may, and the rest it draws.
LEMMA InferredGrows ==
    ASSUME inferences \in Seq(InferenceRow), NEW answer, NEW shown
    PROVE  InferencesGrown(inferences, Reviews!Inferred(answer, shown))
<1> DEFINE claims == Reviews!Drawn(inferences, answer)
           new  == [i \in DOMAIN claims |->
                       IF i = answer.retract /\ i \in shown /\ claims[i].status = "active"
                       THEN [claims[i] EXCEPT !.status = "retracted"] ELSE claims[i]]
<1>1. CASE kind = "user"
  BY <1>1 DEF Reviews!Inferred, InferencesGrown
<1>2. CASE kind # "user"
  <2>1. Reviews!Inferred(answer, shown) = new
    BY <1>2 DEF Reviews!Inferred
  <2>2. InferencesGrown(inferences, claims)
    BY DrawnGrows
  <2> HIDE DEF claims
  <2>3. claims \in Seq(InferenceRow) /\ DOMAIN claims = 1..Len(claims) /\ Len(claims) \in Nat
    BY <2>2 DEF InferencesGrown
  <2>4. ASSUME NEW i \in 1..Len(claims)
        PROVE  new[i] \in InferenceRow /\ new[i].from = claims[i].from
    <3>1. claims[i] \in InferenceRow
      BY <2>3
    <3>2. new[i] \in {claims[i], [claims[i] EXCEPT !.status = "retracted"]}
      BY <2>3
    <3> QED
      BY <3>1, <3>2 DEF InferenceRow, Reviews!Sources
  <2>5. new \in [1..Len(claims) -> InferenceRow]
    BY <2>3, <2>4
  <2>6. new \in Seq(InferenceRow) /\ Len(new) = Len(claims)
    <3>1. new \in Seq(InferenceRow)
      BY <2>3, <2>5, SeqDef
    <3>2. DOMAIN new = 1..Len(claims) /\ DOMAIN new = 1..Len(new) /\ Len(new) \in Nat
      BY <2>5, <3>1, LenProperties
    <3> QED
      BY <2>3, <3>1, <3>2
  <2> HIDE DEF new
  <2> QED
    <3>1. InferencesGrown(inferences, new)
      BY <2>2, <2>3, <2>4, <2>6 DEF InferencesGrown
    <3> QED
      BY <2>1, <3>1
<1> QED
  BY <1>1, <1>2

\* A proposal meets a hypothesis that is open and was shown, or is a new one.
LEMMA ProposedGrows ==
    ASSUME hypotheses \in Seq(HypothesisRow), NEW p, NEW shown
    PROVE  HypothesesGrown(hypotheses, Reviews!Proposed(p, shown))
<1> DEFINE none == [status |-> "open", evidence |-> {}, to |-> None]
           hit  == IF p.id # None THEN {p.id} \cap shown \cap Reviews!Open(hypotheses)
                                  ELSE Reviews!Open(hypotheses)
           added == [none EXCEPT !.evidence = Reviews!Valid(p.evidence)]
<1> /\ Reviews!Valid(p.evidence) \subseteq Reviews!ActiveEvidence
    /\ Reviews!ActiveEvidence \subseteq Evidence
  BY DEF Reviews!Valid, Reviews!ActiveEvidence
<1> Len(hypotheses) \in Nat /\ Reviews!Open(hypotheses) \subseteq 1..Len(hypotheses)
  BY DEF Reviews!Open
<1>1. CASE Reviews!Proposed(p, shown) = hypotheses
  BY <1>1 DEF HypothesesGrown
<1>2. CASE /\ hit = {} /\ p.id = None /\ Reviews!Valid(p.evidence) # {}
           /\ Reviews!Proposed(p, shown) = Append(hypotheses, added)
  <2>1. added \in HypothesisRow /\ added.evidence \subseteq Reviews!ActiveEvidence
    <3>1. Reviews!Valid(p.evidence) \in Reviews!Sources
      BY <1>2 DEF Reviews!Sources
    <3>2. added = [status |-> "open", evidence |-> Reviews!Valid(p.evidence), to |-> None]
      OBVIOUS
    <3> QED
      BY <3>1, <3>2 DEF HypothesisRow
  <2>2. Reviews!Open(hypotheses) = {}
    BY <1>2
  <2> HIDE DEF added, hit
  <2>3. /\ Append(hypotheses, added) \in Seq(HypothesisRow)
        /\ Len(Append(hypotheses, added)) = Len(hypotheses) + 1
        /\ \A h \in 1..Len(hypotheses) : Append(hypotheses, added)[h] = hypotheses[h]
        /\ Append(hypotheses, added)[Len(hypotheses) + 1] = added
    BY <2>1, AppendProperties
  <2> QED
    BY <1>2, <2>1, <2>2, <2>3 DEF HypothesesGrown
<1>3. CASE /\ hit # {}
           /\ Reviews!Proposed(p, shown) =
                 [hypotheses EXCEPT ![Reviews!Min(hit)].evidence = @ \cup Reviews!Valid(p.evidence)]
  <2> DEFINE i == Reviews!Min(hit)
             row == [hypotheses[i] EXCEPT !.evidence = @ \cup Reviews!Valid(p.evidence)]
  <2>1. i \in Reviews!Open(hypotheses)
    <3>1. hit \subseteq Reviews!Open(hypotheses)
      OBVIOUS
    <3> HIDE DEF hit
    <3>2. hit \in SUBSET Nat /\ hit # {}
      BY <3>1, <1>3
    <3> QED
      BY <3>1, <3>2, LeastOfNaturals
  <2>2. i \in 1..Len(hypotheses) /\ hypotheses[i] \in HypothesisRow
    BY <2>1
  <2>3. row \in HypothesisRow /\ row.evidence = hypotheses[i].evidence \cup Reviews!Valid(p.evidence)
    <3>1. hypotheses[i].evidence \cup Reviews!Valid(p.evidence) \in Reviews!Sources
      BY <2>2 DEF HypothesisRow, Reviews!Sources
    <3>2. /\ row \in [status : {"open", "promoted", "rejected"},
                      evidence : Reviews!Sources, to : {None} \cup Reviews!Memories]
          /\ row.status = hypotheses[i].status /\ row.to = hypotheses[i].to
          /\ row.evidence = hypotheses[i].evidence \cup Reviews!Valid(p.evidence)
      BY <2>2, <3>1 DEF HypothesisRow
    <3> QED
      BY <2>2, <3>2 DEF HypothesisRow
  <2>4. Reviews!Proposed(p, shown) = [hypotheses EXCEPT ![i] = row]
    BY <1>3
  <2> HIDE DEF i, row
  <2>5. /\ Reviews!Proposed(p, shown) \in Seq(HypothesisRow)
        /\ Len(Reviews!Proposed(p, shown)) = Len(hypotheses)
        /\ \A h \in 1..Len(hypotheses) :
              Reviews!Proposed(p, shown)[h] = IF h = i THEN row ELSE hypotheses[h]
    BY <2>2, <2>3, <2>4, ExceptSeq
  <2> QED
    BY <2>1, <2>2, <2>3, <2>5 DEF HypothesesGrown
<1>4. \/ Reviews!Proposed(p, shown) = hypotheses
      \/ /\ hit = {} /\ p.id = None /\ Reviews!Valid(p.evidence) # {}
         /\ Reviews!Proposed(p, shown) = Append(hypotheses, added)
      \/ /\ hit # {}
         /\ Reviews!Proposed(p, shown) =
               [hypotheses EXCEPT ![Reviews!Min(hit)].evidence = @ \cup Reviews!Valid(p.evidence)]
  BY DEF Reviews!Proposed
<1> QED
  BY <1>1, <1>2, <1>3, <1>4

\* A move closes a hypothesis that is open, to what its row may have.
LEMMA MovedGrows ==
    ASSUME hypotheses \in Seq(HypothesisRow),
           NEW claims, HypothesesGrown(hypotheses, claims),
           NEW v \in Reviews!Moves \cup {None}, NEW shown, NEW drawn
    PROVE  HypothesesGrown(hypotheses, Reviews!Moved(claims, v, shown, drawn))
<1> DEFINE row == [claims[v.id] EXCEPT !.status = v.status, !.to = v.to]
<1> claims \in Seq(HypothesisRow) /\ Len(claims) \in Nat
  BY DEF HypothesesGrown
<1>1. CASE Reviews!Moved(claims, v, shown, drawn) = claims
  BY <1>1
<1>2. CASE /\ v # None /\ v.id \in Reviews!Open(claims)
           /\ Reviews!Moved(claims, v, shown, drawn) = [claims EXCEPT ![v.id] = row]
  <2>1. /\ v.status \in {"promoted", "rejected"} /\ v.to \in {None} \cup Reviews!Memories
        /\ (v.status = "promoted") = (v.to # None)
    BY <1>2 DEF Reviews!Moves
  <2>2. v.id \in 1..Len(claims) /\ claims[v.id] \in HypothesisRow /\ claims[v.id].status = "open"
    BY <1>2 DEF Reviews!Open
  <2>3. row \in HypothesisRow /\ row.evidence = claims[v.id].evidence
    <3>1. /\ row \in [status : {"open", "promoted", "rejected"},
                      evidence : Reviews!Sources, to : {None} \cup Reviews!Memories]
          /\ row.status = v.status /\ row.to = v.to /\ row.evidence = claims[v.id].evidence
      BY <2>1, <2>2 DEF HypothesisRow
    <3> QED
      BY <2>1, <3>1 DEF HypothesisRow
  <2>4. v.id \notin (1..Len(hypotheses)) \ Reviews!Open(hypotheses)
    BY <2>2 DEF HypothesesGrown, Reviews!Open
  <2> HIDE DEF row
  <2>5. /\ [claims EXCEPT ![v.id] = row] \in Seq(HypothesisRow)
        /\ Len([claims EXCEPT ![v.id] = row]) = Len(claims)
        /\ \A h \in 1..Len(claims) :
              [claims EXCEPT ![v.id] = row][h] = IF h = v.id THEN row ELSE claims[h]
    BY <2>2, <2>3, ExceptSeq
  <2> QED
    BY <1>2, <2>2, <2>3, <2>4, <2>5 DEF HypothesesGrown
<1>3. \/ Reviews!Moved(claims, v, shown, drawn) = claims
      \/ /\ v # None /\ v.id \in Reviews!Open(claims)
         /\ Reviews!Moved(claims, v, shown, drawn) = [claims EXCEPT ![v.id] = row]
  BY DEF Reviews!Moved
<1> QED
  BY <1>1, <1>2, <1>3

\* What an answer moves is a move, or nothing.
LEMMA AnswerMoves == \A answer \in Reviews!Answers : answer.move \in Reviews!Moves \cup {None}
  BY SMT DEF Reviews!Answers, Reviews!Asks

-----------------------------------------------------------------------------
\* What the rows, the card and the reviews hold, without the bounds.
Columns ==
    /\ kind \in {"person", "relationship", "user"}
    /\ clock \in Nat /\ source \in 0..clock /\ replaced \in 0..clock /\ raced \in BOOLEAN
    /\ updated \in [Evidence -> 0..clock] /\ card \in [Evidence -> Nat]
    /\ inferences \in Seq(InferenceRow) /\ hypotheses \in Seq(HypothesisRow)
    /\ review \in [Reviewers -> Review]

\* Up to its watermark the card has every Memory as it is that no imported card
\* stands for, ...
Has(stamps, level) ==
    \A m \in Evidence : updated[m] \in (replaced + 1)..level => stamps[m] = updated[m]
CardSound == raced \/ Has(card, source)

\* ... and so has a draft, up to the card's watermark at first, and then up to
\* that of the Memories it was made from.
Level(c) == IF c.stage = "card" THEN c.since ELSE c.shown
ReviewSound(c) ==
    /\ c.since <= clock /\ c.shown <= clock /\ c.expected <= clock
    /\ c.stage \in Drafting => raced \/ Has(c.draft, Level(c))
DraftSound(r) == ReviewSound(review[r])

ReviewInv == Columns /\ CardSound /\ \A r \in Reviewers : DraftSound(r)

\* A review that has not begun has no draft.
LEMMA IdleSound == Reviews!Idle \in Review /\ (clock \in Nat => ReviewSound(Reviews!Idle))
  BY DEF Reviews!Idle, Review, ReviewSound, Drafting

\* Of no Memory nothing is unseen.
LEMMA ReviewsInitially == ASSUME Reviews!Init PROVE ReviewInv
<1>1. <<>> \in Seq(InferenceRow) /\ <<>> \in Seq(HypothesisRow)
  BY EmptySeq
<1>2. Reviews!Idle \in Review /\ (clock \in Nat => ReviewSound(Reviews!Idle))
  BY IdleSound
<1>3. Columns
  <2>1. review \in [Reviewers -> Review]
    BY <1>2 DEF Reviews!Init
  <2>2. clock = 0 /\ source = 0 /\ replaced = 0 /\ 0 \in 0..0
    BY DEF Reviews!Init
  <2>3. raced \in BOOLEAN
    BY DEF Reviews!Init
  <2>4. updated \in [Evidence -> 0..0] /\ card \in [Evidence -> Nat]
    BY <2>2 DEF Reviews!Init
  <2> QED
    BY <1>1, <2>1, <2>2, <2>3, <2>4 DEF Reviews!Init, Columns
<1>4. CardSound /\ \A r \in Reviewers : DraftSound(r)
  BY <1>2 DEF Reviews!Init, CardSound, Has, DraftSound
<1> QED
  BY <1>3, <1>4 DEF ReviewInv

\* The watermark is no later than the last write.
LEMMA WatermarkTyped == ASSUME Columns PROVE Reviews!Watermark \in 0..clock
<1> DEFINE S == {0} \cup {updated[m] : m \in Evidence}
<1>1. S \in SUBSET (0..clock) /\ S # {} /\ clock \in Nat
  BY DEF Columns
<1> HIDE DEF S
<1>2. Reviews!Max(S) \in S
  BY <1>1, GreatestOfNaturals
<1> QED
  BY <1>1, <1>2 DEF Reviews!Watermark, S

\* A write to Memories is later than the card and all drafts.
LEMMA StampKeeps ==
    ASSUME ReviewInv, NEW m \in Evidence, Reviews!Stamp(m),
           UNCHANGED <<kind, inferences, hypotheses, Reviews!cards, review, raced>>
    PROVE  ReviewInv'
<1>1. /\ clock \in Nat /\ clock' = clock + 1
      /\ source' = source /\ card' = card /\ replaced' = replaced
      /\ source \in 0..clock /\ replaced \in 0..clock
      /\ \A n \in Evidence :
             /\ updated[n] \in 0..clock
             /\ updated'[n] = IF n = m THEN clock + 1 ELSE updated[n]
      /\ updated' = [updated EXCEPT ![m] = clock + 1]
  BY DEF ReviewInv, Columns, Reviews!Stamp, Reviews!cards
<1>2. Columns'
  BY <1>1 DEF ReviewInv, Columns
<1>3. ASSUME NEW stamps, NEW level \in Nat, level <= clock, Has(stamps, level)
      PROVE  \A n \in Evidence : updated'[n] \in (replaced' + 1)..level => stamps[n] = updated'[n]
  BY <1>1, <1>3 DEF Has
<1>4. CardSound'
  BY <1>1, <1>3 DEF ReviewInv, CardSound, Has
<1>5. ASSUME NEW r \in Reviewers PROVE DraftSound(r)'
  <2>1. review[r] \in Review /\ ReviewSound(review[r]) /\ review' = review
    BY DEF ReviewInv, Columns, DraftSound
  <2>2. Level(review[r]) \in Nat /\ Level(review[r]) <= clock
    BY <2>1 DEF Level, ReviewSound, Review
  <2>3. /\ review[r].since <= clock' /\ review[r].shown <= clock' /\ review[r].expected <= clock'
    BY <1>1, <2>1 DEF ReviewSound, Review
  <2> QED
    BY <1>3, <2>1, <2>2, <2>3 DEF DraftSound, ReviewSound, Has, Level
<1> QED
  BY <1>2, <1>4, <1>5 DEF ReviewInv

\* A reviewer takes up a sound review, or none; Memories and card stay.
LEMMA ReviewKeeps ==
    ASSUME ReviewInv, NEW r \in Reviewers, NEW c \in Review, ReviewSound(c),
           review' = [review EXCEPT ![r] = c],
           UNCHANGED <<kind, clock, updated, inferences, hypotheses, source, card, replaced, raced>>
    PROVE  ReviewInv'
<1>1. Columns' /\ CardSound'
  BY DEF ReviewInv, Columns, CardSound, Has
<1>2. ASSUME NEW q \in Reviewers PROVE DraftSound(q)'
  <2>1. review'[q] \in {c, review[q]} /\ ReviewSound(review[q])
    BY DEF ReviewInv, Columns, DraftSound
  <2>2. ReviewSound(review'[q])
    BY <2>1
  <2> QED
    BY <2>2 DEF DraftSound, ReviewSound, Has, Level
<1> QED
  BY <1>1, <1>2 DEF ReviewInv

\* A commit puts a draft in the card that was sound up to what it was checked against,
\* and the check is for what the card has now.
LEMMA CommitKeeps ==
    ASSUME ReviewInv, NEW r \in Reviewers, Reviews!Commit(r)
    PROVE  /\ ReviewInv'
           /\ InferencesGrown(inferences, inferences')
           /\ HypothesesGrown(hypotheses, hypotheses')
           /\ raced' \/ Reviews!NothingUnseen
<1> Columns /\ CardSound /\ review[r] \in Review /\ DraftSound(r)
  BY DEF ReviewInv, Columns
<1>1. PICK answer \in Reviews!Answers :
         /\ inferences' = Reviews!Inferred(answer, review[r].inferred)
         /\ hypotheses' = Reviews!Moved(Reviews!Proposed(answer.propose, review[r].open), answer.move,
                               review[r].open, Reviews!Inferred(answer, review[r].inferred))
  BY DEF Reviews!Commit
<1>2. InferencesGrown(inferences, inferences')
  BY <1>1, InferredGrows DEF Columns
<1>3. HypothesesGrown(hypotheses, hypotheses')
  BY <1>1, AnswerMoves, ProposedGrows, MovedGrows DEF Columns
<1>4. /\ review[r].stage \in Drafting \ {"card"} /\ review[r].expected \in Nat
      /\ review[r].draft \in [Evidence -> Nat]
      /\ card' = review[r].draft /\ updated' = updated /\ clock' = clock /\ kind' = kind
      /\ replaced' = replaced
      /\ review' = [review EXCEPT ![r] = Reviews!Idle]
      /\ raced' = (\/ raced
                   \/ review[r].shown # review[r].expected
                   \/ kind = "relationship" /\ Reviews!Watermark # review[r].expected)
  BY DEF Reviews!Commit, Review, Drafting
<1>5. /\ source' \in 0..clock
      /\ raced' \/ source' = review[r].expected
  <2>1. kind = "user" => source' = review[r].expected
    BY DEF Reviews!Commit
  <2>2. kind # "user" => source' = Reviews!Watermark
    BY DEF Reviews!Commit
  <2>3. kind = "person" => Reviews!Watermark = review[r].expected
    BY DEF Reviews!Commit, Reviews!Claimed
  <2>4. /\ Reviews!Watermark \in 0..clock /\ review[r].expected \in 0..clock
        /\ kind \in {"person", "relationship", "user"}
    BY <1>4, WatermarkTyped DEF DraftSound, ReviewSound, Columns
  <2>5. source' \in {Reviews!Watermark, review[r].expected}
    BY <2>1, <2>2
  <2>6. raced' \/ source' = review[r].expected
    BY <1>4, <2>1, <2>2, <2>3, <2>4
  <2> QED
    BY <2>4, <2>5, <2>6
<1>6. raced' \/ \A m \in Evidence : updated'[m] \in (replaced' + 1)..source' => card'[m] = updated'[m]
  <2> SUFFICES ASSUME ~ raced' PROVE Has(review[r].draft, source')
    BY <1>4 DEF Has
  <2>1. source' = review[r].shown /\ ~ raced
    BY <1>4, <1>5
  <2>2. Level(review[r]) = review[r].shown
    BY <1>4 DEF Level
  <2> QED
    BY <1>4, <2>1, <2>2 DEF DraftSound, ReviewSound
<1>7. Reviews!Idle \in Review /\ ReviewSound(Reviews!Idle)
  BY IdleSound DEF Columns
<1>8. Columns'
  <2>1. raced' \in BOOLEAN
    BY <1>4 DEF Columns
  <2>2. inferences' \in Seq(InferenceRow) /\ hypotheses' \in Seq(HypothesisRow)
    BY <1>2, <1>3 DEF InferencesGrown, HypothesesGrown
  <2> QED
    BY <1>4, <1>5, <1>7, <2>1, <2>2 DEF Columns
<1>9. ASSUME NEW q \in Reviewers PROVE DraftSound(q)'
  <2>1. review'[q] \in {Reviews!Idle, review[q]} /\ ReviewSound(review[q])
    BY <1>4 DEF ReviewInv, Columns, DraftSound
  <2>2. ReviewSound(review'[q])
    BY <1>7, <2>1
  <2> QED
    BY <1>4, <2>2 DEF DraftSound, ReviewSound, Has, Level
<1> QED
  BY <1>2, <1>3, <1>6, <1>8, <1>9 DEF ReviewInv, CardSound, Has, Reviews!NothingUnseen

\* What is read of a card that is sound makes a sound draft, with the Memories that
\* were written since.
LEMMA ReadingKeeps ==
    ASSUME ReviewInv, NEW r \in Reviewers,
           \/ Reviews!Choose(r) \/ Reviews!ReadCard(r) \/ Reviews!ReadMemories(r)
           \/ Reviews!ReadWatermark(r) \/ Reviews!OverwriteReads(r)
    PROVE  ReviewInv'
<1> DEFINE c == review[r]
<1>1. /\ Columns /\ CardSound /\ c \in Review /\ ReviewSound(c)
      /\ Reviews!Watermark \in 0..clock /\ clock \in Nat
      /\ source \in 0..clock /\ replaced \in 0..clock
      /\ updated \in [Evidence -> 0..clock] /\ card \in [Evidence -> Nat]
      /\ Reviews!Idle \in Review /\ ReviewSound(Reviews!Idle)
  BY WatermarkTyped, IdleSound DEF ReviewInv, Columns, DraftSound
<1>2. UNCHANGED <<kind, clock, updated, inferences, hypotheses, source, card, replaced, raced>>
  BY DEF Reviews!Choose, Reviews!ReadCard, Reviews!ReadMemories, Reviews!ReadWatermark,
         Reviews!OverwriteReads, Reviews!cards
<1>a. /\ source \in Nat /\ Reviews!Watermark \in Nat /\ card \in [Evidence -> Nat]
  BY <1>1
<1>3. CASE Reviews!Choose(r)
  <2> DEFINE d == [c EXCEPT !.stage = "chosen"]
  <2>1. d \in Review /\ d.stage = "chosen" /\ d.since = c.since /\ d.shown = c.shown
        /\ d.expected = c.expected
    BY <1>1 DEF Review
  <2>2. review' = [review EXCEPT ![r] = d]
    BY <1>3 DEF Reviews!Choose
  <2> HIDE DEF d
  <2>3. ReviewSound(d)
    BY <1>1, <2>1 DEF ReviewSound, Drafting
  <2> QED
    BY <1>2, <2>1, <2>2, <2>3, ReviewKeeps
<1>4. CASE Reviews!ReadCard(r)
  <2> DEFINE d == [c EXCEPT !.stage = "card", !.since = source, !.draft = card]
  <2>1. d \in Review /\ d.stage = "card" /\ d.since = source /\ d.shown = c.shown
        /\ d.expected = c.expected /\ d.draft = card
    BY <1>1, <1>a DEF Review, Drafting
  <2>2. review' = [review EXCEPT ![r] = d]
    BY <1>4 DEF Reviews!ReadCard
  <2> HIDE DEF d
  <2>3. ReviewSound(d)
    BY <1>1, <2>1 DEF ReviewSound, Level, CardSound
  <2> QED
    BY <1>2, <2>1, <2>2, <2>3, ReviewKeeps
<1>5. CASE Reviews!ReadMemories(r)
  <2> DEFINE draft == [m \in Evidence |-> IF c.since = 0 \/ updated[m] > c.since
                                         THEN updated[m] ELSE c.draft[m]]
             d == [c EXCEPT !.stage = "memories", !.shown = Reviews!Watermark, !.draft = draft]
  <2>1. c.since \in Nat /\ c.draft \in [Evidence -> Nat] /\ c.stage = "card"
    BY <1>1, <1>5 DEF Review, Reviews!ReadMemories
  <2>2. draft \in [Evidence -> Nat]
    BY <1>1, <2>1
  <2>3. raced \/ Has(draft, Reviews!Watermark)
    <3>1. raced \/ Has(c.draft, c.since)
      BY <1>1, <2>1 DEF ReviewSound, Level, Drafting
    <3>2. ASSUME Has(c.draft, c.since), NEW m \in Evidence, updated[m] \in (replaced + 1)..Reviews!Watermark
          PROVE  draft[m] = updated[m]
      BY <1>1, <2>1, <3>2 DEF Has
    <3> QED
      BY <3>1, <3>2 DEF Has
  <2> HIDE DEF draft
  <2>4. d \in Review /\ d.stage = "memories" /\ d.since = c.since /\ d.shown = Reviews!Watermark
        /\ d.expected = c.expected /\ d.draft = draft
    BY <1>1, <1>a, <2>2 DEF Review, Drafting
  <2>5. review' = [review EXCEPT ![r] = d]
    BY <1>5 DEF Reviews!ReadMemories, draft
  <2> HIDE DEF d
  <2>6. ReviewSound(d)
    BY <1>1, <2>3, <2>4 DEF ReviewSound, Level
  <2> QED
    BY <1>2, <2>4, <2>5, <2>6, ReviewKeeps
<1>6. CASE Reviews!ReadWatermark(r)
  <2> DEFINE d == [c EXCEPT !.stage = "reading", !.since = 0, !.expected = Reviews!Watermark]
  <2>1. d \in Review /\ d.stage = "reading" /\ d.since = 0 /\ d.shown = c.shown
        /\ d.expected = Reviews!Watermark /\ d.draft = c.draft
    BY <1>1, <1>a DEF Review, Drafting
  <2>2. \/ review' = [review EXCEPT ![r] = d]
        \/ review' = [review EXCEPT ![r] = Reviews!Idle]
    BY <1>6 DEF Reviews!ReadWatermark
  <2>3. c.stage = "memories"
    BY <1>6 DEF Reviews!ReadWatermark
  <2> HIDE DEF d
  <2>4. ReviewSound(d)
    BY <1>1, <2>1, <2>3 DEF ReviewSound, Level, Drafting
  <2> QED
    BY <1>1, <1>2, <2>1, <2>2, <2>4, ReviewKeeps
<1>7. CASE Reviews!OverwriteReads(r)
  <2> DEFINE d == [Reviews!Idle EXCEPT !.stage = "overwriting", !.expected = Reviews!Watermark]
  <2>1. d \in Review /\ d.stage = "overwriting" /\ d.expected = Reviews!Watermark
        /\ d.since = Reviews!Idle.since /\ d.shown = Reviews!Idle.shown
    BY <1>1, <1>a DEF Review
  <2>2. review' = [review EXCEPT ![r] = d]
    BY <1>7 DEF Reviews!OverwriteReads
  <2> HIDE DEF d
  <2>3. ReviewSound(d)
    BY <1>1, <2>1 DEF ReviewSound, Drafting
  <2> QED
    BY <1>2, <2>1, <2>2, <2>3, ReviewKeeps
<1> QED
  BY <1>3, <1>4, <1>5, <1>6, <1>7

\* An imported card stands for every Memory up to its watermark.
LEMMA OverwriteKeeps == ASSUME ReviewInv, NEW r \in Reviewers, Reviews!Overwrite(r) PROVE ReviewInv'
<1>1. /\ Columns /\ CardSound /\ review[r] \in Review /\ ReviewSound(review[r])
      /\ clock \in Nat /\ replaced \in 0..clock /\ updated \in [Evidence -> 0..clock]
      /\ Reviews!Idle \in Review /\ ReviewSound(Reviews!Idle)
  BY IdleSound DEF ReviewInv, Columns, DraftSound
<1>2. /\ source' = review[r].expected /\ source' \in 0..clock
      /\ UNCHANGED <<kind, clock, updated, inferences, hypotheses, raced>>
      /\ review' = [review EXCEPT ![r] = Reviews!Idle]
      /\ card' = [m \in Evidence |-> 0]
  BY <1>1 DEF Reviews!Overwrite, ReviewSound, Review
<1>3. replaced' \in 0..clock /\ replaced <= replaced' /\ source' <= replaced'
  <2>1. replaced' = Reviews!Max({replaced, source'}) /\ {replaced, source'} \subseteq 0..clock
    BY <1>1, <1>2 DEF Reviews!Overwrite
  <2>2. /\ replaced' \in {replaced, source'}
        /\ \A s \in {replaced, source'} : s <= replaced'
    BY <1>1, <2>1, GreatestOfNaturals
  <2> QED
    BY <1>1, <1>2, <2>2
<1>4. Columns'
  BY <1>1, <1>2, <1>3 DEF Columns
<1>5. CardSound'
  BY <1>1, <1>2, <1>3 DEF CardSound, Has
<1>6. ASSUME NEW q \in Reviewers PROVE DraftSound(q)'
  <2>1. review'[q] \in {Reviews!Idle, review[q]} /\ ReviewSound(review[q]) /\ review[q] \in Review
    BY <1>1, <1>2 DEF ReviewInv, Columns, DraftSound
  <2>2. ReviewSound(review'[q]) /\ review'[q] \in Review
    BY <1>1, <2>1
  <2>3. Level(review'[q]) \in Nat
    BY <2>2 DEF Level, Review
  <2>4. ASSUME Has(review'[q].draft, Level(review'[q])), NEW m \in Evidence,
               updated[m] \in (replaced' + 1)..Level(review'[q])
        PROVE  review'[q].draft[m] = updated[m]
    BY <1>1, <1>3, <2>3, <2>4 DEF Has
  <2> QED
    BY <1>2, <2>2, <2>4 DEF DraftSound, ReviewSound, Has, Level
<1> QED
  BY <1>4, <1>5, <1>6 DEF ReviewInv

\* The other steps of a reviewer.
LEMMA ReviewerKeeps ==
    ASSUME ReviewInv, NEW r \in Reviewers,
           \/ Reviews!ReadReview(r) \/ Reviews!Lost(r)
           \/ Reviews!Check(r) \/ Reviews!Conflict(r) \/ Reviews!Refused(r)
    PROVE  ReviewInv'
<1>1. /\ review[r] \in Review /\ ReviewSound(review[r]) /\ Columns
      /\ Reviews!Idle \in Review /\ ReviewSound(Reviews!Idle)
  BY IdleSound DEF ReviewInv, Columns, DraftSound
<1>2. UNCHANGED <<kind, clock, updated, inferences, hypotheses, source, card, replaced, raced>>
  BY DEF Reviews!ReadReview, Reviews!Lost, Reviews!Check, Reviews!Conflict, Reviews!Refused,
         Reviews!cards
<1>3. CASE Reviews!ReadReview(r)
  <2> DEFINE c == [review[r] EXCEPT !.stage = "asked",
                                   !.inferred = Reviews!ActiveInferences(inferences),
                                   !.open = Reviews!Open(hypotheses)]
  <2>1. Reviews!ActiveInferences(inferences) \in SUBSET Nat /\ Reviews!Open(hypotheses) \in SUBSET Nat
    BY <1>1 DEF Columns, Reviews!ActiveInferences, Reviews!Open
  <2>2. /\ c \in Review /\ c.expected = review[r].expected /\ c.draft = review[r].draft
        /\ c.since = review[r].since /\ c.shown = review[r].shown /\ c.stage = "asked"
    BY <1>1, <2>1 DEF Review, Drafting
  <2>3. review' = [review EXCEPT ![r] = c]
    BY <1>3 DEF Reviews!ReadReview
  <2>4. review[r].stage = "reading"
    BY <1>3 DEF Reviews!ReadReview
  <2> HIDE DEF c
  <2>5. ReviewSound(c)
    BY <1>1, <2>2, <2>4 DEF ReviewSound, Level, Drafting
  <2> QED
    BY <1>2, <2>2, <2>3, <2>5, ReviewKeeps
<1>4. CASE Reviews!Check(r)
  <2> DEFINE c == [review[r] EXCEPT !.stage = "checked"]
  <2>1. /\ c \in Review /\ c.expected = review[r].expected /\ c.draft = review[r].draft
        /\ c.since = review[r].since /\ c.shown = review[r].shown /\ c.stage = "checked"
    BY <1>1 DEF Review, Drafting
  <2>2. review' = [review EXCEPT ![r] = c]
    BY <1>4 DEF Reviews!Check
  <2>3. review[r].stage = "asked"
    BY <1>4 DEF Reviews!Check
  <2> HIDE DEF c
  <2>4. ReviewSound(c)
    BY <1>1, <2>1, <2>3 DEF ReviewSound, Level, Drafting
  <2> QED
    BY <1>2, <2>1, <2>2, <2>4, ReviewKeeps
<1>5. CASE Reviews!Lost(r) \/ Reviews!Conflict(r) \/ Reviews!Refused(r)
  <2>1. review' = [review EXCEPT ![r] = Reviews!Idle]
    BY <1>5 DEF Reviews!Lost, Reviews!Conflict, Reviews!Refused
  <2> QED
    BY <1>1, <1>2, <2>1, ReviewKeeps
<1> QED
  BY <1>3, <1>4, <1>5

\* An inference that is retracted stays, with what it is from.
LEMMA RetractInferenceKeeps ==
    ASSUME ReviewInv, NEW i, Reviews!RetractInference(i)
    PROVE  ReviewInv' /\ InferencesGrown(inferences, inferences')
<1> DEFINE row == [inferences[i] EXCEPT !.status = "retracted"]
<1>1. Columns /\ CardSound /\ inferences \in Seq(InferenceRow) /\ Len(inferences) \in Nat
  BY DEF ReviewInv, Columns
<1>2. i \in 1..Len(inferences)
  BY <1>1 DEF Reviews!RetractInference, Reviews!ActiveInferences
<1>3. row \in InferenceRow /\ row.from = inferences[i].from
  <2>1. inferences[i] \in InferenceRow
    BY <1>1, <1>2
  <2> QED
    BY <2>1 DEF InferenceRow, Reviews!Sources
<1>4. inferences' = [inferences EXCEPT ![i] = row]
  BY DEF Reviews!RetractInference
<1> HIDE DEF row
<1>5. /\ inferences' \in Seq(InferenceRow) /\ Len(inferences') = Len(inferences)
      /\ \A j \in 1..Len(inferences) :
            inferences'[j] = IF j = i THEN row ELSE inferences[j]
  BY <1>1, <1>2, <1>3, <1>4, ExceptSeq
<1>6. Columns'
  BY <1>1, <1>5 DEF Reviews!RetractInference, Columns, Reviews!cards
<1>7. CardSound' /\ \A r \in Reviewers : DraftSound(r)'
  BY DEF Reviews!RetractInference, Reviews!cards, ReviewInv, CardSound, DraftSound,
         ReviewSound, Has, Level
<1> QED
  BY <1>1, <1>3, <1>5, <1>6, <1>7 DEF ReviewInv, InferencesGrown

\* Rows that have grown are as the property has it.
LEMMA GrownSuffices ==
    ASSUME Columns, InferencesGrown(inferences, inferences'),
           HypothesesGrown(hypotheses, hypotheses')
    PROVE  Reviews!ClosedStaysClosed /\ Reviews!RestsOnActive /\ Reviews!NotMadeTwice
<1>1. /\ DOMAIN inferences = 1..Len(inferences) /\ Len(inferences) \in Nat
      /\ DOMAIN hypotheses = 1..Len(hypotheses) /\ Len(hypotheses) \in Nat
  BY DEF Columns
<1>2. /\ DOMAIN inferences' = 1..Len(inferences') /\ Len(inferences') \in Nat
      /\ DOMAIN hypotheses' = 1..Len(hypotheses') /\ Len(hypotheses') \in Nat
  BY DEF InferencesGrown, HypothesesGrown
<1>3. Reviews!ClosedStaysClosed
  BY <1>1 DEF Reviews!ClosedStaysClosed, HypothesesGrown
<1>4. Reviews!RestsOnActive
  <2>1. ASSUME NEW h \in DOMAIN hypotheses'
        PROVE  LET had == IF h \in DOMAIN hypotheses THEN hypotheses[h].evidence ELSE {}
               IN  hypotheses'[h].evidence \ had \subseteq Reviews!ActiveEvidence
    <3>1. CASE h \in DOMAIN hypotheses
      BY <1>1, <3>1 DEF HypothesesGrown
    <3>2. CASE h \notin DOMAIN hypotheses
      BY <1>1, <1>2, <3>2 DEF HypothesesGrown
    <3> QED
      BY <3>1, <3>2
  <2>2. ASSUME NEW i \in DOMAIN inferences'
        PROVE  LET had == IF i \in DOMAIN inferences THEN inferences[i].from ELSE {}
               IN  inferences'[i].from \ had \subseteq Reviews!ActiveEvidence
    <3>1. CASE i \in DOMAIN inferences
      BY <1>1, <3>1 DEF InferencesGrown
    <3>2. CASE i \notin DOMAIN inferences
      BY <1>1, <1>2, <3>2 DEF InferencesGrown
    <3> QED
      BY <3>1, <3>2
  <2> QED
    BY <2>1, <2>2 DEF Reviews!RestsOnActive
<1>5. Reviews!NotMadeTwice
  BY <1>1, <1>2 DEF Reviews!NotMadeTwice, InferencesGrown, HypothesesGrown
<1> QED
  BY <1>3, <1>4, <1>5

\* Every step, of reviewers and of Memories.
LEMMA StepSound ==
    ASSUME ReviewInv, [Reviews!Next]_(Reviews!vars)
    PROVE  /\ ReviewInv'
           /\ InferencesGrown(inferences, inferences')
           /\ HypothesesGrown(hypotheses, hypotheses')
<1>1. Columns /\ InferencesGrown(inferences, inferences) /\ HypothesesGrown(hypotheses, hypotheses)
  BY DEF ReviewInv, Columns, InferencesGrown, HypothesesGrown
<1>2. ASSUME NEW r \in Reviewers, Reviews!Commit(r)
      PROVE  /\ ReviewInv'
             /\ InferencesGrown(inferences, inferences')
             /\ HypothesesGrown(hypotheses, hypotheses')
  BY <1>2, CommitKeeps
<1>3. ASSUME NEW r \in Reviewers,
             \/ Reviews!Choose(r) \/ Reviews!ReadCard(r) \/ Reviews!ReadMemories(r)
             \/ Reviews!ReadWatermark(r) \/ Reviews!OverwriteReads(r)
      PROVE  ReviewInv' /\ UNCHANGED <<inferences, hypotheses>>
  BY <1>3, ReadingKeeps DEF Reviews!Choose, Reviews!ReadCard, Reviews!ReadMemories,
                            Reviews!ReadWatermark, Reviews!OverwriteReads
<1>8. ASSUME NEW r \in Reviewers, Reviews!Overwrite(r)
      PROVE  ReviewInv' /\ UNCHANGED <<inferences, hypotheses>>
  BY <1>8, OverwriteKeeps DEF Reviews!Overwrite
<1>4. ASSUME NEW r \in Reviewers,
             \/ Reviews!ReadReview(r) \/ Reviews!Lost(r)
             \/ Reviews!Check(r) \/ Reviews!Conflict(r) \/ Reviews!Refused(r)
      PROVE  ReviewInv' /\ UNCHANGED <<inferences, hypotheses>>
  BY <1>4, ReviewerKeeps DEF Reviews!ReadReview, Reviews!Lost, Reviews!Check, Reviews!Conflict,
                             Reviews!Refused
<1>5. ASSUME NEW m \in Evidence, Reviews!Add(m) \/ Reviews!Retract(m)
      PROVE  ReviewInv' /\ UNCHANGED <<inferences, hypotheses>>
  BY <1>5, StampKeeps DEF Reviews!Add, Reviews!Retract
<1>6. ASSUME NEW i, Reviews!RetractInference(i)
      PROVE  ReviewInv' /\ InferencesGrown(inferences, inferences') /\ UNCHANGED hypotheses
  BY <1>6, RetractInferenceKeeps DEF Reviews!RetractInference
<1>7. CASE UNCHANGED Reviews!vars
  BY <1>1, <1>7 DEF Reviews!vars, Reviews!reviewed, Reviews!cards, ReviewInv, Columns,
                    CardSound, DraftSound, ReviewSound, Has, Level
<1> QED
  BY <1>1, <1>2, <1>3, <1>4, <1>5, <1>6, <1>7, <1>8 DEF Reviews!Next

-----------------------------------------------------------------------------
\* What the bounds are kept by, and the Memories by their states.
Bounded ==
    /\ clock <= ReviewWrites /\ imports \in 0..MaxImports /\ \A m \in Evidence : card[m] <= clock
    /\ status \in [Evidence -> {"none", "active", "retracted"}]
    /\ \A m \in Evidence : (status[m] = "none") = (updated[m] = 0)
    /\ Len(inferences) <= MaxRows /\ Len(hypotheses) <= MaxRows
    /\ \A r \in Reviewers :
          /\ \A m \in Evidence : review[r].draft[m] <= clock
          /\ review[r].inferred \subseteq Reviews!InferenceIds /\ review[r].open \subseteq 1..MaxRows

\* A review that names no row there may not be, and no later stamp.
ReviewBounded(c) ==
    /\ \A m \in Evidence : c.draft[m] <= clock
    /\ c.inferred \subseteq Reviews!InferenceIds /\ c.open \subseteq 1..MaxRows

\* A review that has not begun names nothing.
LEMMA IdleBounded == ASSUME clock \in Nat PROVE ReviewBounded(Reviews!Idle) /\ Reviews!Idle \in Review
  BY DEF ReviewBounded, Reviews!Idle, Review

\* A reviewer takes up such a review; what is compared with it stays.
LEMMA ReviewBoundKept ==
    ASSUME ReviewInv, Bounded, NEW r \in Reviewers, NEW c, ReviewBounded(c),
           review' = [review EXCEPT ![r] = c],
           UNCHANGED <<clock, status, updated>>, imports' \in 0..MaxImports,
           \A m \in Evidence : card'[m] <= clock,
           Len(inferences') <= MaxRows, Len(hypotheses') <= MaxRows
    PROVE  Bounded'
<1>1. review \in [Reviewers -> Review]
  BY DEF ReviewInv, Columns
<1>2. ASSUME NEW q \in Reviewers PROVE ReviewBounded(review'[q])
  <2>1. CASE q = r
    BY <1>1, <2>1
  <2>2. CASE q # r
    BY <1>1, <2>2 DEF Bounded, ReviewBounded
  <2> QED
    BY <2>1, <2>2
<1> QED
  BY <1>2 DEF Bounded, ReviewBounded, Reviews!InferenceIds

\* A step of a reviewer adds no row beyond what it is given, nor a stamp.
LEMMA ReviewerBounded ==
    ASSUME Reviews!Parameters, ReviewInv, Bounded, NEW r \in Reviewers,
           \/ Reviews!Choose(r) \/ Reviews!ReadCard(r) \/ Reviews!ReadMemories(r)
           \/ Reviews!ReadWatermark(r) \/ Reviews!ReadReview(r) \/ Reviews!Lost(r)
           \/ Reviews!Check(r) \/ Reviews!Commit(r) \/ Reviews!Conflict(r) \/ Reviews!Refused(r)
           \/ Reviews!OverwriteReads(r) \/ Reviews!Overwrite(r)
    PROVE  Bounded'
<1>1. /\ Columns /\ clock \in Nat /\ MaxRows \in Nat /\ review[r] \in Review
      /\ imports \in 0..MaxImports /\ MaxImports \in Nat
      /\ \A m \in Evidence : updated[m] \in 0..clock /\ card[m] <= clock /\ card[m] \in Nat
      /\ ReviewBounded(review[r])
  BY DEF ReviewInv, Columns, Bounded, ReviewBounded, Reviews!Parameters
<1>2. CASE \/ Reviews!Choose(r) \/ Reviews!ReadCard(r) \/ Reviews!ReadMemories(r)
           \/ Reviews!ReadWatermark(r) \/ Reviews!OverwriteReads(r)
  <2>1. PICK c : review' = [review EXCEPT ![r] = c] /\ ReviewBounded(c)
    <3> USE DEF ReviewBounded
    <3>1. CASE Reviews!Choose(r)
      <4> DEFINE d == [review[r] EXCEPT !.stage = "chosen"]
      <4>1. d.draft = review[r].draft /\ d.inferred = review[r].inferred /\ d.open = review[r].open
        BY <1>1 DEF Review
      <4>2. review' = [review EXCEPT ![r] = d]
        BY <3>1 DEF Reviews!Choose
      <4> HIDE DEF d
      <4> QED BY <1>1, <4>1, <4>2
    <3>2. CASE Reviews!ReadCard(r)
      <4> DEFINE d == [review[r] EXCEPT !.stage = "card", !.since = source, !.draft = card]
      <4>1. d.draft = card /\ d.inferred = review[r].inferred /\ d.open = review[r].open
        BY <1>1 DEF Review
      <4>2. review' = [review EXCEPT ![r] = d]
        BY <3>2 DEF Reviews!ReadCard
      <4> HIDE DEF d
      <4> QED BY <1>1, <4>1, <4>2
    <3>3. CASE Reviews!ReadMemories(r)
      <4> DEFINE draft == [m \in Evidence |-> IF review[r].since = 0 \/ updated[m] > review[r].since
                                             THEN updated[m] ELSE review[r].draft[m]]
                 d == [review[r] EXCEPT !.stage = "memories", !.shown = Reviews!Watermark,
                                        !.draft = draft]
      <4>1. ASSUME NEW m \in Evidence PROVE draft[m] <= clock
        <5>1. draft[m] \in {updated[m], review[r].draft[m]}
          OBVIOUS
        <5>2. updated[m] <= clock /\ review[r].draft[m] <= clock
          BY <1>1
        <5> HIDE DEF draft
        <5> QED BY <5>1, <5>2
      <4>2. d.draft = draft /\ d.inferred = review[r].inferred /\ d.open = review[r].open
        BY <1>1 DEF Review
      <4>3. review' = [review EXCEPT ![r] = d]
        BY <3>3 DEF Reviews!ReadMemories
      <4> HIDE DEF d, draft
      <4> QED BY <1>1, <4>1, <4>2, <4>3
    <3>4. CASE Reviews!ReadWatermark(r)
      <4> DEFINE d == [review[r] EXCEPT !.stage = "reading", !.since = 0,
                                        !.expected = Reviews!Watermark]
      <4>1. d.draft = review[r].draft /\ d.inferred = review[r].inferred /\ d.open = review[r].open
        BY <1>1 DEF Review
      <4>2. \/ review' = [review EXCEPT ![r] = d]
            \/ review' = [review EXCEPT ![r] = Reviews!Idle]
        BY <3>4 DEF Reviews!ReadWatermark
      <4> HIDE DEF d
      <4>3. ReviewBounded(d) /\ ReviewBounded(Reviews!Idle)
        BY <1>1, <4>1, IdleBounded
      <4> QED BY <4>2, <4>3
    <3>5. CASE Reviews!OverwriteReads(r)
      <4> DEFINE d == [Reviews!Idle EXCEPT !.stage = "overwriting", !.expected = Reviews!Watermark]
      <4>1. /\ d.draft = Reviews!Idle.draft /\ d.inferred = Reviews!Idle.inferred
            /\ d.open = Reviews!Idle.open
        BY <1>1, IdleBounded DEF Review
      <4>2. review' = [review EXCEPT ![r] = d]
        BY <3>5 DEF Reviews!OverwriteReads
      <4> HIDE DEF d
      <4> QED BY <1>1, <4>1, <4>2, IdleBounded
    <3> QED
      BY <1>2, <3>1, <3>2, <3>3, <3>4, <3>5
  <2>2. UNCHANGED <<clock, status, updated, inferences, hypotheses, card>>
    BY <1>2 DEF Reviews!Choose, Reviews!ReadCard, Reviews!ReadMemories, Reviews!ReadWatermark,
                Reviews!OverwriteReads, Reviews!cards
  <2>3. imports' \in 0..MaxImports
    <3>1. imports' = imports \/ (imports < MaxImports /\ imports' = imports + 1)
      BY <1>2 DEF Reviews!Choose, Reviews!ReadCard, Reviews!ReadMemories, Reviews!ReadWatermark,
                  Reviews!OverwriteReads, Reviews!cards
    <3> QED
      BY <1>1, <3>1
  <2> QED
    BY <2>1, <2>2, <2>3, ReviewBoundKept DEF Bounded
<1>3. CASE Reviews!ReadReview(r)
  <2> DEFINE c == [review[r] EXCEPT !.stage = "asked",
                                   !.inferred = Reviews!ActiveInferences(inferences),
                                   !.open = Reviews!Open(hypotheses)]
  <2>1. /\ Reviews!ActiveInferences(inferences) \subseteq Reviews!InferenceIds
        /\ Reviews!Open(hypotheses) \subseteq 1..MaxRows
    <3>1. /\ DOMAIN inferences = 1..Len(inferences) /\ Len(inferences) \in Nat
          /\ DOMAIN hypotheses = 1..Len(hypotheses) /\ Len(hypotheses) \in Nat
          /\ Len(inferences) <= MaxRows /\ Len(hypotheses) <= MaxRows
      BY <1>1 DEF Columns, Bounded
    <3> QED
      BY <1>1, <3>1 DEF Reviews!ActiveInferences, Reviews!Open, Reviews!InferenceIds
  <2>2. /\ c.expected = review[r].expected /\ c.draft = review[r].draft
        /\ c.inferred = Reviews!ActiveInferences(inferences) /\ c.open = Reviews!Open(hypotheses)
    BY <1>1 DEF Review
  <2>3. /\ review' = [review EXCEPT ![r] = c]
       /\ UNCHANGED <<clock, status, updated, inferences, hypotheses, card, imports>>
    BY <1>3 DEF Reviews!ReadReview, Reviews!cards
  <2> HIDE DEF c
  <2>4. ReviewBounded(c)
    BY <1>1, <2>1, <2>2 DEF ReviewBounded
  <2> QED
    BY <2>3, <2>4, ReviewBoundKept DEF Bounded
<1>4. CASE Reviews!Check(r)
  <2> DEFINE c == [review[r] EXCEPT !.stage = "checked"]
  <2>1. /\ c.expected = review[r].expected /\ c.draft = review[r].draft
        /\ c.inferred = review[r].inferred /\ c.open = review[r].open
    BY <1>1 DEF Review
  <2>2. /\ review' = [review EXCEPT ![r] = c]
       /\ UNCHANGED <<clock, status, updated, inferences, hypotheses, card, imports>>
    BY <1>4 DEF Reviews!Check, Reviews!cards
  <2> HIDE DEF c
  <2>3. ReviewBounded(c)
    BY <1>1, <2>1 DEF ReviewBounded
  <2> QED
    BY <2>2, <2>3, ReviewBoundKept DEF Bounded
<1>5. CASE Reviews!Lost(r) \/ Reviews!Conflict(r) \/ Reviews!Refused(r)
  <2>1. /\ review' = [review EXCEPT ![r] = Reviews!Idle]
       /\ UNCHANGED <<clock, status, updated, inferences, hypotheses, card, imports>>
    BY <1>5 DEF Reviews!Lost, Reviews!Conflict, Reviews!Refused, Reviews!cards
  <2> QED
    BY <1>1, <2>1, IdleBounded, ReviewBoundKept DEF Bounded
<1>6. CASE Reviews!Commit(r)
  <2>1. /\ review' = [review EXCEPT ![r] = Reviews!Idle] /\ UNCHANGED <<clock, status, updated>>
        /\ card' = review[r].draft /\ imports' = imports
        /\ Len(inferences') <= MaxRows /\ Len(hypotheses') <= MaxRows
    BY <1>6 DEF Reviews!Commit
  <2>2. \A m \in Evidence : card'[m] <= clock
    BY <1>1, <2>1 DEF ReviewBounded
  <2> QED
    BY <1>1, <2>1, <2>2, IdleBounded, ReviewBoundKept
<1>7. CASE Reviews!Overwrite(r)
  <2>1. /\ review' = [review EXCEPT ![r] = Reviews!Idle]
        /\ UNCHANGED <<clock, status, updated, inferences, hypotheses, imports>>
        /\ card' = [m \in Evidence |-> 0]
    BY <1>7 DEF Reviews!Overwrite
  <2>2. \A m \in Evidence : card'[m] <= clock
    BY <1>1, <2>1
  <2> QED
    BY <1>1, <2>1, <2>2, IdleBounded, ReviewBoundKept DEF Bounded
<1> QED
  BY <1>2, <1>3, <1>4, <1>5, <1>6, <1>7

\* A write of a Memory is one more of those there may be.
LEMMA MemoryBounded ==
    ASSUME Reviews!Parameters, ReviewInv, Bounded, NEW m \in Evidence,
           Reviews!Add(m) \/ Reviews!Retract(m)
    PROVE  Bounded'
<1>1. /\ clock \in Nat /\ clock' = clock + 1 /\ clock < ReviewWrites /\ ReviewWrites \in Nat
      /\ updated' = [updated EXCEPT ![m] = clock + 1] /\ updated \in [Evidence -> 0..clock]
      /\ \/ status' = [status EXCEPT ![m] = "active"]
         \/ status' = [status EXCEPT ![m] = "retracted"]
      /\ UNCHANGED <<inferences, hypotheses, card, imports, review>>
      /\ card \in [Evidence -> Nat] /\ review \in [Reviewers -> Review]
  BY DEF ReviewInv, Columns, Reviews!Add, Reviews!Retract, Reviews!Stamp, Reviews!Parameters,
         Reviews!cards
<1>2. status' \in [Evidence -> {"none", "active", "retracted"}]
  BY <1>1 DEF Bounded
<1>3. \A n \in Evidence : (status'[n] = "none") = (updated'[n] = 0)
  BY <1>1 DEF Bounded
<1>4. \A n \in Evidence : card'[n] <= clock'
  BY <1>1 DEF Bounded
<1>5. ASSUME NEW r \in Reviewers
      PROVE  \A n \in Evidence : review'[r].draft[n] <= clock'
  <2>1. /\ review[r].draft \in [Evidence -> Nat]
        /\ \A n \in Evidence : review[r].draft[n] <= clock
    BY <1>1 DEF Bounded, Review
  <2> QED
    BY <1>1, <2>1
<1> QED
  BY <1>1, <1>2, <1>3, <1>4, <1>5 DEF Bounded

\* Every step, of reviewers and of Memories.
LEMMA BoundedKept ==
    ASSUME Reviews!Parameters, ReviewInv, Bounded, [Reviews!Next]_(Reviews!vars)
    PROVE  Bounded'
<1>1. ASSUME NEW i, Reviews!RetractInference(i) PROVE Bounded'
  <2>1. Len(inferences') = Len(inferences)
    <3>1. /\ DOMAIN inferences' = DOMAIN inferences
          /\ inferences' \in Seq(InferenceRow) /\ inferences \in Seq(InferenceRow)
      BY <1>1, RetractInferenceKeeps DEF Reviews!RetractInference, ReviewInv, Columns
    <3>2. /\ DOMAIN inferences = 1..Len(inferences) /\ Len(inferences) \in Nat
          /\ DOMAIN inferences' = 1..Len(inferences') /\ Len(inferences') \in Nat
      BY <3>1
    <3> QED
      BY <3>1, <3>2
  <2> QED
    BY <1>1, <2>1 DEF Reviews!RetractInference, Reviews!cards, Bounded
<1>2. CASE UNCHANGED Reviews!vars
  BY <1>2 DEF Reviews!vars, Reviews!reviewed, Reviews!cards, Bounded
<1> QED
  BY <1>1, <1>2, ReviewerBounded, MemoryBounded DEF Reviews!Next

\* With the bounds, what the reviews keep is of its types.
LEMMA TypesHold == ASSUME Reviews!Parameters, ReviewInv, Bounded PROVE Reviews!TypeOK
<1>1. /\ Columns /\ clock \in 0..ReviewWrites
  BY DEF ReviewInv, Columns, Bounded, Reviews!Parameters
<1>2. card \in [Evidence -> 0..clock]
  BY <1>1 DEF Columns, Bounded
<1>3. /\ DOMAIN inferences = 1..Len(inferences) /\ DOMAIN hypotheses = 1..Len(hypotheses)
      /\ inferences \in Seq(InferenceRow) /\ hypotheses \in Seq(HypothesisRow)
  BY <1>1 DEF Columns
<1>4. \A i \in DOMAIN inferences : inferences[i] \in
         [status : {"active", "retracted"}, from : Reviews!Sources]
  <2>1. \A i \in 1..Len(inferences) : inferences[i] \in InferenceRow
    BY <1>3
  <2> QED
    BY <1>3, <2>1 DEF InferenceRow
<1>5. ASSUME NEW h \in DOMAIN hypotheses
      PROVE  /\ hypotheses[h].status \in {"open", "promoted", "rejected"}
             /\ hypotheses[h].evidence \in Reviews!Sources
             /\ hypotheses[h].to \in {None} \cup Reviews!Memories
             /\ (hypotheses[h].status = "promoted") = (hypotheses[h].to # None)
  <2>1. hypotheses[h] \in HypothesisRow
    BY <1>3
  <2> QED
    BY <2>1 DEF HypothesisRow
<1>6. ASSUME NEW r \in Reviewers
      PROVE  /\ review[r].stage \in {"idle", "chosen", "card", "memories", "reading", "asked",
                                      "checked", "overwriting"}
             /\ {review[r].since, review[r].shown, review[r].expected} \subseteq 0..clock
             /\ review[r].inferred \subseteq Reviews!InferenceIds /\ review[r].open \subseteq 1..MaxRows
  <2>1. review[r] \in Review /\ ReviewSound(review[r])
    BY <1>1 DEF Columns, ReviewInv, DraftSound
  <2> QED
    BY <1>1, <2>1 DEF Review, Drafting, ReviewSound, Bounded
<1> QED
  BY <1>1, <1>2, <1>4, <1>5, <1>6 DEF Reviews!TypeOK, Columns, Bounded

\* Nothing was written or reviewed.
LEMMA BoundedInitially == ASSUME Reviews!Parameters, Reviews!Init PROVE Bounded
<1>1. clock = 0 /\ ReviewWrites \in Nat /\ MaxRows \in Nat /\ MaxImports \in Nat
  BY DEF Reviews!Init, Reviews!Parameters
<1>2. \A r \in Reviewers : ReviewBounded(review[r])
  BY <1>1, IdleBounded DEF Reviews!Init
<1>3. Len(inferences) = 0 /\ Len(hypotheses) = 0
  BY DEF Reviews!Init
<1> QED
  BY <1>1, <1>2, <1>3 DEF Reviews!Init, Bounded, ReviewBounded

-----------------------------------------------------------------------------
(* The vectors and the migrations, of which the proofs are in modules of   *)
(* their own: what these name is what the parts name, definition by        *)
(* definition.                                                             *)

VP == INSTANCE VectorIndexProofs WITH
    MaxWrites <- VectorWrites, MaxEvents <- VectorEvents, events <- vectorEvents

MP == INSTANCE MigrationsProofs WITH
    MaxEvents <- MigrationEvents, events <- migrationEvents, phase <- steps

\* The vectors.
LEMMA SameVectors ==
    /\ VP!Parameters <=> Vectors!Parameters
    /\ VP!Init <=> Vectors!Init
    /\ [VP!Next]_(VP!vars) <=> [Vectors!Next]_(Vectors!vars)
    /\ VP!TypeOK <=> Vectors!TypeOK
<1>1. VP!Parameters <=> Vectors!Parameters
  BY DEF VP!Parameters, Vectors!Parameters, VP!IsFiniteSet, Vectors!IsFiniteSet
<1>2. VP!Init <=> Vectors!Init
  BY DEF VP!Init, Vectors!Init, VP!NoRow, Vectors!NoRow, VP!NoIndex, Vectors!NoIndex
<1>3. VP!Next <=> Vectors!Next
  BY DEF VP!Next, Vectors!Next, VP!WorkerLooks, Vectors!WorkerLooks,
         VP!Pending, Vectors!Pending, VP!Known, Vectors!Known, VP!Closest, Vectors!Closest,
         VP!Cardinality, Vectors!Cardinality, VP!WorkerWrites, Vectors!WorkerWrites,
         VP!Upserted, Vectors!Upserted, VP!IndexUpserted, Vectors!IndexUpserted,
         VP!IndexAway, Vectors!IndexAway, VP!Event, Vectors!Event,
         VP!CrashBetween, Vectors!CrashBetween, VP!WorkerFails, Vectors!WorkerFails,
         VP!AfterFailure, Vectors!AfterFailure, VP!WorkerRetries, Vectors!WorkerRetries,
         VP!Rebuilt, Vectors!Rebuilt, VP!Resolved, Vectors!Resolved,
         VP!Start, Vectors!Start, VP!CrashBuilding, Vectors!CrashBuilding,
         VP!NoIndex, Vectors!NoIndex, VP!Stop, Vectors!Stop, VP!Stopped, Vectors!Stopped,
         VP!Crash, Vectors!Crash, VP!Write, Vectors!Write, VP!Written, Vectors!Written,
         VP!Scheduled, Vectors!Scheduled, VP!Retract, Vectors!Retract,
         VP!NoRow, Vectors!NoRow
<1>4. VP!vars = Vectors!vars
  BY DEF VP!vars, Vectors!vars
<1>5. VP!TypeOK <=> Vectors!TypeOK
  BY DEF VP!TypeOK, Vectors!TypeOK, VP!Known, Vectors!Known, VP!NoRow, Vectors!NoRow
<1> QED
  BY <1>1, <1>2, <1>3, <1>4, <1>5 DEF VP!vars, Vectors!vars

\* The searches, which the background itself names.
LEMMA SameSearches ==
    /\ IndexWhole = VP!IndexWhole /\ InMain = VP!InMain
    /\ Cardinality(InMain) = VP!Cardinality(VP!InMain)
    /\ SearchIndex = VP!SearchIndex /\ SearchMain = VP!SearchMain
<1>1. IndexWhole = VP!IndexWhole
  BY DEF IndexWhole, VP!IndexWhole
<1>2. InMain = VP!InMain /\ InIndex = VP!InIndex
  BY DEF InMain, VP!InMain, InIndex, VP!InIndex, NoRow, VP!NoRow
<1>3. \A S : Cardinality(S) = VP!Cardinality(S)
  BY DEF Cardinality, VP!Cardinality
<1>4. \A S, n : Closest(S, n) = VP!Closest(S, n)
  BY <1>3 DEF Closest, VP!Closest
<1>5. \A n : Nearest(n) = VP!Nearest(n)
  BY <1>2, <1>4 DEF Nearest, VP!Nearest
<1>6. SearchIndex = VP!SearchIndex
  BY <1>2, <1>3, <1>4, <1>5 DEF SearchIndex, VP!SearchIndex
<1>7. SearchMain = VP!SearchMain
  BY <1>2, <1>4 DEF SearchMain, VP!SearchMain
<1> QED
  BY <1>1, <1>2, <1>3, <1>6, <1>7

\* The migrations.
LEMMA SameSchema ==
    /\ MP!Parameters <=> Schema!Parameters
    /\ MP!Init <=> Schema!Init
    /\ [MP!Next]_(MP!vars) <=> [Schema!Next]_(Schema!vars)
    /\ MP!TypeOK <=> Schema!TypeOK
<1>1. MP!Parameters <=> Schema!Parameters
  BY DEF MP!Parameters, Schema!Parameters, MP!Histories, Schema!Histories,
         MP!GoalTables, Schema!GoalTables, MP!Current, Schema!Current,
         MP!Sentinels, Schema!Sentinels
<1>2. MP!Init <=> Schema!Init
  BY DEF MP!Init, Schema!Init, MP!Found, Schema!Found, MP!Database, Schema!Database,
         MP!Empty, Schema!Empty, MP!Goals, Schema!Goals, MP!Whole, Schema!Whole,
         MP!V2, Schema!V2, MP!Rest, Schema!Rest, MP!Current, Schema!Current
<1>3. MP!Next <=> Schema!Next
  BY DEF MP!Next, Schema!Next, MP!Unlocked, Schema!Unlocked,
         MP!LookAtTables, Schema!LookAtTables, MP!Decide, Schema!Decide,
         MP!Backup, Schema!Backup, MP!Last, Schema!Last, MP!copies, Schema!copies, MP!Begin, Schema!Begin, MP!Work, Schema!Work,
         MP!StatementFails, Schema!StatementFails, MP!ApplySchema, Schema!ApplySchema,
         MP!WriteGoal, Schema!WriteGoal, MP!Restart, Schema!Restart, MP!Event, Schema!Event,
         MP!Fails, Schema!Fails, MP!Executed, Schema!Executed, MP!Plan, Schema!Plan,
         MP!Refused, Schema!Refused, MP!Seen, Schema!Seen, MP!AnyTable, Schema!AnyTable,
         MP!BacksUp, Schema!BacksUp, MP!SchemaMissing, Schema!SchemaMissing,
         MP!SchemaStatement, Schema!SchemaStatement, MP!Goals, Schema!Goals,
         MP!Create, Schema!Create, MP!Drop, Schema!Drop, MP!Stamp, Schema!Stamp,
         MP!HistoryTable, Schema!HistoryTable, MP!GoalStep, Schema!GoalStep,
         MP!Upgrade, Schema!Upgrade, MP!UpgradeAndStamp, Schema!UpgradeAndStamp,
         MP!Legacy, Schema!Legacy, MP!Valid, Schema!Valid, MP!Highest, Schema!Highest,
         MP!Lowest, Schema!Lowest, MP!Sentinels, Schema!Sentinels,
         MP!LooksLikeV2, Schema!LooksLikeV2, MP!V2, Schema!V2, MP!Whole, Schema!Whole,
         MP!Rest, Schema!Rest, MP!Current, Schema!Current
<1>4. MP!vars = Schema!vars
  BY DEF MP!vars, Schema!vars, MP!copies, Schema!copies
<1>5. MP!TypeOK <=> Schema!TypeOK
  BY DEF MP!TypeOK, Schema!TypeOK, MP!Databases, Schema!Databases,
         MP!Histories, Schema!Histories, MP!GoalTables, Schema!GoalTables,
         MP!Sentinels, Schema!Sentinels, MP!Found, Schema!Found,
         MP!Database, Schema!Database, MP!Empty, Schema!Empty, MP!Goals, Schema!Goals,
         MP!Whole, Schema!Whole, MP!V2, Schema!V2, MP!Rest, Schema!Rest,
         MP!Current, Schema!Current
<1> QED
  BY <1>1, <1>2, <1>3, <1>4, <1>5
     DEF MP!vars, Schema!vars, MP!copies, Schema!copies

\* A start on a database, the one or the other way.
LEMMA SameStart == MP!NextStartSucceeds <=> Schema!NextStartSucceeds
<1>1. \A d : MP!Statements(d) = Schema!Statements(d)
  BY DEF MP!Statements, Schema!Statements, MP!FlattenSeq, Schema!FlattenSeq,
         MP!Plan, Schema!Plan, MP!Seen, Schema!Seen, MP!AnyTable, Schema!AnyTable,
         MP!Highest, Schema!Highest, MP!UpgradeAndStamp, Schema!UpgradeAndStamp,
         MP!Upgrade, Schema!Upgrade, MP!Legacy, Schema!Legacy, MP!Create, Schema!Create,
         MP!Drop, Schema!Drop, MP!Stamp, Schema!Stamp, MP!HistoryTable, Schema!HistoryTable,
         MP!GoalStep, Schema!GoalStep, MP!Current, Schema!Current
<1>2. \A d, s : MP!Fails(d, s) <=> Schema!Fails(d, s)
  BY DEF MP!Fails, Schema!Fails
<1>3. \A d, s : MP!Ran(d, s) = Schema!Ran(d, s)
  BY DEF MP!Ran, Schema!Ran, MP!Executed, Schema!Executed, MP!Fails, Schema!Fails,
         MP!Goals, Schema!Goals
<1>4. \A d : MP!Completed(d) = Schema!Completed(d)
  BY DEF MP!Completed, Schema!Completed, MP!Goals, Schema!Goals, MP!Whole, Schema!Whole,
         MP!Rest, Schema!Rest, MP!V2, Schema!V2
<1>5. \A d : MP!Refused(MP!Seen(d), d) <=> Schema!Refused(Schema!Seen(d), d)
  BY DEF MP!Refused, Schema!Refused, MP!Seen, Schema!Seen, MP!AnyTable, Schema!AnyTable,
         MP!Valid, Schema!Valid, MP!Lowest, Schema!Lowest, MP!Highest, Schema!Highest,
         MP!Sentinels, Schema!Sentinels, MP!LooksLikeV2, Schema!LooksLikeV2,
         MP!V2, Schema!V2, MP!Current, Schema!Current
<1>6. \A d : MP!Starts(d) <=> Schema!Starts(d)
  BY <1>1, <1>2, <1>3, <1>5 DEF MP!Starts, Schema!Starts
<1>7. \A d : MP!Started(d) = Schema!Started(d)
  BY <1>1, <1>3, <1>4 DEF MP!Started, Schema!Started
<1>8. \A d : MP!BacksUp(MP!Plan(MP!Seen(d), d)) <=> Schema!BacksUp(Schema!Plan(Schema!Seen(d), d))
  BY DEF MP!BacksUp, Schema!BacksUp, MP!Plan, Schema!Plan, MP!Seen, Schema!Seen,
         MP!AnyTable, Schema!AnyTable, MP!Highest, Schema!Highest,
         MP!UpgradeAndStamp, Schema!UpgradeAndStamp, MP!Upgrade, Schema!Upgrade,
         MP!Legacy, Schema!Legacy, MP!Create, Schema!Create, MP!Drop, Schema!Drop,
         MP!Stamp, Schema!Stamp, MP!HistoryTable, Schema!HistoryTable,
         MP!GoalStep, Schema!GoalStep, MP!Current, Schema!Current
<1>9. /\ \A h : MP!Highest(h) = Schema!Highest(h)
      /\ MP!Whole = Schema!Whole /\ MP!Current = Schema!Current
  BY DEF MP!Highest, Schema!Highest, MP!Whole, Schema!Whole, MP!Rest, Schema!Rest,
         MP!V2, Schema!V2, MP!Current, Schema!Current
<1> QED
  BY <1>4, <1>6, <1>7, <1>8, <1>9 DEF MP!NextStartSucceeds, Schema!NextStartSucceeds,
                                      MP!BackedUp, Schema!BackedUp

-----------------------------------------------------------------------------
(* The parts together.                                                     *)

\* A step is one of a part, and leaves the others as they are.
LEMMA PartsMove ==
    ASSUME [Next]_vars
    PROVE  /\ UNCHANGED part
           /\ [Vectors!Next]_(Vectors!vars) /\ [Schema!Next]_(Schema!vars)
           /\ [Summary!Next]_(Summary!vars) /\ [Reviews!Next]_(Reviews!vars)
<1> USE DEF vectors, schema, summary, Vectors!vars, Schema!vars, Schema!copies, Summary!vars,
            Reviews!vars, Reviews!reviewed, Reviews!cards, reviewed, cards
<1>1. CASE VectorsMove
  BY <1>1 DEF VectorsMove
<1>2. CASE SchemaMoves
  BY <1>2 DEF SchemaMoves
<1>3. CASE SummaryMoves
  BY <1>3 DEF SummaryMoves
<1>4. CASE ReviewsMove
  BY <1>4 DEF ReviewsMove
<1>5. CASE UNCHANGED vars
  BY <1>5 DEF vars
<1> QED
  BY <1>1, <1>2, <1>3, <1>4, <1>5 DEF Next

\* Each part keeps its own invariant.
BackgroundInv ==
    /\ part \in {"vectors", "schema", "summary", "reviews"}
    /\ VP!IInv /\ VP!TypeOK
    /\ MP!IInv
    /\ SummaryInv
    /\ ReviewInv /\ Bounded

\* Every state of the background has the invariants of its parts, whose steps
\* do not meet.
THEOREM BackgroundInvariant == Spec => []BackgroundInv
<1> USE VectorAssumption, SchemaAssumption, SummaryAssumption, ReviewAssumption
<1>1. VP!Parameters /\ MP!Parameters
  BY SameVectors, SameSchema
<1>2. Init => BackgroundInv
  <2> SUFFICES ASSUME Init PROVE BackgroundInv
    OBVIOUS
  <2>1. VP!Init /\ MP!Init /\ Summary!Init /\ Reviews!Init
    BY SameVectors, SameSchema DEF Init
  <2>2. VP!IInv /\ VP!TypeOK
    BY <1>1, <2>1, VP!InitKeeps, VP!InitTyped
  <2>3. MP!IInv
    BY <1>1, <2>1, MP!InitInvariant
  <2>4. SummaryInv
    BY <2>1, SummaryInitially
  <2>5. ReviewInv /\ Bounded
    BY <2>1, ReviewsInitially, BoundedInitially
  <2>6. part \in {"vectors", "schema", "summary", "reviews"}
    BY DEF Init
  <2> QED
    BY <2>2, <2>3, <2>4, <2>5, <2>6 DEF BackgroundInv
<1>3. BackgroundInv /\ [Next]_vars => BackgroundInv'
  <2> SUFFICES ASSUME BackgroundInv, [Next]_vars PROVE BackgroundInv'
    OBVIOUS
  <2>1. /\ [VP!Next]_(VP!vars) /\ [MP!Next]_(MP!vars)
        /\ [Summary!Next]_(Summary!vars) /\ [Reviews!Next]_(Reviews!vars)
        /\ part' \in {"vectors", "schema", "summary", "reviews"}
    BY PartsMove, SameVectors, SameSchema DEF BackgroundInv
  <2>2. VP!IInv' /\ VP!TypeOK'
    BY <1>1, <2>1, VP!NextKeeps, VP!NextTyped DEF BackgroundInv
  <2>3. MP!IInv'
    BY <1>1, <2>1, MP!StepInvariant DEF BackgroundInv
  <2>4. SummaryInv'
    BY <2>1, SummaryTypeKept, CoveredKept, AttendedKept DEF BackgroundInv, SummaryInv
  <2>5. ReviewInv' /\ Bounded'
    BY <2>1, StepSound, BoundedKept DEF BackgroundInv
  <2> QED
    BY <2>1, <2>2, <2>3, <2>4, <2>5 DEF BackgroundInv
<1> QED
  BY <1>2, <1>3, PTL DEF Spec

\* What each part keeps is of its types, whichever of them moves.
THEOREM BackgroundTypes == Spec => []TypeOK
<1> USE VectorAssumption, SchemaAssumption, SummaryAssumption, ReviewAssumption
<1>1. BackgroundInv => TypeOK
  <2> SUFFICES ASSUME BackgroundInv PROVE TypeOK
    OBVIOUS
  <2>1. Vectors!TypeOK
    BY SameVectors DEF BackgroundInv
  <2>2. Schema!TypeOK
    BY SameSchema DEF BackgroundInv, MP!IInv
  <2>3. Summary!TypeOK
    BY DEF BackgroundInv, SummaryInv
  <2>4. Reviews!TypeOK
    BY TypesHold DEF BackgroundInv
  <2> QED
    BY <2>1, <2>2, <2>3, <2>4 DEF TypeOK, BackgroundInv
<1> QED
  BY <1>1, BackgroundInvariant, PTL

\* A start of the program that ends or fails at any of its statements, alone or
\* among others, leaves a database that the next start brings to the present
\* schema with every goal there ever was in it; what a step changed is in a backup,
\* unless the copy of a later start was written over it; and what was refused is as
\* it was found.
THEOREM StartsAfterStarts == Spec => []NextStartSucceeds
<1>1. BackgroundInv => NextStartSucceeds
  <2> SUFFICES ASSUME BackgroundInv PROVE Schema!NextStartSucceeds
    BY DEF NextStartSucceeds
  <2>1. MP!Parameters
    BY SchemaAssumption, SameSchema
  <2>2. MP!NextStartSucceeds
    BY <2>1, MP!InvariantSucceeds DEF BackgroundInv
  <2> QED
    BY <2>2, SameStart
<1> QED
  BY <1>1, BackgroundInvariant, PTL

\* While the index is whole and the widened search covers it, queries, comparisons
\* and the order of a review do not depend on which way a search went.
THEOREM BackgroundSearches == Spec => []SearchPathsAgree
<1>1. BackgroundInv => SearchPathsAgree
  <2> SUFFICES ASSUME BackgroundInv, IndexWhole, Cardinality(InMain) <= Escalated
               PROVE  (\A o \in Owners : index.rows[o] = rows[o].text) /\ SearchIndex = SearchMain
    BY DEF SearchPathsAgree
  <2>1. VP!Parameters
    BY VectorAssumption, SameVectors
  <2>2. VP!IndexWhole /\ VP!Cardinality(VP!InMain) <= Escalated
    BY SameSearches
  <2>3. (\A o \in Owners : index.rows[o] = rows[o].text) /\ VP!SearchIndex = VP!SearchMain
    BY <2>1, <2>2, VP!WholeAgrees DEF BackgroundInv
  <2> QED
    BY <2>3, SameSearches
<1> QED
  BY <1>1, BackgroundInvariant, PTL

\* Fewer messages than the threshold are missing from the summary when the server
\* is at rest, unless the last loop for them gave up: also after loops of two
\* processes have written over one another and taken the watermark back.
THEOREM NothingLeftUnsummarised == Spec => []SummarisedUnlessGaveUp
<1>1. BackgroundInv => SummarisedUnlessGaveUp
  BY SummaryAssumption, SummarySuffices DEF BackgroundInv
<1> QED
  BY <1>1, BackgroundInvariant, PTL

\* A review commits on the state as it is, however old its context, and its card has
\* every Memory up to the watermark, unless one was written between its two reads,
\* or between its check and its commit, or an import replaced what was folded.
THEOREM ReviewsCommitOnCurrentState == Spec => CommitsOnCurrentState
<1>1. BackgroundInv /\ [Next]_vars =>
         [/\ ClosedStaysClosed /\ RestsOnActive /\ NotMadeTwice
          /\ raced' \/ NothingUnseen]_reviewed
  <2> SUFFICES ASSUME BackgroundInv, [Next]_vars
               PROVE  /\ ClosedStaysClosed /\ RestsOnActive /\ NotMadeTwice
                      /\ raced' \/ NothingUnseen
    OBVIOUS
  <2>1. ReviewInv /\ [Reviews!Next]_(Reviews!vars)
    BY PartsMove DEF BackgroundInv
  <2>2. Reviews!ClosedStaysClosed /\ Reviews!RestsOnActive /\ Reviews!NotMadeTwice
    BY <2>1, StepSound, GrownSuffices DEF ReviewInv
  <2>3. raced' \/ NothingUnseen
    BY <2>1, StepSound DEF ReviewInv, CardSound, Has, NothingUnseen
  <2>4. ClosedStaysClosed
    BY <2>2 DEF ClosedStaysClosed, Reviews!ClosedStaysClosed, Open, Reviews!Open
  <2>5. RestsOnActive
    BY <2>2 DEF RestsOnActive, Reviews!RestsOnActive, ActiveEvidence, Reviews!ActiveEvidence
  <2>6. NotMadeTwice
    BY <2>2 DEF NotMadeTwice, Reviews!NotMadeTwice, Open, Reviews!Open,
                ActiveInferences, Reviews!ActiveInferences
  <2> QED
    BY <2>3, <2>4, <2>5, <2>6
<1> QED
  BY <1>1, BackgroundInvariant, PTL DEF Spec, CommitsOnCurrentState
=============================================================================
