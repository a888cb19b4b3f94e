----------------------------- MODULE OwnerFold -----------------------------
(***************************************************************************)
(* The projections of one space and the reasoning that keeps them fresh:   *)
(* the cards of People, Relationships and the user, each with the          *)
(* watermark of the Memories it was folded from, and the reasoning         *)
(* pipeline that folds what has changed into a card while Memories are     *)
(* recorded, superseded and retracted, People are merged under it, and an  *)
(* import replaces the card of the user.                                   *)
(* (reasoners/person.py, relationship.py, user_model.py, base.py,          *)
(* reasoning.py, world.py, cli.py, store/_reasoning.py, store/_people.py,  *)
(* store/_projections.py, store/_memories.py, store/_messages.py.)         *)
(*                                                                         *)
(* A step is one synchronous stretch of the event loop: an HTTP handler,   *)
(* the commit of an extraction, or the pipeline from the answer of one     *)
(* model call to the request of the next.  An import is another process:   *)
(* it reads the watermark in one step and writes the card in another.  A   *)
(* change of a Memory stamps its updated_at with a clock that moves at     *)
(* every write, so the stamp also names the version of the Memory, and a   *)
(* card is the version of each Memory that was folded into it last.        *)
(* Inferred Memories are left out: no watermark of a Person or             *)
(* Relationship counts them.                                               *)
(***************************************************************************)
EXTENDS Naturals, FiniteSets, FiniteSetsExt

CONSTANTS
    People,         \* ids of people
    User,           \* the owner of the UserModel card
    None,           \* no target
    Subjects,       \* inputs: what a Memory may be about, sets of people and User
    Pairs,          \* inputs: the pairs of people a Memory may relate
    MaxMemories,    \* bound: Memories recorded in a behaviour
    MaxWrites,      \* bound: writes to memories
    MaxRelations,   \* bound: Relationship rows created in a behaviour
    MaxMerges,      \* bound: merges of People
    MaxEvents       \* bound: folds that fail, or that a restart cuts short, and
                    \* imports of a USER.md, together

Memories  == 1..MaxMemories
Relations == 1..MaxRelations
Owners    == People \cup Relations \cup {User}

ASSUME FoldAssumption ==
    /\ {MaxMemories, MaxWrites, MaxRelations, MaxMerges, MaxEvents} \subseteq Nat
    /\ User \notin People \cup Relations
    /\ None \notin Owners
    /\ People \cap Relations = {}
    /\ Subjects \subseteq SUBSET (People \cup {User})
    /\ \A P \in Pairs : \E a, b \in People : a # b /\ P = {a, b}

VARIABLES
    clock,      \* time of the last write to memories
    stored,     \* Memories 1..stored exist
    status,     \* status of each Memory
    updated,    \* updated_at of each Memory; 0: no such Memory
    aboutUser,  \* the Memories with about_user = 1
    links,      \* memory_people and memory_relationships: pairs <<memory, owner>>
    person,     \* status of each Person
    created,    \* Relationship rows 1..created have existed
    ends,       \* the two People of each Relationship row; {} when there is no row
    source,     \* profile_source_updated_at of each card; 0: NULL
    card,       \* the version of each Memory folded last into each card; 0: none
    stage,      \* where the pipeline is: 0 not running, 1 to 3 the card reasoners
                \* in their order, 4 in the reasoners behind them
    target,     \* the owner whose fold is in flight
    expected,   \* its watermark when the context was read
    draft,      \* the card the fold will answer with
    more,       \* more_targets
    events,     \* folds that have failed and imports that have begun
    overwriting,\* the watermark an import has read for the user's card, not yet
                \* written; {}: none
    replaced,   \* history: the watermark an import last gave the user's card
    raced,      \* history: what the fold answers with lacks a Memory a merge brought:
                \* the merge came after the read, or had overtaken the card before it
    overtaken   \* history: cards whose watermark has passed a Memory a merge brought

memories == <<clock, stored, status, updated, aboutUser>>
fold     == <<stage, target, expected, draft, more>>
imports  == <<overwriting, replaced>>
vars     == <<memories, links, person, created, ends, source, card, fold,
              events, raced, overtaken, imports>>

\* The people are known from the start: an extraction creates every person it
\* names, whether or not a Memory is about them.
Init ==
    /\ clock = 0 /\ stored = 0
    /\ status = [m \in Memories |-> "none"]
    /\ updated = [m \in Memories |-> 0]
    /\ aboutUser = {} /\ links = {}
    /\ person = [p \in People |-> "active"]
    /\ created = 0
    /\ ends = [r \in Relations |-> {}]
    /\ source = [o \in Owners |-> 0]
    /\ card = [o \in Owners |-> [m \in Memories |-> 0]]
    /\ stage = 0 /\ target = None /\ expected = 0
    /\ draft = [m \in Memories |-> 0] /\ more = FALSE
    /\ events = 0 /\ raced = FALSE /\ overtaken = {}
    /\ overwriting = {} /\ replaced = 0

-----------------------------------------------------------------------------
Active == {p \in People : person[p] = "active"}

\* The Memories a card is about, given links lk and Relationship ends en: those
\* linked to it and, for a Relationship, those linked to both of its People.
EvidenceIn(o, lk, en) ==
    IF o = User THEN aboutUser
    ELSE {m \in Memories :
            \/ <<m, o>> \in lk
            \/ o \in Relations /\ en[o] # {} /\ \A p \in en[o] : <<m, p>> \in lk}

Evidence(o) == EvidenceIn(o, links, ends)

\* MAX(updated_at) over the evidence, whatever its status; 0: NULL.
Watermark(o) == Max({0} \cup {updated[m] : m \in Evidence(o)})

\* stale_entities, for cards with watermarks src.
Stale(o, src) ==
    /\ Watermark(o) # 0
    /\ IF o \in People THEN person[o] = "active" /\ src[o] < Watermark(o)
                       ELSE src[o] # Watermark(o)

\* Seeded fault of Delta: only the Memories that are still active are read.
DeltaActive(o, src) ==
    {m \in Evidence(o) : status[m] = "active" /\ (src[o] = 0 \/ updated[m] > src[o])}

\* The delta_only read: what changed after the card's own watermark, withdrawn
\* rows included; the whole history when it has none.
Delta(o, src) == {m \in Evidence(o) : src[o] = 0 \/ updated[m] > src[o]}

\* The reasoner of each stage, and the owners it finds stale.
StaleAt(j, src) ==
    {o \in (CASE j = 1 -> People [] j = 2 -> Relations [] j = 3 -> {User}) : Stale(o, src)}

Event == events < MaxEvents /\ events' = events + 1

\* No fold is in flight.
Idle ==
    /\ target' = None /\ expected' = 0
    /\ draft' = [m \in Memories |-> 0] /\ more' = FALSE

\* The pipeline from reasoner k on, up to its next model call: the context of
\* some stale owner is read; without one the card reasoners are done.
LoadFrom(k, src, crd, lacking) ==
    \/ /\ \A j \in k..3 : StaleAt(j, src) = {}
       /\ stage' = 4
       /\ Idle /\ raced' = FALSE
    \/ \E j \in k..3 : \E o \in StaleAt(j, src) :
          /\ \A i \in k..j - 1 : StaleAt(i, src) = {}
          /\ stage' = j
          /\ target' = o
          /\ expected' = Watermark(o)
          /\ draft' = [m \in Memories |->
                         IF m \in Delta(o, src) THEN updated[m] ELSE crd[o][m]]
          /\ more' = (StaleAt(j, src) # {o})
          /\ raced' = (o \in lacking)

-----------------------------------------------------------------------------
\* Seeded fault of Stamp: the new stamp is not the time of the write.
StampAhead(changed) ==
    /\ clock < MaxWrites
    /\ clock' = clock
    /\ updated' = [m \in Memories |-> IF m \in changed THEN clock + 1 ELSE updated[m]]

\* One write stamps all the Memories it changes with the same time.
Stamp(changed) ==
    /\ clock < MaxWrites
    /\ clock' = clock + 1
    /\ updated' = [m \in Memories |-> IF m \in changed THEN clock + 1 ELSE updated[m]]

\* A new Memory, linked to the owners in to, that replaces those in old.
Insert(to, old) ==
    LET m == stored + 1
    IN  /\ m \in Memories
        /\ stored' = m
        /\ Stamp({m} \cup old)
        /\ status' = [n \in Memories |->
                        IF n = m THEN "active" ELSE IF n \in old THEN "superseded" ELSE status[n]]
        /\ aboutUser' = IF User \in to THEN aboutUser \cup {m} ELSE aboutUser
        /\ links' = links \cup {<<m, o>> : o \in to \ {User}}

\* apply_extraction commits a candidate about S that supersedes at most one of
\* the Memories it was compared with.
Extract(S, old) ==
    /\ S \subseteq Active \cup {User}
    /\ \A m \in old : status[m] = "active"
    /\ Insert(S, old)
    /\ UNCHANGED <<person, created, ends, source, card, fold, events, raced, overtaken,
                   imports>>

\* The same for a candidate that is also about the Relationship of two people,
\* whose row is created if it is missing (_ensure_relationship).
ExtractRelated(S, pair, old) ==
    LET row == {r \in Relations : ends[r] = pair}
    IN  /\ S \subseteq Active \cup {User}
        /\ pair \subseteq Active
        /\ \A m \in old : status[m] = "active"
        /\ \/ /\ row # {}
              /\ Insert(S \cup row, old)
              /\ UNCHANGED <<created, ends>>
           \/ /\ row = {}
              /\ created < MaxRelations
              /\ created' = created + 1
              /\ ends' = [ends EXCEPT ![created + 1] = pair]
              /\ Insert(S \cup {created + 1}, old)
        /\ UNCHANGED <<person, source, card, fold, events, raced, overtaken, imports>>

\* add_manual_memory.
AddManual(S) ==
    /\ S \subseteq Active \cup {User}
    /\ Insert(S, {})
    /\ UNCHANGED <<person, created, ends, source, card, fold, events, raced, overtaken,
                   imports>>

\* supersede_memory: the replacement takes over the links of the original, and
\* its about_user unless the request says otherwise.
Supersede(m, about) ==
    /\ status[m] = "active"
    /\ Insert({o \in Owners : <<m, o>> \in links} \cup about, {m})
    /\ UNCHANGED <<person, created, ends, source, card, fold, events, raced, overtaken,
                   imports>>

\* retract_memory: a superseded Memory may be retracted too.
Retract(m) ==
    /\ status[m] \in {"active", "superseded"}
    /\ Stamp({m})
    /\ status' = [status EXCEPT ![m] = "retracted"]
    /\ UNCHANGED <<stored, aboutUser, links, person, created, ends, source, card,
                   fold, events, raced, overtaken, imports>>

-----------------------------------------------------------------------------
\* The ends of row r once s is merged into t.
Renamed(r, s, t) == IF s \in ends[r] THEN (ends[r] \ {s}) \cup {t} ELSE ends[r]

\* The other row of the pair that row r of s turns into.
Twins(r, s, t) == {e \in Relations \ {r} : ends[e] = Renamed(r, s, t)}

\* The rows of s that a merge into t drops, with their facets.
Dropped(s, t) == {r \in Relations : s \in ends[r] /\ (t \in ends[r] \/ Twins(r, s, t) # {})}

\* The cards that a merge of s into t resets to be folded anew.
Reset(s, t) ==
    {t} \cup UNION {IF r \in Dropped(s, t) THEN Twins(r, s, t) ELSE {r} :
                      r \in {q \in Relations : s \in ends[q] /\ t \notin ends[q]}}

\* Seeded fault of Rewired: the links of a dropped row go with the row.
RewiredNoTwins(s, t) ==
    {l \in links : l[2] # s /\ l[2] \notin Dropped(s, t)}
    \cup {<<m, t>> : m \in {n \in Memories : <<n, s>> \in links}}

\* The links after the merge: those of s go to t, those of a dropped row to its
\* twin, those of the row between s and t away.
Rewired(s, t) ==
    {l \in links : l[2] # s /\ l[2] \notin Dropped(s, t)}
    \cup {<<m, t>> : m \in {n \in Memories : <<n, s>> \in links}}
    \cup UNION {{<<m, e>> : m \in {n \in Memories : <<n, r>> \in links}, e \in Twins(r, s, t)} :
                  r \in {q \in Dropped(s, t) : t \notin ends[q]}}

\* Seeded fault of EndsAfter: the pair's other row is not looked for.
EndsRekeyed(s, t) ==
    [r \in Relations |-> IF {s, t} = ends[r] THEN {} ELSE Renamed(r, s, t)]

\* The Relationship rows after the merge.
EndsAfter(s, t) ==
    [r \in Relations |-> IF r \in Dropped(s, t) THEN {} ELSE Renamed(r, s, t)]

\* merge_person: the card of the target is kept and loses its watermark, the
\* cards of the Relationships that were touched are blanked.
Merge(s, t) ==
    LET gained(o) == EvidenceIn(o, links', ends') \ Evidence(o)
    IN  /\ s \in Active /\ t \in Active /\ s # t
        /\ Cardinality(People \ Active) < MaxMerges
        /\ links' = Rewired(s, t)
        /\ ends' = EndsAfter(s, t)
        /\ person' = [person EXCEPT ![s] = "merged"]
        /\ source' = [o \in Owners |-> IF o \in Reset(s, t) THEN 0 ELSE source[o]]
        /\ card' = [o \in Owners |->
                      IF o \in Reset(s, t) \ {t} THEN [m \in Memories |-> 0] ELSE card[o]]
        /\ raced' = (raced \/ (target # None /\ gained(target) # {}))
        /\ overtaken' = (overtaken \ Reset(s, t))
                        \cup {o \in Owners \ Reset(s, t) :
                                \E m \in gained(o) : updated[m] <= source[o]}
        /\ UNCHANGED <<memories, created, fold, events, imports>>

-----------------------------------------------------------------------------
\* The pipeline is scheduled, at start-up or by the daily induction, if some
\* card is stale; it is not scheduled twice.
Induct ==
    /\ stage = 0
    /\ \E o \in Owners : Stale(o, source)
    /\ LoadFrom(1, source, card, overtaken)
    /\ UNCHANGED <<memories, links, person, created, ends, source, card, events, overtaken,
                   imports>>

\* Seeded fault of Accepts: only a card without a watermark is written.
AcceptsFirst == Watermark(target) = expected /\ source[target] = 0

\* The optimistic check of apply_person_reasoning and apply_user_model_reasoning;
\* apply_relationship_reasoning does not look at the card's own watermark.
Accepts ==
    /\ Watermark(target) = expected
    /\ target \notin Relations => source[target] < expected

\* Seeded fault of Commit: the watermark written is the time of the write.
CommitNow ==
    /\ stage \in 1..3
    /\ IF Accepts
       THEN /\ source' = [source EXCEPT ![target] = clock]
            /\ card' = [card EXCEPT ![target] = draft]
            /\ overtaken' = IF raced THEN overtaken \cup {target} ELSE overtaken
            /\ LoadFrom(IF more THEN stage ELSE stage + 1, source', card', overtaken')
       ELSE /\ LoadFrom(stage, source, card, overtaken)
            /\ UNCHANGED <<source, card, overtaken>>
    /\ UNCHANGED <<memories, links, person, created, ends, events, imports>>

\* The answer of the fold is written if the check holds, and the reasoner goes
\* on while other targets were stale or the answer was refused.
Commit ==
    /\ stage \in 1..3
    /\ IF Accepts
       THEN /\ source' = [source EXCEPT ![target] = expected]
            /\ card' = [card EXCEPT ![target] = draft]
            /\ overtaken' = IF raced THEN overtaken \cup {target} ELSE overtaken
            /\ LoadFrom(IF more THEN stage ELSE stage + 1, source', card', overtaken')
       ELSE /\ LoadFrom(stage, source, card, overtaken)
            /\ UNCHANGED <<source, card, overtaken>>
    /\ UNCHANGED <<memories, links, person, created, ends, events, imports>>

\* A fold that fails ends the whole run of the pipeline, and so does a restart.
Fail ==
    /\ stage \in 1..3
    /\ Event
    /\ stage' = 0 /\ Idle /\ raced' = FALSE
    /\ UNCHANGED <<memories, links, person, created, ends, source, card, overtaken, imports>>

\* The reasoners behind the cards (coverage, learning goals) have ended.
Finish ==
    /\ stage = 4
    /\ stage' = 0
    /\ UNCHANGED <<memories, links, person, created, ends, source, card, target,
                   expected, draft, more, events, raced, overtaken, imports>>

-----------------------------------------------------------------------------
\* overwrite_user_model: the import of a USER.md reads the watermark ...
OverwriteReads ==
    /\ overwriting = {}
    /\ Event
    /\ overwriting' = {Watermark(User)}
    /\ UNCHANGED <<memories, links, person, created, ends, source, card, fold,
                   raced, overtaken, replaced>>

\* ... and gives it to a card that no Memory was folded into, whatever card and
\* watermark there are by now.
Overwrite ==
    \E w \in overwriting :
        /\ overwriting' = {}
        /\ replaced' = w
        /\ source' = [source EXCEPT ![User] = w]
        /\ card' = [card EXCEPT ![User] = [m \in Memories |-> 0]]
        /\ UNCHANGED <<memories, links, person, created, ends, fold, events, raced,
                       overtaken>>

\* What a candidate supersedes: nothing, or one Memory.
Replaceable == {{}} \cup {{m} : m \in Memories}

Next ==
    \/ \E S \in Subjects :
          \/ AddManual(S)
          \/ \E old \in Replaceable :
                \/ Extract(S, old)
                \/ \E pair \in Pairs : ExtractRelated(S, pair, old)
    \/ \E m \in Memories :
          \/ Retract(m)
          \/ \E about \in {{}, {User}} : Supersede(m, about)
    \/ \E s, t \in People : Merge(s, t)
    \/ Induct
    \/ Commit
    \/ Fail
    \/ Finish
    \/ OverwriteReads
    \/ Overwrite

(***************************************************************************)
(* The induction timer fires every day, a model call is answered or fails, *)
(* and the reasoners behind the cards end.  Nobody has to write a Memory,  *)
(* to merge People or to import, and an import may end between its steps.  *)
(***************************************************************************)
Spec == Init /\ [][Next]_vars
             /\ WF_vars(Induct) /\ WF_vars(Commit \/ Fail) /\ WF_vars(Finish)

-----------------------------------------------------------------------------
Exists(o) == CASE o \in People -> person[o] = "active"
               [] o \in Relations -> ends[o] # {}
               [] OTHER -> TRUE

\* Memory m was written after an import last replaced the card of o: what the
\* user's card had been folded from before is not looked for in the new one.
Since(o, m) == o = User => updated[m] > replaced

\* Every version of the card's evidence up to its watermark is in the card.
Covered(o) ==
    source[o] # 0 =>
        \A m \in Evidence(o) :
            updated[m] <= source[o] /\ Since(o, m) => card[o][m] = updated[m]

\* Types of the variables.
TypeOK ==
    /\ clock \in Nat
    /\ stored \in 0..MaxMemories
    /\ status \in [Memories -> {"none", "active", "superseded", "retracted"}]
    /\ updated \in [Memories -> 0..clock]
    /\ aboutUser \subseteq 1..stored
    /\ links \subseteq (1..stored) \X (People \cup Relations)
    /\ person \in [People -> {"active", "merged"}]
    /\ created \in 0..MaxRelations
    /\ ends \in [Relations -> SUBSET People]
    /\ source \in [Owners -> 0..clock]
    /\ card \in [Owners -> [Memories -> 0..clock]]
    /\ stage \in 0..4
    /\ target \in Owners \cup {None}
    /\ expected \in 0..clock
    /\ draft \in [Memories -> 0..clock]
    /\ more \in BOOLEAN
    /\ events \in 0..MaxEvents
    /\ raced \in BOOLEAN
    /\ overtaken \subseteq Owners
    /\ overwriting \subseteq 0..clock
    /\ replaced \in 0..clock

\* Nothing a Memory said, or unsaid, is lost on the way into a card: up to its
\* watermark a card has folded the latest version of every Memory about its
\* owner, whatever was recorded, superseded or retracted while folds were in
\* flight or refused, and whatever an import did to the user's card between its
\* read and its write: that card has every Memory written since the watermark it
\* was replaced at. The one exception are the cards a merge has overtaken.
FoldedUnlessOvertaken == \A o \in Owners \ overtaken : Exists(o) => Covered(o)

\* No card's watermark is ahead of its Memories: the "<" of the writes and the
\* "!=" of is_profile_stale agree, or a card could be stale for ever and refuse
\* every answer.
NeverAhead == \A o \in Owners : Exists(o) => source[o] <= Watermark(o)

\* The merge that rekeys, joins and drops Relationship rows leaves at most one
\* row per pair, between two different people who are both active, and no
\* Memory linked to a row or a person that is gone.
RelationsWellFormed ==
    /\ \A r \in Relations : ends[r] # {} =>
          /\ Cardinality(ends[r]) = 2 /\ ends[r] \subseteq Active
          /\ \A q \in Relations : ends[q] = ends[r] => q = r
    /\ \A l \in links : Exists(l[2])

\* Memory m of row r is still linked to it, or to the row that has the two
\* people of r after the merge; none is left when the two become one person.
StillRelates(m, r) ==
    \/ <<m, r>> \in links' /\ ends'[r] = ends[r]
    \/ \E s, t \in People :
          /\ Merge(s, t)
          /\ \/ ends[r] = {s, t}
             \/ \E q \in Relations : <<m, q>> \in links' /\ ends'[q] = Renamed(r, s, t)

\* No Memory about a Relationship stops being about one when People are merged:
\* after every step it is linked to a row of the same two people under the names
\* they now have, whether the row was rekeyed or gave way to the pair's other
\* row; only the two ends of the row becoming one person ends it.
EvidenceKept ==
    [][\A m \in Memories, r \in Relations : <<m, r>> \in links => StillRelates(m, r)]_vars

\* Every card is fresh again in the end, once people stop writing (the bounds),
\* although each answer may have been refused because a Memory changed meanwhile
\* and a failing fold has taken the whole pipeline with it.
RefreshedEventually == []<>(\A o \in Owners : ~Stale(o, source))

\* "Every Memory is read once in its original text" (design.md, 4.3) and "a card
\* with no watermark yet folds the whole history instead" (README.md): a card
\* that is not stale has every Memory about its owner in it.
NothingMissed == \A o \in Owners : Exists(o) => Covered(o)
=============================================================================
