-------------------------- MODULE OwnerFoldProofs --------------------------
(***************************************************************************)
(* Proofs about the cards, for any number of people, Memories, Relationship*)
(* rows, merges and events: the types, that Relationship rows are well     *)
(* formed, that no Memory of a Relationship is lost in a merge, that no    *)
(* card is ahead of its Memories, and that a card has folded every Memory  *)
(* up to its watermark unless a merge has overtaken it, or it is the       *)
(* user's and an import replaced it since.                                 *)
(*                                                                         *)
(* The last one depends on the answer in flight: what it was made from was *)
(* read before other writes and merges. DraftSound says what is known of   *)
(* it: it has every Memory up to the expected watermark as it is now,      *)
(* unless a merge has brought one. A write keeps that because its stamp is *)
(* later than every watermark; a merge because it is raced when the        *)
(* evidence grows; a load because it adds to a card that is sound.         *)
(***************************************************************************)
EXTENDS OwnerFold, FiniteSetTheorems, WellFoundedInduction, TLAPS

\* The rows: those to come are blank, the others are of two active people and
\* one per pair.
PairsSound ==
    /\ \A r \in Relations : r > created => ends[r] = {} /\ source[r] = 0
    /\ \A r \in Relations : ends[r] # {} =>
          \E a, b \in Active : a # b /\ ends[r] = {a, b}
    /\ \A q, r \in Relations : ends[r] # {} /\ ends[q] = ends[r] => q = r

\* What a Memory is linked to exists.
LinksSound == \A l \in links : Exists(l[2])

\* A fold in flight has a target, and that has been there.
TargetSound ==
    /\ stage \in 1..3 => target # None
    /\ target \in Relations => target <= created

DraftSound ==
    target # None /\ ~ raced =>
        \A m \in Evidence(target) :
            updated[m] <= expected /\ Since(target, m) => draft[m] = updated[m]

\* The watermark an import has read, or has written last, is one there was.
ImportSound ==
    /\ replaced <= Watermark(User)
    /\ \A w \in overwriting : replaced <= w /\ w <= Watermark(User)

IInv ==
    /\ TypeOK /\ PairsSound /\ LinksSound /\ TargetSound /\ ImportSound
    /\ NeverAhead /\ FoldedUnlessOvertaken /\ DraftSound

-----------------------------------------------------------------------------
\* A set of naturals that is not empty has a least member.
LEMMA LeastExists ==
    ASSUME NEW S \in SUBSET Nat, S # {} PROVE \E k \in S : \A j \in S : k <= j
<1>1. PICK k \in S : \A j \in S : <<j, k>> \notin OpToRel(<, Nat)
  BY NatLessThanWellFounded, WFMin, Zenon
<1>2. ASSUME NEW j \in S, j < k PROVE <<j, k>> \in OpToRel(<, Nat)
  BY <1>2 DEF OpToRel
<1>3. ASSUME NEW j \in S PROVE ~ (j < k)
  BY <1>1, <1>2, Zenon
<1> QED BY <1>3

\* Max of a set of naturals that is bounded is one of them, and none is greater.
LEMMA GreatestOfNaturals ==
    ASSUME NEW n \in Nat, NEW S \in SUBSET (0..n), S # {}
    PROVE  Max(S) \in S /\ \A s \in S : s <= Max(S)
<1> DEFINE D == {n - s : s \in S}
<1>1. PICK d \in D : \A e \in D : d <= e
  <2>1. ASSUME NEW s \in S PROVE s \in 0..n /\ n - s \in Nat
    OBVIOUS
  <2>2. D \in SUBSET Nat /\ D # {}
    BY <2>1
  <2> HIDE DEF D
  <2> QED BY <2>2, LeastExists
<1>2. PICK k \in S : d = n - k
  OBVIOUS
<1>3. ASSUME NEW s \in S PROVE s <= k
  <2>1. d <= n - s
    BY <1>1
  <2> QED BY <2>1, <1>2
<1> QED BY <1>3 DEF Max

\* The Max of 0 and of some stamps, none later than n: it is 0 or one of them,
\* and none is later.
LEMMA LatestStamp ==
    ASSUME NEW n \in Nat, NEW f, NEW E, \A m \in E : f[m] \in 0..n
    PROVE  LET w == Max({0} \cup {f[m] : m \in E})
           IN  /\ w \in 0..n
               /\ \A m \in E : f[m] <= w
               /\ w # 0 => \E m \in E : f[m] = w
<1> DEFINE S == {0} \cup {f[m] : m \in E}
<1>1. S \in SUBSET (0..n) /\ S # {}
  OBVIOUS
<1>2. Max(S) \in S /\ \A s \in S : s <= Max(S)
  <2> HIDE DEF S
  <2> QED
    BY <1>1, GreatestOfNaturals
<1> QED
  BY <1>1, <1>2

(* What an owner is. *)

LEMMA Kinds ==
    /\ MaxMemories \in Nat /\ MaxRelations \in Nat
    /\ User \in Owners /\ User \notin People /\ User \notin Relations
    /\ \A r \in Relations : r \notin People /\ r \in Nat
    /\ None \notin Owners
  BY FoldAssumption DEF Owners, Relations

LEMMA ExistsOf ==
    /\ \A p \in People : Exists(p) = (person[p] = "active")
    /\ \A r \in Relations : Exists(r) = (ends[r] # {})
    /\ Exists(User)
  BY Kinds DEF Exists

LEMMA ExistsThen ==
    /\ \A p \in People : Exists(p)' = (person'[p] = "active")
    /\ \A r \in Relations : Exists(r)' = (ends'[r] # {})
    /\ Exists(User)'
  BY Kinds, Zenon DEF Exists

\* A row that exists has been created.
LEMMA RowThere ==
    ASSUME TypeOK, PairsSound, NEW r \in Relations, Exists(r)
    PROVE  r <= created
<1>1. created \in Nat
  BY Kinds DEF TypeOK
<1>2. r \in Nat /\ ends[r] # {}
  BY Kinds, ExistsOf
<1>3. ~ (r > created)
  BY <1>2 DEF PairsSound
<1> QED
  BY <1>1, <1>2, <1>3

\* The watermark of an owner is the latest stamp of its evidence.
LEMMA WatermarkIs ==
    ASSUME TypeOK, NEW o \in Owners
    PROVE  /\ Evidence(o) \subseteq Memories
           /\ Watermark(o) \in 0..clock
           /\ \A m \in Evidence(o) : updated[m] <= Watermark(o)
           /\ Watermark(o) # 0 => \E m \in Evidence(o) : updated[m] = Watermark(o)
<1>1. Evidence(o) \subseteq Memories
  <2>1. aboutUser \subseteq Memories
    BY Kinds DEF TypeOK, Memories
  <2> QED
    BY <2>1 DEF Evidence, EvidenceIn
<1>2. clock \in Nat /\ \A m \in Evidence(o) : updated[m] \in 0..clock
  BY <1>1 DEF TypeOK
<1> QED
  BY <1>1, <1>2, LatestStamp DEF Watermark

\* The same after a step.
LEMMA WatermarkThen ==
    ASSUME TypeOK', NEW o \in Owners
    PROVE  /\ Evidence(o)' \subseteq Memories
           /\ Watermark(o)' \in 0..clock'
           /\ \A m \in Evidence(o)' : updated'[m] <= Watermark(o)'
<1>1. Evidence(o)' \subseteq Memories
  <2>1. aboutUser' \subseteq Memories
    BY Kinds DEF TypeOK, Memories
  <2> QED
    BY <2>1 DEF Evidence, EvidenceIn
<1>2. clock' \in Nat /\ \A m \in Evidence(o)' : updated'[m] \in 0..clock'
  BY <1>1 DEF TypeOK
<1> DEFINE E == Evidence(o)'
           f == updated'
           n == clock'
<1>3. Watermark(o)' = Max({0} \cup {f[m] : m \in E})
  BY DEF Watermark
<1>4. n \in Nat /\ \A m \in E : f[m] \in 0..n
  BY <1>2
<1>5. Max({0} \cup {f[m] : m \in E}) \in 0..n /\ \A x \in E : f[x] <= Max({0} \cup {f[m] : m \in E})
  <2> HIDE DEF E, f, n
  <2> QED
    BY <1>4, LatestStamp
<1> QED
  BY <1>1, <1>3, <1>5

\* An owner that is stale exists: something is linked to it.
LEMMA StaleExists ==
    ASSUME TypeOK, LinksSound, NEW src, NEW o \in Owners, Stale(o, src)
    PROVE  Exists(o)
<1>1. CASE o \in People
  BY <1>1, ExistsOf DEF Stale
<1>2. CASE o \in Relations
  <2>1. PICK m \in Evidence(o) : TRUE
    BY WatermarkIs DEF Stale
  <2>2. CASE <<m, o>> \in links
    BY <2>2 DEF LinksSound
  <2>3. CASE ends[o] # {}
    BY <2>3, <1>2, ExistsOf
  <2> QED
    BY <2>1, <2>2, <2>3, <1>2, Kinds DEF Evidence, EvidenceIn
<1>3. CASE o = User
  BY <1>3, ExistsOf
<1> QED
  BY <1>1, <1>2, <1>3 DEF Owners

-----------------------------------------------------------------------------
(* A load. *)

\* What a load leaves in flight is sound if the cards it starts from are.
LEMMA LoadSound ==
    ASSUME TypeOK, PairsSound, LinksSound, NEW k, NEW src \in [Owners -> 0..clock],
           NEW crd \in [Owners -> [Memories -> 0..clock]], NEW lacking, k \in 1..4,
           \A o \in Owners \ lacking : Exists(o) /\ src[o] # 0 =>
              \A m \in Evidence(o) :
                 updated[m] <= src[o] /\ Since(o, m) => crd[o][m] = updated[m],
           LoadFrom(k, src, crd, lacking)
    PROVE  /\ stage' \in 1..4 /\ target' \in Owners \cup {None} /\ expected' \in 0..clock
           /\ draft' \in [Memories -> 0..clock] /\ more' \in BOOLEAN /\ raced' \in BOOLEAN
           /\ stage' \in 1..3 => target' # None
           /\ target' \in Relations => target' <= created
           /\ target' # None /\ ~ raced' =>
                 \A m \in Evidence(target') :
                    updated[m] <= expected' /\ Since(target', m) => draft'[m] = updated[m]
<1>1. clock \in Nat /\ \A m \in Memories : updated[m] \in 0..clock
  BY DEF TypeOK
<1>2. CASE stage' = 4 /\ Idle /\ raced' = FALSE
  <2>1. target' = None /\ None \notin Relations
    BY <1>2, Kinds DEF Idle, Owners
  <2>2. expected' = 0 /\ 0 \in 0..clock
    BY <1>1, <1>2 DEF Idle
  <2>3. draft' \in [Memories -> 0..clock]
    BY <1>2, <2>2 DEF Idle
  <2>4. more' \in BOOLEAN /\ raced' \in BOOLEAN
    BY <1>2 DEF Idle
  <2> QED
    BY <1>2, <2>1, <2>2, <2>3, <2>4
<1>3. ASSUME NEW j \in k..3, NEW o \in StaleAt(j, src),
             stage' = j, target' = o, expected' = Watermark(o),
             draft' = [m \in Memories |-> IF m \in Delta(o, src) THEN updated[m] ELSE crd[o][m]],
             more' = (StaleAt(j, src) # {o}), raced' = (o \in lacking)
      PROVE  /\ stage' \in 1..4 /\ target' \in Owners \cup {None} /\ expected' \in 0..clock
             /\ draft' \in [Memories -> 0..clock] /\ more' \in BOOLEAN /\ raced' \in BOOLEAN
             /\ stage' \in 1..3 => target' # None
             /\ target' \in Relations => target' <= created
             /\ target' # None /\ ~ raced' =>
                   \A m \in Evidence(target') :
                      updated[m] <= expected' /\ Since(target', m) => draft'[m] = updated[m]
  <2>1. j \in {1, 2, 3}
    OBVIOUS
  <2>2. o \in Owners /\ Stale(o, src)
    BY <2>1 DEF StaleAt, Owners
  <2>3. Exists(o) /\ o # None
    BY <2>2, StaleExists, Kinds
  <2>4. o \in Relations => o <= created
    BY <2>3, RowThere
  <2>5. Evidence(o) \subseteq Memories /\ Watermark(o) \in 0..clock
    BY <2>2, WatermarkIs
  <2>6. draft' \in [Memories -> 0..clock]
    BY <1>1, <1>3, <2>2
  <2>7. more' \in BOOLEAN /\ raced' \in BOOLEAN
    <3>1. (StaleAt(j, src) # {o}) \in BOOLEAN /\ (o \in lacking) \in BOOLEAN
      OBVIOUS
    <3> QED
      BY <1>3, <3>1
  <2>8. ASSUME ~ raced', NEW m \in Evidence(o), updated[m] <= expected', Since(o, m)
        PROVE  draft'[m] = updated[m]
    <3>1. CASE m \in Delta(o, src)
      BY <1>3, <2>5, <3>1
    <3>2. CASE m \notin Delta(o, src)
      <4>1. src[o] # 0 /\ updated[m] <= src[o]
        BY <1>1, <2>2, <2>5, <3>2 DEF Delta
      <4>2. crd[o][m] = updated[m]
        BY <1>3, <2>2, <2>3, <2>8, <4>1
      <4> QED
        BY <1>3, <2>5, <3>2, <4>2
    <3> QED
      BY <3>1, <3>2
  <2>9. stage' \in 1..4
    BY <1>3, <2>1
  <2> QED
    BY <1>3, <2>2, <2>3, <2>4, <2>5, <2>6, <2>7, <2>8, <2>9
<1> QED
  BY <1>2, <1>3 DEF LoadFrom

-----------------------------------------------------------------------------
(* The parts of the type invariant that actions have to do with. *)

MemoriesTyped ==
    /\ clock \in Nat /\ stored \in 0..MaxMemories
    /\ status \in [Memories -> {"none", "active", "superseded", "retracted"}]
    /\ updated \in [Memories -> 0..clock]
    /\ aboutUser \subseteq 1..stored
    /\ links \subseteq (1..stored) \X (People \cup Relations)

RowsTyped ==
    /\ person \in [People -> {"active", "merged"}]
    /\ created \in 0..MaxRelations
    /\ ends \in [Relations -> SUBSET People]

CardsTyped ==
    /\ source \in [Owners -> 0..clock]
    /\ card \in [Owners -> [Memories -> 0..clock]]
    /\ overtaken \subseteq Owners
    /\ overwriting \subseteq 0..clock /\ replaced \in 0..clock

FoldTyped ==
    /\ stage \in 0..4 /\ target \in Owners \cup {None} /\ expected \in 0..clock
    /\ draft \in [Memories -> 0..clock] /\ more \in BOOLEAN /\ raced \in BOOLEAN
    /\ events \in 0..MaxEvents

LEMMA TypeParts == TypeOK <=> MemoriesTyped /\ RowsTyped /\ CardsTyped /\ FoldTyped
  BY DEF TypeOK, MemoriesTyped, RowsTyped, CardsTyped, FoldTyped

-----------------------------------------------------------------------------
(* A write to Memories. *)

\* The evidence of the owners there are grows at most by what is changed.
GrownBy(changed) ==
    \A o \in Owners : (o \in Relations => o <= created) =>
        /\ Evidence(o) \subseteq Evidence(o)'
        /\ Evidence(o)' \subseteq Evidence(o) \cup changed
        /\ Exists(o)' = Exists(o)

\* A stamp later than all others leaves cards and folds within their types.
LEMMA StampTypes ==
    ASSUME TypeOK, NEW changed, Stamp(changed),
           UNCHANGED <<source, card, fold, raced, overtaken, events, imports>>
    PROVE  /\ clock' = clock + 1 /\ clock' \in Nat /\ clock \in Nat
           /\ updated' \in [Memories -> 0..clock']
           /\ CardsTyped' /\ FoldTyped'
<1>1. clock' = clock + 1 /\ clock \in Nat /\ clock' \in Nat /\ 0..clock \subseteq 0..clock'
  BY DEF Stamp, TypeOK
<1>2. updated' \in [Memories -> 0..clock']
  <2>1. ASSUME NEW m \in Memories PROVE (IF m \in changed THEN clock + 1 ELSE updated[m]) \in 0..clock'
    BY <1>1 DEF TypeOK
  <2> QED
    BY <2>1 DEF Stamp
<1>3. CardsTyped'
  <2>1. source' \in [Owners -> 0..clock']
    <3>1. source \in [Owners -> 0..clock] /\ source' = source
      BY DEF TypeOK
    <3> QED
      BY <1>1, <3>1
  <2>2. card' \in [Owners -> [Memories -> 0..clock']]
    <3>1. card \in [Owners -> [Memories -> 0..clock]] /\ card' = card
      BY DEF TypeOK
    <3>2. [Memories -> 0..clock] \subseteq [Memories -> 0..clock']
      BY <1>1
    <3> QED
      BY <3>1, <3>2
  <2>3. overwriting' \subseteq 0..clock' /\ replaced' \in 0..clock'
    BY <1>1 DEF TypeOK, imports
  <2> QED
    BY <2>1, <2>2, <2>3 DEF CardsTyped, TypeOK
<1>4. FoldTyped'
  <2>1. draft' \in [Memories -> 0..clock']
    <3>1. draft \in [Memories -> 0..clock] /\ draft' = draft
      BY DEF TypeOK, fold
    <3> QED
      BY <1>1, <3>1
  <2>2. expected' \in 0..clock'
    BY <1>1 DEF TypeOK, fold
  <2> QED
    BY <2>1, <2>2 DEF FoldTyped, TypeOK, fold
<1> QED
  BY <1>1, <1>2, <1>3, <1>4

\* What a write does to cards and the fold in flight: nothing, as its stamp is
\* later than their watermarks.
LEMMA CardsOnWrite ==
    ASSUME IInv, TypeOK', NEW changed, Stamp(changed), GrownBy(changed),
           UNCHANGED <<source, card, fold, raced, overtaken, imports>>
    PROVE  NeverAhead' /\ FoldedUnlessOvertaken' /\ DraftSound' /\ ImportSound'
<1> DEFINE Old(o) == o \in Relations => o <= created
<1>1. /\ clock' = clock + 1 /\ clock \in Nat
      /\ \A m \in Memories : updated'[m] = IF m \in changed THEN clock + 1 ELSE updated[m]
      /\ \A m \in Memories : updated[m] \in 0..clock /\ updated'[m] \in 0..clock'
      /\ \A o \in Owners : source[o] \in 0..clock
      /\ expected \in 0..clock
  BY DEF IInv, TypeOK, Stamp
<1>2. ASSUME NEW o \in Owners, Old(o)
      PROVE  /\ Evidence(o) \subseteq Memories /\ Evidence(o)' \subseteq Memories
             /\ Evidence(o) \subseteq Evidence(o)'
             /\ Evidence(o)' \subseteq Evidence(o) \cup changed
             /\ Exists(o)' = Exists(o)
  <2>1. Evidence(o)' \subseteq Evidence(o) \cup changed /\ Evidence(o) \subseteq Evidence(o)' /\ Exists(o)' = Exists(o)
    BY <1>2 DEF GrownBy
  <2>2. Evidence(o)' \subseteq Memories /\ Evidence(o) \subseteq Memories
    BY WatermarkIs, WatermarkThen DEF IInv
  <2> QED
    BY <2>1, <2>2
<1>3. ASSUME NEW o \in Owners, ~ Old(o) PROVE source[o] = 0
  <2>1. o \in Relations /\ created \in Nat /\ o \in Nat
    BY <1>3, Kinds DEF IInv, TypeOK
  <2> QED
    BY <1>3, <2>1 DEF IInv, PairsSound
<1>4. ASSUME NEW o \in Owners, Old(o)
      PROVE  /\ Watermark(o) <= Watermark(o)'
             /\ Watermark(o) \in 0..clock /\ Watermark(o)' \in 0..clock'
  <2>1. Watermark(o) \in 0..clock /\ Watermark(o)' \in 0..clock'
    BY WatermarkIs, WatermarkThen DEF IInv
  <2>2. CASE Watermark(o) = 0
    BY <1>1, <2>1, <2>2
  <2>3. ASSUME NEW m \in Evidence(o), updated[m] = Watermark(o)
        PROVE  Watermark(o) <= Watermark(o)'
    <3>1. m \in Memories /\ updated'[m] <= Watermark(o)'
      BY <1>2, <1>4, WatermarkThen
    <3>2. updated[m] <= updated'[m] /\ updated'[m] \in Nat /\ updated[m] \in Nat
      BY <1>1, <3>1
    <3> QED
      BY <1>1, <2>1, <2>3, <3>1, <3>2
  <2> QED
    BY <2>1, <2>2, <2>3, WatermarkIs DEF IInv
<1>5. NeverAhead'
  <2>1. ASSUME NEW o \in Owners, Exists(o)' PROVE source[o] <= Watermark(o)'
    <3>1. CASE Old(o)
      <4>1. source[o] <= Watermark(o)
        BY <1>2, <2>1, <3>1 DEF IInv, NeverAhead
      <4> QED
        BY <1>1, <1>4, <3>1, <4>1
    <3>2. CASE ~ Old(o)
      <4>1. Watermark(o)' \in 0..clock'
        BY WatermarkThen
      <4> QED
        BY <1>1, <1>3, <3>2, <4>1
    <3> QED
      BY <3>1, <3>2
  <2>2. source' = source
    OBVIOUS
  <2> QED
    BY <2>1, <2>2 DEF NeverAhead
<1>6. FoldedUnlessOvertaken'
  <2>1. ASSUME NEW o \in Owners \ overtaken, Exists(o)', source[o] # 0,
               NEW m \in Evidence(o)', updated'[m] <= source[o], Since(o, m)'
        PROVE  card[o][m] = updated'[m]
    <3>1. Old(o)
      BY <1>3, <2>1
    <3>2. m \notin changed /\ updated'[m] = updated[m]
      BY <1>1, <1>2, <2>1, <3>1
    <3>3. m \in Evidence(o) /\ Exists(o)
      BY <1>2, <2>1, <3>1, <3>2
    <3>4. Since(o, m)
      BY <2>1, <3>2 DEF Since, imports
    <3> QED
      BY <2>1, <3>2, <3>3, <3>4 DEF IInv, FoldedUnlessOvertaken, Covered
  <2> QED
    BY <2>1 DEF FoldedUnlessOvertaken, Covered
<1>7. DraftSound'
  <2>1. target' = target /\ raced' = raced /\ expected' = expected /\ draft' = draft
    BY DEF fold
  <2>2. ASSUME target # None, ~ raced, NEW o \in Owners, o = target,
               NEW m \in Evidence(o)', updated'[m] <= expected, Since(o, m)'
        PROVE  draft[m] = updated'[m]
    <3>1. Old(o)
      BY <2>2 DEF IInv, TargetSound
    <3>2. m \notin changed /\ updated'[m] = updated[m]
      BY <1>1, <1>2, <2>2, <3>1
    <3>3. m \in Evidence(o)
      BY <1>2, <2>2, <3>1, <3>2
    <3>4. Since(o, m)
      BY <2>2, <3>2 DEF Since, imports
    <3> QED
      BY <2>2, <3>2, <3>3, <3>4 DEF IInv, DraftSound
  <2>3. target # None => target \in Owners
    BY DEF IInv, TypeOK
  <2> QED
    BY <2>1, <2>2, <2>3 DEF DraftSound
<1>8. ImportSound'
  <2>1. Watermark(User) <= Watermark(User)' /\ Watermark(User) \in 0..clock /\ Watermark(User)' \in 0..clock'
    BY <1>4, Kinds
  <2>2. /\ replaced' = replaced /\ overwriting' = overwriting
        /\ replaced \in 0..clock /\ overwriting \subseteq 0..clock
    BY DEF imports, IInv, TypeOK
  <2> QED
    BY <1>1, <2>1, <2>2 DEF IInv, ImportSound
<1> QED
  BY <1>5, <1>6, <1>7, <1>8

-----------------------------------------------------------------------------
(* A new Memory. *)

\* A new Memory that is linked to owners there are, with at most a new row.
LEMMA InsertKeeps ==
    ASSUME IInv, NEW to \in SUBSET Owners, NEW old \in SUBSET Memories, Insert(to, old),
           RowsTyped', PairsSound', created <= created',
           \A r \in Relations : r <= created => ends'[r] = ends[r],
           \A o \in to \ {User} : Exists(o)',
           UNCHANGED <<person, source, card, fold, events, raced, overtaken, imports>>
    PROVE  IInv'
<1> DEFINE new == stored + 1
           changed == {new} \cup old
<1>1. /\ new \in Memories /\ stored' = new /\ Stamp(changed)
      /\ status' = [n \in Memories |->
                      IF n = new THEN "active" ELSE IF n \in old THEN "superseded" ELSE status[n]]
      /\ aboutUser' = IF User \in to THEN aboutUser \cup {new} ELSE aboutUser
      /\ links' = links \cup {<<new, o>> : o \in to \ {User}}
  BY DEF Insert
<1>2. /\ stored \in Nat /\ new \in 0..MaxMemories /\ 1..stored \subseteq 1..new /\ new \in 1..new
      /\ created \in Nat /\ created' \in Nat
  BY <1>1, Kinds DEF IInv, TypeOK, RowsTyped, Memories
<1> HIDE DEF new
<1>3. CardsTyped' /\ FoldTyped' /\ clock' \in Nat /\ updated' \in [Memories -> 0..clock']
  BY <1>1, StampTypes DEF IInv
<1>4. MemoriesTyped'
  <2>1. status' \in [Memories -> {"none", "active", "superseded", "retracted"}]
    BY <1>1 DEF IInv, TypeOK
  <2>2. aboutUser' \subseteq 1..new
    BY <1>1, <1>2 DEF IInv, TypeOK
  <2>3. links' \subseteq (1..new) \X (People \cup Relations)
    <3>1. links \subseteq (1..new) \X (People \cup Relations)
      BY <1>2 DEF IInv, TypeOK
    <3>2. \A o \in to \ {User} : <<new, o>> \in (1..new) \X (People \cup Relations)
      BY <1>2 DEF Owners
    <3> QED
      BY <1>1, <3>1, <3>2
  <2> QED
    BY <1>1, <1>2, <1>3, <2>1, <2>2, <2>3 DEF MemoriesTyped
<1>5. TypeOK'
  <2>1. TypeOK' <=> MemoriesTyped' /\ RowsTyped' /\ CardsTyped' /\ FoldTyped'
    BY DEF TypeOK, MemoriesTyped, RowsTyped, CardsTyped, FoldTyped
  <2> QED
    BY <2>1, <1>3, <1>4
<1>6. ASSUME NEW o \in Owners, o \in Relations => o <= created
      PROVE  /\ Exists(o)' = Exists(o)
             /\ Evidence(o) \subseteq Evidence(o)' /\ Evidence(o)' \subseteq Evidence(o) \cup changed
  <2>1. Exists(o)' = Exists(o)
    <3>1. CASE o \in People
      BY <3>1, ExistsOf, ExistsThen
    <3>2. CASE o \in Relations
      <4>1. ends'[o] = ends[o]
        BY <1>6, <3>2
      <4> QED
        BY <3>2, <4>1, ExistsOf, ExistsThen
    <3>3. CASE o = User
      BY <3>3, ExistsOf, ExistsThen
    <3> QED
      BY <3>1, <3>2, <3>3 DEF Owners
  <2>2. /\ aboutUser \subseteq aboutUser' /\ aboutUser' \subseteq aboutUser \cup changed
        /\ \A m \in Memories, p \in People \cup Relations :
              /\ <<m, p>> \in links => <<m, p>> \in links'
              /\ <<m, p>> \in links' => <<m, p>> \in links \/ m \in changed
    BY <1>1
  <2> HIDE DEF changed
  <2>3. CASE o = User
    BY <2>1, <2>2, <2>3 DEF Evidence, EvidenceIn
  <2>4. CASE o \in People
    BY <2>1, <2>2, <2>4, Kinds DEF Evidence, EvidenceIn
  <2>5. CASE o \in Relations
    <3>1. ends'[o] = ends[o] /\ ends[o] \subseteq People
      BY <1>6, <2>5 DEF IInv, TypeOK
    <3> QED
      BY <2>1, <2>2, <2>5, <3>1, Kinds DEF Evidence, EvidenceIn
  <2> QED
    BY <2>1, <2>3, <2>4, <2>5 DEF Owners
<1>7. NeverAhead' /\ FoldedUnlessOvertaken' /\ DraftSound' /\ ImportSound'
  <2>1. GrownBy(changed)
    BY <1>6 DEF GrownBy
  <2> HIDE DEF changed
  <2> QED
    BY <1>1, <1>5, <2>1, CardsOnWrite
<1>8. LinksSound'
  <2>1. ASSUME NEW l \in links PROVE Exists(l[2])'
    <3>1. l[2] \in People \cup Relations /\ Exists(l[2])
      BY DEF IInv, LinksSound, TypeOK
    <3>2. l[2] \in Relations => l[2] <= created
      BY <3>1, RowThere DEF IInv
    <3> QED
      BY <1>6, <3>1, <3>2 DEF Owners
  <2>2. ASSUME NEW l \in links' PROVE Exists(l[2])'
    BY <1>1, <2>1, <2>2
  <2> QED
    BY <2>2 DEF LinksSound
<1>9. TargetSound'
  BY <1>2, Kinds DEF IInv, TargetSound, fold
<1> QED
  BY <1>5, <1>7, <1>8, <1>9 DEF IInv

LEMMA ExtractKeeps ==
    ASSUME IInv, NEW S \in Subjects, NEW old \in Replaceable, Extract(S, old)
    PROVE  IInv'
<1>1. S \in SUBSET Owners /\ old \in SUBSET Memories
  BY FoldAssumption DEF Owners, Replaceable
<1>2. \A o \in S \ {User} : Exists(o)'
  BY ExistsThen DEF Extract, Active
<1>3. RowsTyped' /\ PairsSound' /\ created \in Nat
  BY Kinds DEF Extract, IInv, TypeOK, RowsTyped, PairsSound, Active
<1> QED
  BY <1>1, <1>2, <1>3, InsertKeeps DEF Extract

LEMMA AddManualKeeps ==
    ASSUME IInv, NEW S \in Subjects, AddManual(S)
    PROVE  IInv'
<1>1. S \in SUBSET Owners /\ {} \in SUBSET Memories
  BY FoldAssumption DEF Owners
<1>2. \A o \in S \ {User} : Exists(o)'
  BY ExistsThen DEF AddManual, Active
<1>3. RowsTyped' /\ PairsSound' /\ created \in Nat
  BY Kinds DEF AddManual, IInv, TypeOK, RowsTyped, PairsSound, Active
<1> QED
  BY <1>1, <1>2, <1>3, InsertKeeps DEF AddManual

LEMMA SupersedeKeeps ==
    ASSUME IInv, NEW m \in Memories, NEW about \in {{}, {User}}, Supersede(m, about)
    PROVE  IInv'
<1> DEFINE to == {o \in Owners : <<m, o>> \in links} \cup about
<1>1. to \in SUBSET Owners /\ {m} \in SUBSET Memories
  BY Kinds
<1>2. \A o \in to \ {User} : Exists(o)'
  <2>1. \A o \in to \ {User} : Exists(o)
    BY DEF IInv, LinksSound
  <2> QED
    BY <2>1, ExistsOf, ExistsThen DEF Owners, Supersede
<1>3. RowsTyped' /\ PairsSound' /\ created \in Nat
  BY Kinds DEF Supersede, IInv, TypeOK, RowsTyped, PairsSound, Active
<1>4. Insert(to, {m})
  BY DEF Supersede
<1> HIDE DEF to
<1> QED
  BY <1>1, <1>2, <1>3, <1>4, InsertKeeps DEF Supersede

LEMMA ExtractRelatedKeeps ==
    ASSUME IInv, NEW S \in Subjects, NEW pair \in Pairs, NEW old \in Replaceable,
           ExtractRelated(S, pair, old)
    PROVE  IInv'
<1> DEFINE row == {r \in Relations : ends[r] = pair}
<1>1. /\ S \in SUBSET Owners /\ old \in SUBSET Memories /\ row \in SUBSET Relations
      /\ pair # {} /\ pair \in SUBSET People
      /\ S \subseteq Active \cup {User} /\ UNCHANGED person
  BY FoldAssumption DEF Owners, Replaceable, ExtractRelated
<1>2. PICK a, b \in Active : a # b /\ pair = {a, b}
  BY FoldAssumption DEF ExtractRelated
<1>3. \A o \in S \ {User} : Exists(o)'
  BY <1>1, ExistsThen DEF Active
<1>4. created \in Nat /\ created + 1 \in Nat
  BY Kinds DEF IInv, TypeOK
<1>5. CASE row # {} /\ Insert(S \cup row, old) /\ UNCHANGED <<created, ends>>
  <2>1. RowsTyped' /\ PairsSound'
    BY <1>5 DEF ExtractRelated, IInv, TypeOK, RowsTyped, PairsSound, Active
  <2>2. \A o \in row \ {User} : Exists(o)'
    BY <1>1, <1>5, ExistsThen
  <2>3. S \cup row \in SUBSET Owners
    BY <1>1 DEF Owners
  <2> HIDE DEF row
  <2> QED
    BY <1>1, <1>3, <1>4, <1>5, <2>1, <2>2, <2>3, InsertKeeps DEF ExtractRelated
<1>6. CASE /\ row = {} /\ created < MaxRelations /\ created' = created + 1
           /\ ends' = [ends EXCEPT ![created + 1] = pair]
           /\ Insert(S \cup {created + 1}, old)
  <2>1. created + 1 \in Relations /\ created' \in 0..MaxRelations
    BY <1>4, <1>6, Kinds DEF Relations
  <2>2. RowsTyped'
    BY <1>1, <1>6, <2>1 DEF IInv, TypeOK, RowsTyped
  <2>3. /\ \A r \in Relations \ {created + 1} : ends'[r] = ends[r]
        /\ ends'[created + 1] = pair
    BY <1>6, <2>1 DEF IInv, TypeOK
  <2>4. PairsSound'
    <3>1. ASSUME NEW r \in Relations, r > created' PROVE ends'[r] = {} /\ source'[r] = 0
      <4>1. r > created /\ r # created + 1
        BY <1>4, <1>6, <3>1, Kinds
      <4> QED
        BY <2>3, <4>1 DEF IInv, PairsSound, ExtractRelated
    <3>2. ASSUME NEW r \in Relations, ends'[r] # {}
          PROVE  \E x, y \in Active' : x # y /\ ends'[r] = {x, y}
      <4>1. Active' = Active
        BY <1>1 DEF Active
      <4>2. CASE r = created + 1
        BY <1>2, <2>3, <4>1, <4>2
      <4>3. CASE r # created + 1
        BY <2>3, <3>2, <4>1, <4>3 DEF IInv, PairsSound
      <4> QED
        BY <4>2, <4>3
    <3>3. ASSUME NEW q \in Relations, NEW r \in Relations, ends'[r] # {}, ends'[q] = ends'[r]
          PROVE  q = r
      BY <1>6, <2>3, <3>3 DEF IInv, PairsSound
    <3> QED
      BY <3>1, <3>2, <3>3 DEF PairsSound
  <2>5. \A r \in Relations : r <= created => ends'[r] = ends[r]
    BY <1>4, <2>3, Kinds
  <2>6. \A o \in (S \cup {created + 1}) \ {User} : Exists(o)'
    <3>1. ASSUME NEW o \in Relations, o = created + 1 PROVE Exists(o)'
      BY <1>1, <2>3, <3>1, ExistsThen
    <3> QED
      BY <1>3, <2>1, <3>1
  <2>7. S \cup {created + 1} \in SUBSET Owners
    BY <1>1, <2>1 DEF Owners
  <2> HIDE DEF row
  <2> QED
    BY <1>1, <1>3, <1>4, <1>6, <2>2, <2>4, <2>5, <2>6, <2>7, InsertKeeps DEF ExtractRelated
<1> QED
  BY <1>5, <1>6 DEF ExtractRelated

LEMMA RetractKeeps ==
    ASSUME IInv, NEW m \in Memories, Retract(m)
    PROVE  IInv'
<1>1. Stamp({m}) /\ UNCHANGED <<source, card, fold, raced, overtaken, events, imports>>
  BY DEF Retract
<1>2. CardsTyped' /\ FoldTyped' /\ clock' \in Nat /\ updated' \in [Memories -> 0..clock']
  BY <1>1, StampTypes DEF IInv
<1>3. TypeOK'
  <2>1. MemoriesTyped' /\ RowsTyped'
    BY <1>2 DEF Retract, IInv, TypeOK, MemoriesTyped, RowsTyped
  <2>2. TypeOK' <=> MemoriesTyped' /\ RowsTyped' /\ CardsTyped' /\ FoldTyped'
    BY DEF TypeOK, MemoriesTyped, RowsTyped, CardsTyped, FoldTyped
  <2> QED
    BY <2>1, <2>2, <1>2
<1>4. GrownBy({m})
  <2>1. ASSUME NEW o \in Owners PROVE Evidence(o)' = Evidence(o) /\ Exists(o)' = Exists(o)
    <3>1. Evidence(o)' = Evidence(o)
      BY DEF Evidence, EvidenceIn, Retract
    <3>2. Exists(o)' = Exists(o)
      BY Zenon DEF Exists, Retract
    <3> QED
      BY <3>1, <3>2
  <2> QED
    BY <2>1 DEF GrownBy
<1>5. NeverAhead' /\ FoldedUnlessOvertaken' /\ DraftSound' /\ ImportSound'
  BY <1>1, <1>3, <1>4, CardsOnWrite
<1>6. PairsSound' /\ LinksSound' /\ TargetSound'
  <2>1. PairsSound' /\ TargetSound'
    BY DEF Retract, IInv, PairsSound, TargetSound, Active, fold
  <2>2. LinksSound'
    <3>1. \A o : Exists(o)' = Exists(o)
      BY Zenon DEF Exists, Retract
    <3> QED
      BY <3>1 DEF IInv, LinksSound, Retract
  <2> QED
    BY <2>1, <2>2
<1> QED
  BY <1>3, <1>5, <1>6 DEF IInv

-----------------------------------------------------------------------------
(* The pipeline. *)

\* A step of the pipeline that ends with a load, from cards that are sound.
LEMMA LoadKeeps ==
    ASSUME IInv, NEW k, k \in 1..4, CardsTyped', NeverAhead', FoldedUnlessOvertaken',
           \A r \in Relations : r > created => source'[r] = 0,
           LoadFrom(k, source', card', overtaken'),
           UNCHANGED <<memories, links, person, created, ends, events, imports>>
    PROVE  IInv'
<1>1. \A o \in Owners : Evidence(o)' = Evidence(o) /\ Exists(o)' = Exists(o)
  <2>1. \A o : Evidence(o)' = Evidence(o)
    BY DEF Evidence, EvidenceIn, memories
  <2>2. \A o : Exists(o)' = Exists(o)
    BY Zenon DEF Exists
  <2> QED
    BY <2>1, <2>2
<1>2. clock' = clock /\ updated' = updated
  BY DEF memories
<1>3. \A o \in Owners \ overtaken' : Exists(o) /\ source'[o] # 0 =>
         \A m \in Evidence(o) :
            updated[m] <= source'[o] /\ Since(o, m) => card'[o][m] = updated[m]
  BY <1>1, <1>2 DEF FoldedUnlessOvertaken, Covered, Since, imports
<1>4. source' \in [Owners -> 0..clock] /\ card' \in [Owners -> [Memories -> 0..clock]]
  BY <1>2 DEF CardsTyped
<1>5. /\ stage' \in 1..4 /\ target' \in Owners \cup {None} /\ expected' \in 0..clock
      /\ draft' \in [Memories -> 0..clock] /\ more' \in BOOLEAN /\ raced' \in BOOLEAN
      /\ stage' \in 1..3 => target' # None
      /\ target' \in Relations => target' <= created
      /\ target' # None /\ ~ raced' =>
            \A m \in Evidence(target') :
               updated[m] <= expected' /\ Since(target', m) => draft'[m] = updated[m]
  BY <1>3, <1>4, LoadSound DEF IInv
<1>6. FoldTyped'
  BY <1>2, <1>5 DEF FoldTyped, IInv, TypeOK
<1>7. MemoriesTyped' /\ RowsTyped'
  BY DEF IInv, TypeOK, MemoriesTyped, RowsTyped, memories
<1>8. TypeOK'
  <2>1. TypeOK' <=> MemoriesTyped' /\ RowsTyped' /\ CardsTyped' /\ FoldTyped'
    BY DEF TypeOK, MemoriesTyped, RowsTyped, CardsTyped, FoldTyped
  <2> QED
    BY <2>1, <1>6, <1>7
<1>9. PairsSound' /\ TargetSound'
  BY <1>5 DEF IInv, PairsSound, TargetSound, Active
<1>10. LinksSound'
  <2>1. \A l \in links : l[2] \in Owners /\ Exists(l[2])
    BY DEF IInv, TypeOK, LinksSound, Owners
  <2>2. ASSUME NEW l \in links PROVE Exists(l[2])'
    BY <1>1, <2>1
  <2> QED
    BY <2>2 DEF LinksSound
<1>11. DraftSound'
  <2>1. ASSUME NEW o \in Owners, o = target', ~ raced', NEW m \in Evidence(o)', updated'[m] <= expected',
               Since(o, m)'
        PROVE  draft'[m] = updated'[m]
    <3>1. Since(o, m)
      BY <1>2, <2>1 DEF Since, imports
    <3> QED
      BY <1>1, <1>2, <1>5, <2>1, <3>1, Kinds
  <2>2. target' # None => target' \in Owners
    BY <1>5
  <2> QED
    BY <2>1, <2>2 DEF DraftSound
<1>12. ImportSound'
  <2>1. Watermark(User)' = Watermark(User)
    BY <1>2 DEF Watermark, Evidence, EvidenceIn, memories
  <2> QED
    BY <2>1 DEF IInv, ImportSound, imports
<1> QED
  BY <1>8, <1>9, <1>10, <1>11, <1>12 DEF IInv

LEMMA InductKeeps ==
    ASSUME IInv, Induct PROVE IInv'
<1>1. LoadFrom(1, source', card', overtaken')
  BY DEF Induct
<1>2. CardsTyped' /\ NeverAhead' /\ FoldedUnlessOvertaken'
  <2>1. CardsTyped'
    BY DEF Induct, memories, imports, IInv, TypeOK, CardsTyped
  <2>2. \A o \in Owners : Watermark(o)' = Watermark(o) /\ Evidence(o)' = Evidence(o)
    BY DEF Watermark, Evidence, EvidenceIn, Induct, memories
  <2>3. \A o \in Owners : Exists(o)' = Exists(o)
    BY Zenon DEF Exists, Induct
  <2>4. NeverAhead'
    BY <2>2, <2>3 DEF NeverAhead, IInv, Induct
  <2>5. FoldedUnlessOvertaken'
    BY <2>2, <2>3 DEF FoldedUnlessOvertaken, Covered, Since, IInv, Induct, memories, imports
  <2> QED
    BY <2>1, <2>4, <2>5
<1>3. \A r \in Relations : r > created => source'[r] = 0
  BY DEF IInv, PairsSound, Induct
<1> QED
  BY <1>1, <1>2, <1>3, LoadKeeps DEF Induct

LEMMA CommitKeeps ==
    ASSUME IInv, Commit PROVE IInv'
<1>1. \A o \in Owners : Watermark(o)' = Watermark(o) /\ Evidence(o)' = Evidence(o)
  BY DEF Watermark, Evidence, EvidenceIn, Commit, memories
<1>2. \A o \in Owners : Exists(o)' = Exists(o)
  BY Zenon DEF Exists, Commit
<1>3. /\ clock' = clock /\ updated' = updated
      /\ replaced' = replaced /\ overwriting' = overwriting
  BY DEF Commit, memories, imports
<1>4. CASE Accepts
  <2>1. /\ source' = [source EXCEPT ![target] = expected]
        /\ card' = [card EXCEPT ![target] = draft]
        /\ overtaken' = IF raced THEN overtaken \cup {target} ELSE overtaken
        /\ LoadFrom(IF more THEN stage ELSE stage + 1, source', card', overtaken')
    BY <1>4 DEF Commit
  <2>2. (IF more THEN stage ELSE stage + 1) \in 1..4
    BY DEF Commit, IInv, TypeOK
  <2>3. target \in Owners /\ (target \in Relations => target <= created)
    BY DEF Commit, IInv, TypeOK, TargetSound
  <2>4. CardsTyped'
    BY <1>3, <2>1, <2>3 DEF IInv, TypeOK, CardsTyped
  <2>5. /\ \A o \in Owners : source'[o] = IF o = target THEN expected ELSE source[o]
        /\ \A o \in Owners : card'[o] = IF o = target THEN draft ELSE card[o]
    BY <2>1, <2>3 DEF IInv, TypeOK
  <2>6. NeverAhead'
    <3>1. ASSUME NEW o \in Owners, Exists(o) PROVE source'[o] <= Watermark(o)
      <4>1. CASE o = target
        <5>1. Watermark(o) = expected /\ Watermark(o) \in 0..clock /\ clock \in Nat
          BY <1>4, <4>1, WatermarkIs DEF Accepts, IInv, TypeOK
        <5> QED
          BY <2>5, <4>1, <5>1
      <4>2. CASE o # target
        BY <2>5, <3>1, <4>2 DEF IInv, NeverAhead
      <4> QED
        BY <4>1, <4>2
    <3> QED
      BY <1>1, <1>2, <3>1 DEF NeverAhead
  <2>7. FoldedUnlessOvertaken'
    <3>1. ASSUME NEW o \in Owners \ overtaken', Exists(o), source'[o] # 0,
                 NEW m \in Evidence(o), updated[m] <= source'[o], Since(o, m)
          PROVE  card'[o][m] = updated[m]
      <4>1. CASE o = target
        <5>1. ~ raced /\ target # None
          BY <2>1, <2>3, <3>1, <4>1, Kinds
        <5> QED
          BY <2>5, <3>1, <4>1, <5>1 DEF IInv, DraftSound
      <4>2. CASE o # target
        <5>1. o \notin overtaken
          BY <2>1, <3>1
        <5> QED
          BY <2>5, <3>1, <4>2, <5>1 DEF IInv, FoldedUnlessOvertaken, Covered
      <4> QED
        BY <4>1, <4>2
    <3> QED
      BY <1>1, <1>2, <1>3, <3>1 DEF FoldedUnlessOvertaken, Covered, Since
  <2>8. \A r \in Relations : r > created => source'[r] = 0
    <3>1. ASSUME NEW r \in Relations, r > created PROVE r # target
      <4>1. r \in Nat /\ created \in Nat
        BY Kinds DEF IInv, TypeOK
      <4> QED
        BY <2>3, <3>1, <4>1
    <3> QED
      BY <2>5, <3>1 DEF IInv, PairsSound, Owners
  <2> DEFINE k == IF more THEN stage ELSE stage + 1
  <2>9. k \in 1..4 /\ LoadFrom(k, source', card', overtaken')
    BY <2>1, <2>2
  <2> HIDE DEF k
  <2> QED
    BY <2>4, <2>6, <2>7, <2>8, <2>9, LoadKeeps DEF Commit
<1>5. CASE ~ Accepts
  <2>1. LoadFrom(stage, source', card', overtaken') /\ UNCHANGED <<source, card,
                                                                   overtaken>> /\ stage \in 1..4
    BY <1>5 DEF Commit
  <2>2. CardsTyped'
    BY <1>3, <2>1 DEF IInv, TypeOK, CardsTyped
  <2>3. NeverAhead'
    BY <1>1, <1>2, <2>1 DEF NeverAhead, IInv
  <2>4. FoldedUnlessOvertaken'
    BY <1>1, <1>2, <1>3, <2>1 DEF FoldedUnlessOvertaken, Covered, Since, IInv
  <2>5. \A r \in Relations : r > created => source'[r] = 0
    BY <2>1 DEF IInv, PairsSound
  <2> QED
    BY <2>1, <2>2, <2>3, <2>4, <2>5, LoadKeeps DEF Commit
<1> QED
  BY <1>4, <1>5

LEMMA FailKeeps ==
    ASSUME IInv, Fail PROVE IInv'
<1>1. \A o \in Owners : Watermark(o)' = Watermark(o) /\ Evidence(o)' = Evidence(o)
  BY DEF Watermark, Evidence, EvidenceIn, Fail, memories
<1>2. \A o : Exists(o)' = Exists(o)
  BY Zenon DEF Exists, Fail
<1>3. MemoriesTyped' /\ RowsTyped' /\ CardsTyped'
  BY DEF Fail, IInv, TypeOK, memories, imports, MemoriesTyped, RowsTyped, CardsTyped
<1>4. clock' = clock /\ updated' = updated /\ clock \in Nat
  BY DEF Fail, memories, IInv, TypeOK
<1>5. FoldTyped'
  <2>1. 0 \in 0..clock' /\ events' \in 0..MaxEvents
    BY <1>4, FoldAssumption DEF Fail, Event, IInv, TypeOK
  <2>2. draft' \in [Memories -> 0..clock'] /\ expected' \in 0..clock'
    BY <2>1 DEF Fail, Idle
  <2>3. stage' = 0 /\ target' = None
    BY DEF Fail, Idle
  <2>4. more' \in BOOLEAN /\ raced' \in BOOLEAN
    BY Zenon DEF Fail, Idle
  <2> QED
    BY <2>1, <2>2, <2>3, <2>4 DEF FoldTyped
<1>6. TypeOK'
  <2>1. TypeOK' <=> MemoriesTyped' /\ RowsTyped' /\ CardsTyped' /\ FoldTyped'
    BY DEF TypeOK, MemoriesTyped, RowsTyped, CardsTyped, FoldTyped
  <2> QED
    BY <2>1, <1>3, <1>5
<1>7. NeverAhead' /\ FoldedUnlessOvertaken' /\ ImportSound'
  <2>1. NeverAhead'
    BY <1>1, <1>2 DEF IInv, NeverAhead, Fail
  <2>3. ImportSound'
    <3>1. Watermark(User)' = Watermark(User)
      BY <1>1, Kinds
    <3> QED
      BY <3>1 DEF IInv, ImportSound, Fail, imports
  <2>2. FoldedUnlessOvertaken'
    BY <1>1, <1>2, <1>4 DEF IInv, FoldedUnlessOvertaken, Covered, Since, Fail, imports
  <2> QED
    BY <2>1, <2>2, <2>3
<1>8. PairsSound' /\ LinksSound' /\ TargetSound' /\ DraftSound'
  <2>1. PairsSound' /\ LinksSound'
    BY <1>2 DEF IInv, PairsSound, LinksSound, Active, Fail
  <2>2. target' = None /\ None \notin Relations /\ stage' = 0
    BY Kinds DEF Fail, Idle, Owners
  <2> QED
    BY <2>1, <2>2 DEF TargetSound, DraftSound
<1> QED
  BY <1>6, <1>7, <1>8 DEF IInv

LEMMA FinishKeeps ==
    ASSUME IInv, Finish PROVE IInv'
<1>1. \A o : Watermark(o)' = Watermark(o) /\ Evidence(o)' = Evidence(o)
  BY DEF Watermark, Evidence, EvidenceIn, Finish, memories
<1>2. \A o : Exists(o)' = Exists(o)
  BY Zenon DEF Exists, Finish
<1>3. TypeOK'
  BY DEF Finish, IInv, TypeOK, memories, imports
<1>4. NeverAhead' /\ FoldedUnlessOvertaken' /\ ImportSound'
  <2>1. NeverAhead' /\ ImportSound'
    BY <1>1, <1>2 DEF IInv, NeverAhead, ImportSound, Finish, imports
  <2>2. FoldedUnlessOvertaken'
    BY <1>1, <1>2 DEF IInv, FoldedUnlessOvertaken, Covered, Since, Finish, memories, imports
  <2> QED
    BY <2>1, <2>2
<1>5. PairsSound' /\ LinksSound' /\ TargetSound'
  BY <1>2 DEF IInv, PairsSound, LinksSound, TargetSound, Active, Finish
<1>6. DraftSound'
  <2>1. target' = target /\ raced' = raced /\ expected' = expected /\ draft' = draft
        /\ updated' = updated /\ replaced' = replaced
    BY DEF Finish, memories, imports
  <2>2. Evidence(target)' = Evidence(target)
    BY <1>1, <2>1
  <2> QED
    BY <2>1, <2>2 DEF IInv, DraftSound, Since
<1> QED
  BY <1>3, <1>4, <1>5, <1>6 DEF IInv

-----------------------------------------------------------------------------
(* An import. *)

LEMMA OverwriteReadsKeeps ==
    ASSUME IInv, OverwriteReads PROVE IInv'
<1>1. \A o : Watermark(o)' = Watermark(o) /\ Evidence(o)' = Evidence(o)
  BY DEF Watermark, Evidence, EvidenceIn, OverwriteReads, memories
<1>2. \A o : Exists(o)' = Exists(o)
  BY Zenon DEF Exists, OverwriteReads
<1>3. Watermark(User) \in 0..clock
  BY WatermarkIs, Kinds DEF IInv
<1>4. TypeOK'
  <2>1. events' \in 0..MaxEvents
    BY FoldAssumption DEF OverwriteReads, Event, IInv, TypeOK
  <2>2. overwriting' \subseteq 0..clock' /\ clock' = clock
    BY <1>3 DEF OverwriteReads, memories
  <2> QED
    BY <2>1, <2>2 DEF OverwriteReads, IInv, TypeOK, memories, fold
<1>5. NeverAhead' /\ FoldedUnlessOvertaken'
  BY <1>1, <1>2 DEF IInv, NeverAhead, FoldedUnlessOvertaken, Covered, Since, OverwriteReads, memories
<1>6. PairsSound' /\ LinksSound' /\ TargetSound'
  BY <1>2 DEF IInv, PairsSound, LinksSound, TargetSound, Active, OverwriteReads, fold
<1>7. DraftSound'
  <2>1. /\ target' = target /\ raced' = raced /\ expected' = expected /\ draft' = draft
        /\ updated' = updated /\ replaced' = replaced
    BY DEF OverwriteReads, memories, fold
  <2>2. Evidence(target)' = Evidence(target)
    BY <1>1, <2>1
  <2> QED
    BY <2>1, <2>2 DEF IInv, DraftSound, Since
<1>8. ImportSound'
  <2>1. clock \in Nat /\ replaced' = replaced /\ overwriting' = {Watermark(User)}
    BY DEF OverwriteReads, IInv, TypeOK
  <2> QED
    BY <1>1, <1>3, <2>1 DEF IInv, ImportSound
<1> QED
  BY <1>4, <1>5, <1>6, <1>7, <1>8 DEF IInv

\* The card that is replaced has a watermark there was, and nothing is looked
\* for in it up to that; a fold in flight has what is looked for after it.
LEMMA OverwriteKeeps ==
    ASSUME IInv, NEW w \in overwriting,
           overwriting' = {}, replaced' = w,
           source' = [source EXCEPT ![User] = w],
           card' = [card EXCEPT ![User] = [m \in Memories |-> 0]],
           UNCHANGED <<memories, links, person, created, ends, fold, events, raced, overtaken>>
    PROVE  IInv'
<1>1. \A o : Watermark(o)' = Watermark(o) /\ Evidence(o)' = Evidence(o)
  BY DEF Watermark, Evidence, EvidenceIn, memories
<1>2. \A o : Exists(o)' = Exists(o)
  BY Zenon DEF Exists
<1>3. /\ clock' = clock /\ updated' = updated /\ clock \in Nat /\ w \in 0..clock
      /\ replaced <= w /\ w <= Watermark(User) /\ replaced \in 0..clock
      /\ updated \in [Memories -> 0..clock]
  BY DEF memories, IInv, TypeOK, ImportSound
<1>4. /\ \A o \in Owners : source'[o] = IF o = User THEN w ELSE source[o]
      /\ \A o \in Owners \ {User} : card'[o] = card[o]
  BY DEF IInv, TypeOK
<1>5. TypeOK'
  <2>1. MemoriesTyped' /\ RowsTyped' /\ FoldTyped'
    BY DEF IInv, TypeOK, MemoriesTyped, RowsTyped, FoldTyped, memories, fold
  <2>2. CardsTyped'
    <3>1. source' \in [Owners -> 0..clock']
      BY <1>3 DEF IInv, TypeOK
    <3>2. [m \in Memories |-> 0] \in [Memories -> 0..clock']
      BY <1>3
    <3>3. card' \in [Owners -> [Memories -> 0..clock']]
      BY <1>3, <3>2 DEF IInv, TypeOK
    <3> QED
      BY <1>3, <3>1, <3>3 DEF CardsTyped, IInv, TypeOK
  <2>3. TypeOK' <=> MemoriesTyped' /\ RowsTyped' /\ CardsTyped' /\ FoldTyped'
    BY DEF TypeOK, MemoriesTyped, RowsTyped, CardsTyped, FoldTyped
  <2> QED
    BY <2>1, <2>2, <2>3
<1>6. NeverAhead'
  <2>1. ASSUME NEW o \in Owners, Exists(o) PROVE source'[o] <= Watermark(o)
    BY <1>3, <1>4, <2>1 DEF IInv, NeverAhead
  <2> QED
    BY <1>1, <1>2, <2>1 DEF NeverAhead
<1>7. FoldedUnlessOvertaken'
  <2>1. ASSUME NEW o \in Owners \ overtaken, Exists(o), source'[o] # 0,
               NEW m \in Evidence(o), updated[m] <= source'[o], Since(o, m)'
        PROVE  card'[o][m] = updated[m]
    <3>1. m \in Memories
      BY WatermarkIs DEF IInv
    <3>2. CASE o = User
      BY <1>3, <1>4, <2>1, <3>1, <3>2 DEF Since
    <3>3. CASE o # User
      BY <1>4, <2>1, <3>3 DEF IInv, FoldedUnlessOvertaken, Covered, Since
    <3> QED
      BY <3>2, <3>3
  <2> QED
    BY <1>1, <1>2, <1>3, <2>1 DEF FoldedUnlessOvertaken, Covered
<1>8. PairsSound' /\ LinksSound' /\ TargetSound'
  <2>1. \A r \in Relations : source'[r] = source[r]
    BY <1>4, Kinds DEF Owners
  <2> QED
    BY <1>2, <2>1 DEF IInv, PairsSound, LinksSound, TargetSound, Active, fold
<1>9. DraftSound'
  <2>1. target' = target /\ expected' = expected /\ draft' = draft
    BY DEF fold
  <2>2. target # None => target \in Owners
    BY DEF IInv, TypeOK
  <2>3. ASSUME NEW o \in Owners, o = target, target # None, ~ raced,
               NEW m \in Evidence(o), updated[m] <= expected, Since(o, m)'
        PROVE  draft[m] = updated[m]
    <3>1. m \in Memories
      BY WatermarkIs DEF IInv
    <3>2. Since(o, m)
      BY <1>3, <2>3, <3>1 DEF Since
    <3> QED
      BY <2>3, <3>2 DEF IInv, DraftSound
  <2> QED
    BY <1>1, <1>3, <2>1, <2>2, <2>3 DEF DraftSound
<1>10. ImportSound'
  BY <1>1, <1>3 DEF ImportSound
<1> QED
  BY <1>5, <1>6, <1>7, <1>8, <1>9, <1>10 DEF IInv

-----------------------------------------------------------------------------
(* The merge of two people. *)

\* What becomes of each row: it is of other people and stays, is rekeyed, or
\* goes, for want of a second person or because its pair has another row.
LEMMA RowsAfter ==
    ASSUME IInv, NEW s \in People, NEW t \in People, Merge(s, t), NEW r \in Relations
    PROVE  \/ /\ s \notin ends[r] /\ r \notin Dropped(s, t)
              /\ ends'[r] = ends[r]
           \/ /\ s \in ends[r] /\ t \notin ends[r] /\ r \notin Dropped(s, t) /\ Twins(r, s, t) = {}
              /\ ends'[r] = (ends[r] \ {s}) \cup {t} /\ r \in Reset(s, t)
           \/ /\ s \in ends[r] /\ r \in Dropped(s, t)
              /\ ends'[r] = {}
<1>1. ends'[r] = IF r \in Dropped(s, t) THEN {} ELSE Renamed(r, s, t)
  BY DEF Merge, EndsAfter
<1>2. CASE s \notin ends[r]
  BY <1>1, <1>2 DEF Dropped, Renamed
<1>3. CASE s \in ends[r] /\ r \in Dropped(s, t)
  BY <1>1, <1>3
<1>4. CASE s \in ends[r] /\ r \notin Dropped(s, t)
  <2>1. t \notin ends[r] /\ Twins(r, s, t) = {}
    BY <1>4 DEF Dropped
  <2>2. r \in Reset(s, t)
    BY <1>4, <2>1 DEF Reset
  <2> QED
    BY <1>1, <1>4, <2>1, <2>2 DEF Renamed
<1> QED
  BY <1>2, <1>3, <1>4

\* The row that takes over from one that goes is of other people and stays.
LEMMA TwinStays ==
    ASSUME IInv, NEW s \in People, NEW t \in People, Merge(s, t), NEW r \in Relations,
           s \in ends[r], NEW e \in Twins(r, s, t)
    PROVE  /\ e \in Relations /\ e # r /\ s \notin ends[e] /\ t \in ends[e]
           /\ ends[e] = (ends[r] \ {s}) \cup {t} /\ ends'[e] = ends[e]
<1>1. e \in Relations /\ e # r /\ ends[e] = (ends[r] \ {s}) \cup {t} /\ s # t
  BY DEF Twins, Renamed, Merge
<1>2. ends'[e] = ends[e]
  BY <1>1, RowsAfter
<1> QED
  BY <1>1, <1>2

\* Who exists after the merge existed before it.
LEMMA ActiveAfter ==
    ASSUME IInv, NEW s \in People, NEW t \in People, Merge(s, t)
    PROVE  s # t /\ s \in Active /\ t \in Active /\ Active' = Active \ {s}
  BY DEF Merge, Active, IInv, TypeOK

\* Where a link comes from: it was there, was one of s, or was one of a row
\* that has given way to its twin.
Origin(l, s, t) ==
    \/ l \in links /\ l[2] # s /\ l[2] \notin Dropped(s, t)
    \/ \E m \in Memories : l = <<m, t>> /\ <<m, s>> \in links
    \/ \E m \in Memories : \E r \in Dropped(s, t) : \E e \in Twins(r, s, t) :
          /\ t \notin ends[r] /\ l = <<m, e>> /\ <<m, r>> \in links

\* The links after the merge.
LEMMA LinksAfter ==
    ASSUME IInv, NEW s \in People, NEW t \in People, Merge(s, t)
    PROVE  /\ \A l \in links : l[2] # s /\ l[2] \notin Dropped(s, t) => l \in links'
           /\ \A l \in links' : Origin(l, s, t)
           /\ \A m \in Memories, r \in Dropped(s, t) : \A e \in Twins(r, s, t) :
                 t \notin ends[r] /\ <<m, r>> \in links => <<m, e>> \in links'
<1> DEFINE kept  == {l \in links : l[2] # s /\ l[2] \notin Dropped(s, t)}
           moved == {<<m, t>> : m \in {n \in Memories : <<n, s>> \in links}}
           Of(r) == {<<m, e>> : m \in {n \in Memories : <<n, r>> \in links}, e \in Twins(r, s, t)}
           joined == UNION {Of(r) : r \in {q \in Dropped(s, t) : t \notin ends[q]}}
<1>1. links' = kept \cup moved \cup joined
  BY DEF Merge, Rewired
<1>2. \A l : l \in joined <=>
         \E r \in Dropped(s, t) : t \notin ends[r] /\ l \in Of(r)
  <2> HIDE DEF Of
  <2> QED
    OBVIOUS
<1>3. \A r, l : l \in Of(r) <=>
         \E m \in Memories : \E e \in Twins(r, s, t) : l = <<m, e>> /\ <<m, r>> \in links
  <2>1. ASSUME NEW r, NEW l, l \in Of(r)
        PROVE  \E m \in Memories : \E e \in Twins(r, s, t) : l = <<m, e>> /\ <<m, r>> \in links
    BY <2>1
  <2>2. ASSUME NEW r, NEW m \in Memories, NEW e \in Twins(r, s, t), <<m, r>> \in links
        PROVE  <<m, e>> \in Of(r)
    <3>1. m \in {n \in Memories : <<n, r>> \in links}
      BY <2>2
    <3> QED
      BY <3>1
  <2> HIDE DEF Of
  <2> QED
    BY <2>1, <2>2
<1>4. \A l : l \in moved <=> \E m \in Memories : l = <<m, t>> /\ <<m, s>> \in links
  OBVIOUS
<1> HIDE DEF joined, moved, Of
<1>5. \A l \in links : l[2] # s /\ l[2] \notin Dropped(s, t) => l \in links'
  BY <1>1
<1>6. ASSUME NEW l \in links'
      PROVE  Origin(l, s, t)
  <2>1. CASE l \in kept
    BY <2>1 DEF Origin
  <2>2. CASE l \in moved
    BY <1>4, <2>2 DEF Origin
  <2>3. CASE l \in joined
    <3>1. PICK r \in Dropped(s, t) : t \notin ends[r] /\ l \in Of(r)
      BY <1>2, <2>3
    <3>2. PICK m \in Memories : \E e \in Twins(r, s, t) : l = <<m, e>> /\ <<m, r>> \in links
      BY <1>3, <3>1
    <3> QED
      BY <3>1, <3>2 DEF Origin
  <2> QED
    BY <1>1, <2>1, <2>2, <2>3
<1>7. ASSUME NEW m \in Memories, NEW r \in Dropped(s, t), NEW e \in Twins(r, s, t),
             t \notin ends[r], <<m, r>> \in links
      PROVE  <<m, e>> \in links'
  <2>1. <<m, e>> \in Of(r)
    BY <1>3, <1>7
  <2>2. <<m, e>> \in joined
    BY <1>2, <1>7, <2>1
  <2> QED
    BY <1>1, <2>2
<1> QED
  BY <1>5, <1>6, <1>7

LEMMA PairsAfter ==
    ASSUME IInv, NEW s \in People, NEW t \in People, Merge(s, t)
    PROVE  PairsSound'
<1>1. /\ created' = created /\ created \in Nat
      /\ \A o \in Owners : source'[o] = IF o \in Reset(s, t) THEN 0 ELSE source[o]
  BY Kinds DEF Merge, IInv, TypeOK
<1>2. ASSUME NEW r \in Relations, r > created PROVE ends'[r] = {} /\ source'[r] = 0
  <2>1. ends[r] = {} /\ source[r] = 0 /\ r \in Owners
    BY <1>2 DEF IInv, PairsSound, Owners
  <2> QED
    BY <1>1, <2>1, RowsAfter
<1>3. ASSUME NEW r \in Relations, ends'[r] # {}
      PROVE  \E x, y \in Active' : x # y /\ ends'[r] = {x, y}
  <2>1. PICK a, b \in Active : a # b /\ ends[r] = {a, b}
    BY <1>3, RowsAfter DEF IInv, PairsSound
  <2>2. CASE s \notin ends[r]
    BY <2>1, <2>2, RowsAfter, ActiveAfter
  <2>3. CASE s \in ends[r]
    <3>1. t \notin ends[r] /\ ends'[r] = (ends[r] \ {s}) \cup {t}
      BY <1>3, <2>3, RowsAfter
    <3>2. PICK c \in {a, b} : c # s /\ ends[r] = {s, c}
      BY <2>1, <2>3
    <3>3. c \in Active' /\ t \in Active' /\ c # t /\ ends'[r] = {c, t}
      BY <2>1, <3>1, <3>2, ActiveAfter
    <3> QED
      BY <3>3
  <2> QED
    BY <2>2, <2>3
<1>4. ASSUME NEW q \in Relations, NEW r \in Relations, ends'[r] # {}, ends'[q] = ends'[r]
      PROVE  q = r
  <2>1. ends[r] # {} /\ ends[q] # {}
    BY <1>4, RowsAfter
  <2>2. CASE s \notin ends[r] /\ s \notin ends[q]
    BY <1>4, <2>1, <2>2, RowsAfter DEF IInv, PairsSound
  <2>3. CASE s \in ends[r] /\ s \in ends[q]
    <3>1. /\ t \notin ends[r] /\ ends'[r] = (ends[r] \ {s}) \cup {t}
          /\ t \notin ends[q] /\ ends'[q] = (ends[q] \ {s}) \cup {t}
      BY <1>4, <2>3, RowsAfter
    <3>2. ends[r] = ends[q]
      BY <1>4, <2>3, <3>1
    <3> QED
      BY <2>1, <3>2 DEF IInv, PairsSound
  <2>4. CASE s \in ends[r] /\ s \notin ends[q]
    <3>1. Twins(r, s, t) = {} /\ ends[q] = (ends[r] \ {s}) \cup {t}
      BY <1>4, <2>4, RowsAfter
    <3> QED
      BY <2>4, <3>1 DEF Twins, Renamed
  <2>5. CASE s \notin ends[r] /\ s \in ends[q]
    <3>1. Twins(q, s, t) = {} /\ ends[r] = (ends[q] \ {s}) \cup {t}
      BY <1>4, <2>5, RowsAfter
    <3> QED
      BY <2>5, <3>1 DEF Twins, Renamed
  <2> QED
    BY <2>2, <2>3, <2>4, <2>5
<1> QED
  BY <1>1, <1>2, <1>3, <1>4 DEF PairsSound

LEMMA LinksSoundAfter ==
    ASSUME IInv, NEW s \in People, NEW t \in People, Merge(s, t)
    PROVE  LinksSound' /\ links' \subseteq (1..stored) \X (People \cup Relations)
<1>1. \A l \in links : l \in (1..stored) \X (People \cup Relations) /\ Exists(l[2])
  BY DEF IInv, TypeOK, LinksSound
<1>2. ASSUME NEW l \in links'
      PROVE  l \in (1..stored) \X (People \cup Relations) /\ Exists(l[2])'
  <2>1. CASE l \in links /\ l[2] # s /\ l[2] \notin Dropped(s, t)
    <3>1. CASE l[2] \in People
      <4>1. l[2] \in Active'
        <5>1. l[2] \in Active
          BY <1>1, <2>1, <3>1, ExistsOf DEF Active
        <5> QED
          BY <2>1, <5>1, ActiveAfter
      <4> QED
        BY <1>1, <2>1, <3>1, <4>1, ExistsThen DEF Active
    <3>2. CASE l[2] \in Relations
      <4>1. ends[l[2]] # {}
        BY <1>1, <2>1, <3>2, ExistsOf
      <4>2. ends'[l[2]] # {}
        BY <2>1, <3>2, <4>1, RowsAfter
      <4> QED
        BY <1>1, <2>1, <3>2, <4>2, ExistsThen
    <3> QED
      BY <1>1, <2>1, <3>1, <3>2
  <2>2. ASSUME NEW m \in Memories, l = <<m, t>>, <<m, s>> \in links
        PROVE  l \in (1..stored) \X (People \cup Relations) /\ Exists(l[2])'
    <3>1. t \in Active' /\ m \in 1..stored /\ l[2] = t
      BY <1>1, <2>2, ActiveAfter
    <3> QED
      BY <2>2, <3>1, ExistsThen DEF Active
  <2>3. ASSUME NEW m \in Memories, NEW r \in Dropped(s, t), NEW e \in Twins(r, s, t),
               l = <<m, e>>, <<m, r>> \in links
        PROVE  l \in (1..stored) \X (People \cup Relations) /\ Exists(l[2])'
    <3>1. r \in Relations /\ s \in ends[r]
      BY DEF Dropped
    <3>2. e \in Relations /\ ends'[e] # {}
      BY <3>1, TwinStays
    <3>3. m \in 1..stored
      BY <1>1, <2>3
    <3>4. l[2] = e
      BY <2>3
    <3>5. Exists(l[2])'
      BY <3>2, <3>4, ExistsThen
    <3>6. l \in (1..stored) \X (People \cup Relations)
      BY <2>3, <3>2, <3>3
    <3> QED
      BY <3>5, <3>6
  <2>4. Origin(l, s, t)
    BY LinksAfter
  <2> QED
    BY <2>1, <2>2, <2>3, <2>4 DEF Origin
<1> QED
  BY <1>2 DEF LinksSound

\* No evidence is lost by an owner there still is and whose card is kept.
LEMMA EvidenceAfter ==
    ASSUME IInv, NEW s \in People, NEW t \in People, Merge(s, t),
           NEW o \in Owners, o \notin Reset(s, t), Exists(o)'
    PROVE  /\ Exists(o)
           /\ Evidence(o) \subseteq Evidence(o)'
<1>1. CASE o = User
  BY <1>1, ExistsOf DEF Evidence, EvidenceIn, Merge, memories
<1>2. CASE o \in People
  <2>1. o \in Active' /\ o \in Active /\ o # s
    BY <1>2, ExistsThen, ActiveAfter DEF Active
  <2>2. o \notin Dropped(s, t)
    BY <1>2, Kinds DEF Dropped
  <2>3. \A m \in Memories : <<m, o>> \in links => <<m, o>> \in links'
    BY <2>1, <2>2, LinksAfter
  <2>4. Exists(o)
    BY <1>2, <2>1, ExistsOf DEF Active
  <2> QED
    BY <1>2, <2>3, <2>4, Kinds DEF Evidence, EvidenceIn
<1>3. CASE o \in Relations
  <2>1. ends'[o] # {}
    BY <1>3, ExistsThen
  <2>2. s \notin ends[o] /\ o \notin Dropped(s, t) /\ ends'[o] = ends[o]
    BY <1>3, <2>1, RowsAfter
  <2>3. o # s /\ ends[o] \subseteq People
    BY <1>3, Kinds DEF IInv, TypeOK
  <2>4. \A p \in ends[o] : p # s /\ p \notin Dropped(s, t)
    BY <2>2, <2>3, Kinds DEF Dropped
  <2>5. \A m \in Memories : <<m, o>> \in links => <<m, o>> \in links'
    BY <2>2, <2>3, LinksAfter
  <2>6. \A m \in Memories, p \in ends[o] : <<m, p>> \in links => <<m, p>> \in links'
    BY <2>4, LinksAfter
  <2>7. Exists(o)
    BY <1>3, <2>1, <2>2, ExistsOf
  <2> QED
    BY <1>3, <2>2, <2>5, <2>6, <2>7, Kinds DEF Evidence, EvidenceIn
<1> QED
  BY <1>1, <1>2, <1>3 DEF Owners

LEMMA MergeTypes ==
    ASSUME IInv, NEW s \in People, NEW t \in People, Merge(s, t)
    PROVE  TypeOK'
<1>1. MemoriesTyped'
  BY LinksSoundAfter DEF Merge, memories, IInv, TypeOK, MemoriesTyped
<1>2. RowsTyped'
  <2>1. person' \in [People -> {"active", "merged"}] /\ created' \in 0..MaxRelations
    BY DEF Merge, IInv, TypeOK
  <2>2. \A r \in Relations : ends'[r] \in SUBSET People
    BY RowsAfter DEF IInv, TypeOK
  <2>3. ends' = [r \in Relations |-> ends'[r]]
    BY DEF Merge, EndsAfter
  <2> QED
    BY <2>1, <2>2, <2>3 DEF RowsTyped
<1>3. CardsTyped'
  <2>1. clock' = clock /\ clock \in Nat /\ 0 \in 0..clock
    BY DEF Merge, memories, IInv, TypeOK
  <2>2. source' \in [Owners -> 0..clock']
    BY <2>1 DEF Merge, IInv, TypeOK
  <2>3. card' \in [Owners -> [Memories -> 0..clock']]
    <3>1. [m \in Memories |-> 0] \in [Memories -> 0..clock']
      BY <2>1
    <3>2. \A o \in Owners : card[o] \in [Memories -> 0..clock']
      BY <2>1 DEF IInv, TypeOK
    <3> QED
      BY <3>1, <3>2 DEF Merge
  <2>4. overtaken' \subseteq Owners
    BY DEF Merge, IInv, TypeOK
  <2>5. overwriting' \subseteq 0..clock' /\ replaced' \in 0..clock'
    BY <2>1 DEF Merge, imports, IInv, TypeOK
  <2> QED
    BY <2>2, <2>3, <2>4, <2>5 DEF CardsTyped
<1>4. FoldTyped'
  <2>1. raced' \in BOOLEAN
    BY Zenon DEF Merge, IInv, TypeOK
  <2> QED
    BY <2>1 DEF Merge, memories, fold, IInv, TypeOK, FoldTyped
<1>5. TypeOK' <=> MemoriesTyped' /\ RowsTyped' /\ CardsTyped' /\ FoldTyped'
  BY DEF TypeOK, MemoriesTyped, RowsTyped, CardsTyped, FoldTyped
<1> QED
  BY <1>1, <1>2, <1>3, <1>4, <1>5

\* A merge blanks the watermarks it resets; of the others it marks those that
\* are later than a Memory it brings, and a fold whose target gains evidence.
LEMMA MergeKeeps ==
    ASSUME IInv, NEW s \in People, NEW t \in People, Merge(s, t)
    PROVE  IInv'
<1> DEFINE gained(o) == EvidenceIn(o, links', ends') \ Evidence(o)
<1>1. TypeOK' /\ PairsSound' /\ LinksSound'
  BY MergeTypes, PairsAfter, LinksSoundAfter
<1>2. TargetSound'
  BY DEF Merge, fold, IInv, TargetSound
<1>3. clock' = clock /\ updated' = updated /\ clock \in Nat
  BY DEF Merge, memories, IInv, TypeOK
<1>4. ASSUME NEW o \in Owners
      PROVE  /\ source'[o] = IF o \in Reset(s, t) THEN 0 ELSE source[o]
             /\ o \notin Reset(s, t) => card'[o] = card[o]
             /\ o \notin Reset(s, t) /\ o \notin overtaken' =>
                   o \notin overtaken /\ \A m \in gained(o) : ~ (updated[m] <= source[o])
             /\ Evidence(o)' \subseteq Evidence(o) \cup gained(o)
  <2>1. source'[o] = IF o \in Reset(s, t) THEN 0 ELSE source[o]
    BY DEF Merge
  <2>2. o \notin Reset(s, t) => card'[o] = card[o]
    BY DEF Merge
  <2>3. overtaken' = (overtaken \ Reset(s, t))
                     \cup {q \in Owners \ Reset(s, t) : \E m \in gained(q) : updated[m] <= source[q]}
    BY Zenon DEF Merge
  <2>4. EvidenceIn(o, links', ends') = Evidence(o)'
    BY DEF Evidence, EvidenceIn, Merge, memories
  <2> HIDE DEF gained
  <2>5. Evidence(o)' \subseteq Evidence(o) \cup gained(o)
    BY <2>4 DEF gained
  <2> QED
    BY <2>1, <2>2, <2>3, <2>5
<1>5. NeverAhead'
  <2>1. ASSUME NEW o \in Owners, Exists(o)' PROVE source'[o] <= Watermark(o)'
    <3>1. Watermark(o)' \in 0..clock' /\ \A m \in Evidence(o)' : updated'[m] <= Watermark(o)'
      BY <1>1, WatermarkThen
    <3>2. CASE o \in Reset(s, t)
      BY <1>3, <1>4, <3>1, <3>2
    <3>3. CASE o \notin Reset(s, t)
      <4>1. Exists(o) /\ Evidence(o) \subseteq Evidence(o)'
        BY <2>1, <3>3, EvidenceAfter
      <4>2. source'[o] = source[o] /\ source[o] <= Watermark(o) /\ source[o] \in 0..clock
        BY <1>4, <3>3, <4>1 DEF IInv, NeverAhead, TypeOK
      <4>3. Watermark(o) \in 0..clock /\ (Watermark(o) # 0 => \E m \in Evidence(o) : updated[m] = Watermark(o))
        BY WatermarkIs DEF IInv
      <4>4. CASE Watermark(o) = 0
        BY <1>3, <3>1, <4>2, <4>4
      <4>5. ASSUME NEW m \in Evidence(o), updated[m] = Watermark(o) PROVE source'[o] <= Watermark(o)'
        BY <1>3, <3>1, <4>1, <4>2, <4>3, <4>5
      <4> QED
        BY <4>3, <4>4, <4>5
    <3> QED
      BY <3>2, <3>3
  <2> QED
    BY <2>1 DEF NeverAhead
<1>6. FoldedUnlessOvertaken'
  <2>1. ASSUME NEW o \in Owners \ overtaken', Exists(o)', source'[o] # 0,
               NEW m \in Evidence(o)', updated[m] <= source'[o], Since(o, m)'
        PROVE  card'[o][m] = updated[m]
    <3>1. o \notin Reset(s, t) /\ source'[o] = source[o] /\ card'[o] = card[o] /\ o \notin overtaken
      BY <1>4, <2>1
    <3>2. m \in Evidence(o)
      BY <1>4, <2>1, <3>1
    <3>3. Exists(o)
      BY <2>1, <3>1, EvidenceAfter
    <3>4. Since(o, m)
      BY <1>3, <2>1 DEF Since, Merge, imports
    <3> QED
      BY <2>1, <3>1, <3>2, <3>3, <3>4 DEF IInv, FoldedUnlessOvertaken, Covered
  <2> QED
    BY <1>3, <2>1 DEF FoldedUnlessOvertaken, Covered
<1>7. DraftSound'
  <2>1. target' = target /\ expected' = expected /\ draft' = draft
    BY DEF Merge, fold
  <2>2. target # None => target \in Owners
    BY DEF IInv, TypeOK
  <2>3. ASSUME target # None, ~ raced' PROVE ~ raced /\ gained(target) = {}
    BY <2>3, Zenon DEF Merge
  <2>4. ASSUME NEW o \in Owners, o = target, target # None, ~ raced',
               NEW m \in Evidence(o)', updated[m] <= expected, Since(o, m)'
        PROVE  draft[m] = updated[m]
    <3>1. m \in Evidence(o)
      BY <1>4, <2>3, <2>4
    <3>2. Since(o, m)
      BY <1>3, <2>4 DEF Since, Merge, imports
    <3> QED
      BY <2>3, <2>4, <3>1, <3>2 DEF IInv, DraftSound
  <2> QED
    BY <1>3, <2>1, <2>2, <2>4 DEF DraftSound
<1>8. ImportSound'
  <2>1. Watermark(User)' = Watermark(User)
    BY <1>3 DEF Watermark, Evidence, EvidenceIn, Merge, memories
  <2> QED
    BY <2>1 DEF IInv, ImportSound, Merge, imports
<1> QED
  BY <1>1, <1>2, <1>5, <1>6, <1>7, <1>8 DEF IInv

-----------------------------------------------------------------------------
(* The theorems. *)

LEMMA InitIInv == Init => IInv
<1> SUFFICES ASSUME Init PROVE IInv
  OBVIOUS
<1>1. TypeOK
  <2>1. 0 \in Nat /\ 0 \in 0..MaxMemories /\ 0 \in 0..MaxRelations /\ 0 \in 0..MaxEvents /\ 0 \in 0..0
    BY FoldAssumption
  <2>2. draft \in [Memories -> 0..clock] /\ updated \in [Memories -> 0..clock]
    BY <2>1 DEF Init
  <2>3. card \in [Owners -> [Memories -> 0..clock]] /\ source \in [Owners -> 0..clock]
    <3>1. [m \in Memories |-> 0] \in [Memories -> 0..0]
      BY <2>1
    <3> QED
      BY <2>1, <3>1 DEF Init
  <2>4. more \in BOOLEAN /\ raced \in BOOLEAN
    BY Zenon DEF Init
  <2>5. /\ aboutUser \subseteq 1..stored /\ links \subseteq (1..stored) \X (People \cup Relations)
        /\ overtaken \subseteq Owners /\ ends \in [Relations -> SUBSET People]
    BY DEF Init
  <2>6. /\ status \in [Memories -> {"none", "active", "superseded", "retracted"}]
        /\ person \in [People -> {"active", "merged"}]
    BY DEF Init
  <2>7. /\ clock \in Nat /\ stored \in 0..MaxMemories /\ created \in 0..MaxRelations
        /\ stage \in 0..4 /\ target \in Owners \cup {None} /\ expected \in 0..clock
        /\ events \in 0..MaxEvents
        /\ overwriting \subseteq 0..clock /\ replaced \in 0..clock
    BY <2>1 DEF Init
  <2> QED
    BY <2>2, <2>3, <2>4, <2>5, <2>6, <2>7 DEF TypeOK
<1>2. \A o \in Owners : source[o] = 0
  BY DEF Init
<1>3. NeverAhead
  <2>1. \A o \in Owners : Watermark(o) \in 0..clock /\ clock \in Nat
    BY <1>1, WatermarkIs DEF TypeOK
  <2> QED
    BY <1>2, <2>1 DEF NeverAhead
<1>4. FoldedUnlessOvertaken
  BY <1>2 DEF FoldedUnlessOvertaken, Covered
<1>5. PairsSound /\ LinksSound
  BY <1>2 DEF Init, PairsSound, LinksSound, Owners
<1>6. TargetSound /\ DraftSound
  BY Kinds DEF Init, TargetSound, DraftSound, Owners
<1>7. ImportSound
  <2>1. Watermark(User) \in 0..0
    BY <1>1, WatermarkIs, Kinds DEF Init
  <2> QED
    BY <2>1 DEF Init, ImportSound
<1> QED
  BY <1>1, <1>3, <1>4, <1>5, <1>6, <1>7 DEF IInv

LEMMA StutterKeeps ==
    ASSUME IInv, UNCHANGED vars PROVE IInv'
<1>1. \A o : Exists(o)' = Exists(o)
  BY Zenon DEF Exists, vars
<1>2. \A o : Watermark(o)' = Watermark(o) /\ Evidence(o)' = Evidence(o)
  BY DEF Watermark, Evidence, EvidenceIn, vars, memories
<1>3. TypeOK'
  BY DEF IInv, TypeOK, vars, memories, fold, imports
<1>4. PairsSound' /\ LinksSound' /\ TargetSound'
  BY <1>1 DEF IInv, PairsSound, LinksSound, TargetSound, Active, vars, memories, fold
<1>5. NeverAhead' /\ FoldedUnlessOvertaken'
  BY <1>1, <1>2 DEF IInv, NeverAhead, FoldedUnlessOvertaken, Covered, Since, vars, memories, imports
<1>6. DraftSound'
  <2>1. /\ target' = target /\ raced' = raced /\ expected' = expected /\ draft' = draft
        /\ updated' = updated /\ replaced' = replaced
    BY DEF vars, memories, fold, imports
  <2>2. Evidence(target)' = Evidence(target)
    BY <1>2, <2>1
  <2> QED
    BY <2>1, <2>2 DEF IInv, DraftSound, Since
<1>7. ImportSound'
  BY <1>2 DEF IInv, ImportSound, vars, imports
<1> QED
  BY <1>3, <1>4, <1>5, <1>6, <1>7 DEF IInv

LEMMA NextKeeps == IInv /\ [Next]_vars => IInv'
<1> SUFFICES ASSUME IInv, [Next]_vars PROVE IInv'
  OBVIOUS
<1>1. ASSUME NEW S \in Subjects, AddManual(S) PROVE IInv'
  BY <1>1, AddManualKeeps
<1>2. ASSUME NEW S \in Subjects, NEW old \in Replaceable, Extract(S, old) PROVE IInv'
  BY <1>2, ExtractKeeps
<1>3. ASSUME NEW S \in Subjects, NEW old \in Replaceable, NEW pair \in Pairs,
             ExtractRelated(S, pair, old)
      PROVE  IInv'
  BY <1>3, ExtractRelatedKeeps
<1>4. ASSUME NEW m \in Memories, Retract(m) PROVE IInv'
  BY <1>4, RetractKeeps
<1>5. ASSUME NEW m \in Memories, NEW about \in {{}, {User}}, Supersede(m, about) PROVE IInv'
  BY <1>5, SupersedeKeeps
<1>6. ASSUME NEW s \in People, NEW t \in People, Merge(s, t) PROVE IInv'
  BY <1>6, MergeKeeps
<1>7. CASE Induct
  BY <1>7, InductKeeps
<1>8. CASE Commit
  BY <1>8, CommitKeeps
<1>9. CASE Fail
  BY <1>9, FailKeeps
<1>10. CASE Finish
  BY <1>10, FinishKeeps
<1>11. CASE OverwriteReads
  BY <1>11, OverwriteReadsKeeps
<1>12. CASE Overwrite
  BY <1>12, OverwriteKeeps DEF Overwrite
<1>13. CASE UNCHANGED vars
  BY <1>13, StutterKeeps
<1> QED
  BY <1>1, <1>2, <1>3, <1>4, <1>5, <1>6, <1>7, <1>8, <1>9, <1>10, <1>11, <1>12, <1>13
  DEF Next

\* The inductive invariant holds of every behaviour of the cards.
THEOREM FoldInvariant == Spec => []IInv
  BY InitIInv, NextKeeps, PTL DEF Spec

\* The variables keep their types.
THEOREM FoldTypes == Spec => []TypeOK
<1>1. IInv => TypeOK
  BY DEF IInv
<1> QED
  BY <1>1, FoldInvariant, PTL

\* Up to its watermark a card has folded the latest version of every Memory
\* about its owner, unless a merge has overtaken it; the user's card, once an import
\* has replaced it, every Memory written since. The optimistic check of the apply_*
\* methods is enough against every other write, and against an import.
THEOREM NothingLostInFolds == Spec => []FoldedUnlessOvertaken
<1>1. IInv => FoldedUnlessOvertaken
  BY DEF IInv
<1> QED
  BY <1>1, FoldInvariant, PTL

\* No watermark is ahead of the Memories, so no card is stale for ever.
THEOREM CardsNeverAhead == Spec => []NeverAhead
<1>1. IInv => NeverAhead
  BY DEF IInv
<1> QED
  BY <1>1, FoldInvariant, PTL

\* merge_person leaves Relationship rows between two active people, one per
\* pair, and no link to what is gone.
THEOREM MergesKeepRowsSound == Spec => []RelationsWellFormed
<1>1. IInv => RelationsWellFormed
  <2> SUFFICES ASSUME IInv PROVE RelationsWellFormed
    OBVIOUS
  <2>1. ASSUME NEW r \in Relations, ends[r] # {}
        PROVE  Cardinality(ends[r]) = 2 /\ ends[r] \subseteq Active
    <3>1. PICK a, b \in Active : a # b /\ ends[r] = {a, b}
      BY <2>1 DEF IInv, PairsSound
    <3>2. IsFiniteSet({a}) /\ Cardinality({a}) = 1
      BY FS_Singleton
    <3>3. Cardinality({a} \cup {b}) = Cardinality({a}) + 1
      BY <3>1, <3>2, FS_AddElement
    <3>4. {a} \cup {b} = {a, b}
      OBVIOUS
    <3> QED
      BY <3>1, <3>2, <3>3, <3>4
  <2>2. \A q, r \in Relations : ends[r] # {} /\ ends[q] = ends[r] => q = r
    BY DEF IInv, PairsSound
  <2> QED
    BY <2>1, <2>2 DEF RelationsWellFormed, IInv, LinksSound
<1> QED
  BY <1>1, FoldInvariant, PTL

\* What a step other than a merge does to the links of a row: it keeps them.
LEMMA LinksKept ==
    ASSUME IInv, NEW m \in Memories, NEW r \in Relations, <<m, r>> \in links,
           [Next]_vars, ~ \E s, t \in People : Merge(s, t)
    PROVE  <<m, r>> \in links' /\ ends'[r] = ends[r]
<1>1. r <= created /\ created \in Nat /\ r \in Nat
  <2>1. Exists(r)
    BY DEF IInv, LinksSound
  <2>2. created \in Nat /\ r \in Nat
    BY Kinds DEF IInv, TypeOK
  <2> QED
    BY <2>1, <2>2, RowThere DEF IInv
<1>2. ASSUME NEW to, NEW old, Insert(to, old) PROVE links \subseteq links'
  BY <1>2 DEF Insert
<1>3. ASSUME NEW S \in Subjects, AddManual(S) PROVE links \subseteq links' /\ ends' = ends
  BY <1>2, <1>3 DEF AddManual
<1>4. ASSUME NEW S \in Subjects, NEW old \in Replaceable, Extract(S, old)
      PROVE  links \subseteq links' /\ ends' = ends
  BY <1>2, <1>4 DEF Extract
<1>5. ASSUME NEW S \in Subjects, NEW old \in Replaceable, NEW pair \in Pairs,
             ExtractRelated(S, pair, old)
      PROVE  links \subseteq links' /\ ends'[r] = ends[r]
  <2>1. links \subseteq links'
    BY <1>2, <1>5 DEF ExtractRelated
  <2>2. ends' = ends \/ ends' = [ends EXCEPT ![created + 1] = pair]
    BY <1>5 DEF ExtractRelated
  <2>3. ends'[r] = ends[r]
    BY <1>1, <2>2 DEF IInv, TypeOK
  <2> QED
    BY <2>1, <2>3
<1>6. ASSUME NEW n \in Memories, NEW about \in {{}, {User}}, Supersede(n, about)
      PROVE  links \subseteq links' /\ ends' = ends
  BY <1>2, <1>6 DEF Supersede
<1>7. ASSUME NEW n \in Memories, Retract(n) PROVE links' = links /\ ends' = ends
  BY <1>7 DEF Retract
<1>8. CASE Induct \/ Commit \/ Fail \/ Finish \/ OverwriteReads \/ Overwrite \/ UNCHANGED vars
  BY <1>8 DEF Induct, Commit, Fail, Finish, OverwriteReads, Overwrite, vars
<1> QED
  BY <1>3, <1>4, <1>5, <1>6, <1>7, <1>8 DEF Next

\* And a merge: it keeps them, moves them to the row of the same two people, or
\* makes the two people one.
LEMMA LinksMoved ==
    ASSUME IInv, NEW m \in Memories, NEW r \in Relations, <<m, r>> \in links,
           NEW s \in People, NEW t \in People, Merge(s, t)
    PROVE  StillRelates(m, r)
<1>1. r # s /\ ends[r] # {}
  BY Kinds, ExistsOf DEF IInv, LinksSound
<1>2. CASE s \notin ends[r]
  <2>1. <<m, r>> \in links' /\ ends'[r] = ends[r]
    BY <1>1, <1>2, RowsAfter, LinksAfter
  <2> QED
    BY <2>1 DEF StillRelates
<1>3. CASE s \in ends[r] /\ t \in ends[r]
  <2>1. ends[r] = {s, t}
    <3>1. PICK a, b \in Active : a # b /\ ends[r] = {a, b}
      BY <1>1 DEF IInv, PairsSound
    <3> QED
      BY <1>3, <3>1, ActiveAfter
  <2> QED
    BY <2>1 DEF StillRelates
<1>4. CASE s \in ends[r] /\ t \notin ends[r] /\ r \notin Dropped(s, t)
  <2>1. <<m, r>> \in links' /\ ends'[r] = Renamed(r, s, t)
    BY <1>1, <1>4, RowsAfter, LinksAfter DEF Renamed
  <2> QED
    BY <2>1 DEF StillRelates
<1>5. CASE s \in ends[r] /\ t \notin ends[r] /\ r \in Dropped(s, t)
  <2>1. PICK e \in Twins(r, s, t) : TRUE
    BY <1>5 DEF Dropped
  <2>2. <<m, e>> \in links'
    BY <1>5, LinksAfter
  <2>3. e \in Relations /\ ends'[e] = Renamed(r, s, t)
    BY <1>5, TwinStays DEF Renamed
  <2> QED
    BY <2>2, <2>3 DEF StillRelates
<1> QED
  BY <1>2, <1>3, <1>4, <1>5

\* No Memory of a Relationship is lost when people are merged.
THEOREM MergesKeepEvidence == Spec => EvidenceKept
<1>1. IInv /\ [Next]_vars =>
         [\A m \in Memories, r \in Relations : <<m, r>> \in links => StillRelates(m, r)]_vars
  <2> SUFFICES ASSUME IInv, [Next]_vars, NEW m \in Memories, NEW r \in Relations, <<m, r>> \in links
               PROVE  StillRelates(m, r)
    OBVIOUS
  <2>1. CASE \E s, t \in People : Merge(s, t)
    BY <2>1, LinksMoved
  <2>2. CASE ~ \E s, t \in People : Merge(s, t)
    BY <2>2, LinksKept DEF StillRelates
  <2> QED
    BY <2>1, <2>2
<1> QED
  BY <1>1, FoldInvariant, PTL DEF Spec, EvidenceKept
=============================================================================
