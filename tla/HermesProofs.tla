---------------------------- MODULE HermesProofs ----------------------------
(***************************************************************************)
(* Proofs about the plugin, for any conversations, spaces, turns and       *)
(* mishaps: the types, that a user message is recorded once, that an       *)
(* answer is recorded with its user message and after the answers before   *)
(* it, that a turn renders the context its space had when the server       *)
(* answered, and that no bundle of a foreign space is held; each with the  *)
(* exception its property names.                                           *)
(*                                                                         *)
(* None of them is inductive. What keeps a message from being recorded     *)
(* twice is where its keys may be: a key is issued when it is in a log, in *)
(* a request that was given up, with a writer, in a queue, or with a       *)
(* prefetch that was sent. Of the two keys a user message may have only    *)
(* one is ever issued (KeysOnce); the messages of an undisturbed turn are  *)
(* on their way to one space, through one queue (KeysLocated); and there   *)
(* the server compares keys (LogOnce). The slot is why an answer may go    *)
(* alone: what it says is stored is in the log (MessagesProven), and it is *)
(* not the slot of a disturbed turn (SlotsSound). Order goes from the      *)
(* queue through its one writer to the log (OrderSound). A bundle is       *)
(* followed from its request, which belongs to the client it was sent      *)
(* with; between the clearing of the provider and the replacement of its   *)
(* client there is none (SpacesSound). That the writers never run out of   *)
(* places rests on counting: an initialisation is paid for by a session    *)
(* that was started or finalized (Budget).                                 *)
(***************************************************************************)
EXTENDS Hermes, FiniteSetTheorems, SequenceTheorems, TLAPS

\* The initialisations there can still be: one for each that is under way, one for
\* each session about to be finalized, and one for a provider that has no client
\* and whose hooks are not making it one.
Owing  == {s \in Sessions : stage[s] = "closing" \/ making[s] # "none"}
Lazily == \E s \in Sessions : stage[s] \in {"preparing", "answering"} /\ making[s] = "cleared"
Spare  == IF client = None /\ ~ Lazily THEN 1 ELSE 0
Budget == IsFiniteSet(Owing) /\ inits + Cardinality(Owing) + Spare <= events + 1

\* A version counts changes.
Versions == \A sp \in Spaces : version[sp] <= events

\* A conversation that is in a turn is in its last one. While a turn is
\* undisturbed there is a client.
InTurn(s) == stage[s] \in {"stable", "join", "asked", "answering"}

TurnsSound ==
    /\ \A s \in Sessions :
         /\ TurnOf(s) \in 0..Len(turns)
         /\ TurnOf(s) # 0 => turns[TurnOf(s)].session = s
         /\ InTurn(s) => TurnOf(s) # 0
         /\ \A t \in DOMAIN turns : turns[t].session = s => t <= TurnOf(s)
    /\ hurt < Len(turns) => client # None

\* A turn that is undisturbed has not come upon the slot of one that is not.
SlotsSound ==
    \A s \in Sessions :
        (InTurn(s) /\ stage[s] # "stable" /\ TurnOf(s) > hurt /\ Matches(slot[s], TurnOf(s)))
            => slot[s].key > hurt

\* A request that was made under a key.
Asked(t) == t \in DOMAIN turns /\ fetches[t].phase \in {"sent", "served", "ended"}

FetchesSound ==
    /\ \A t \in Turns \ DOMAIN turns : fetches[t].phase = "none"
    /\ \A s \in Sessions : stage[s] = "stable" => fetches[TurnOf(s)].phase = "none"
    /\ \A s \in Sessions : slot[s] # None =>
         /\ Asked(slot[s].key)
         /\ turns[slot[s].key] = [session |-> s, text |-> slot[s].text]
    /\ \A t \in Turns :
         /\ fetches[t].phase = "wait" => Asked(fetches[t].on)
         /\ fetches[t].phase \in {"sent", "served"} => fetches[t].space \in Spaces
         /\ fetches[t].phase \in {"none", "sent", "wait"} =>
              fetches[t].now = None /\ fetches[t].update = None
         /\ fetches[t].phase = "served" /\ fetches[t].now # None =>
              Shown(fetches[t]) = fetches[t].now
         /\ fetches[t].phase = "ended" /\ fetches[t].now # None =>
              fetches[t].update = fetches[t].now

\* A bundle of the space sp, or none.
Of(b, sp) == b # None => b[1] = sp

\* What the request f brings is of the space sp, when it is of initialisation g.
AnswerOf(f, sp, g) ==
    /\ (f.phase \in {"sent", "served"} /\ f.gen = g) => f.space = sp /\ Of(f.cached, sp) /\ Of(f.update, sp)
    /\ f.phase = "ended" => Of(f.update, sp)

\* What a provider has in hand, or will accept, is of the client's space; one that
\* was cleared has nothing in hand until the client is replaced.
SpacesSound ==
    /\ \A t \in Turns : fetches[t].gen <= clients
    /\ \A s \in Sessions : stable[s].gen <= clients
    /\ (~ crossed /\ client # None) =>
         /\ Of(bundle, client)
         /\ \A s \in Sessions :
              /\ Of(cache[s], client)
              /\ stable[s].gen = clients => Of(stable[s].bundle, client)
              /\ slot[s] # None => AnswerOf(fetches[slot[s].key], client, clients)
         /\ \A t \in Turns :
              /\ fetches[t].phase \in {"sent", "served"} => AnswerOf(fetches[t], client, clients)
              /\ (fetches[t].phase = "wait" /\ fetches[t].gen = clients) =>
                   AnswerOf(fetches[fetches[t].on], client, clients)
    /\ (~ crossed /\ Replacing) =>
         /\ bundle = None
         /\ \A s \in Sessions :
              /\ cache[s] = None
              /\ (slot[s] # None /\ fetches[slot[s].key].phase = "ended") =>
                   fetches[slot[s].key].update = None

\* The messages that are in the space sp or on their way there, and those that
\* wait in a queue.
Logged(sp, key) == \E i \in DOMAIN log[sp] : log[sp][i] = key
Writing(w, key) == /\ writers[w].phase = "sent"
                   /\ \E i \in DOMAIN writers[w].batch.items : writers[w].batch.items[i] = key
Queued(g, key)  == \E i \in DOMAIN queues[g] : \E j \in DOMAIN queues[g][i].items :
                     queues[g][i].items[j] = key
Bound(sp, key) ==
    \/ Logged(sp, key)
    \/ \E r \in wire : r.space = sp /\ \E i \in DOMAIN r.items : r.items[i] = key
    \/ \E w \in Writers : writers[w].space = sp /\ Writing(w, key)
    \/ \E t \in Turns : fetches[t].phase = "sent" /\ fetches[t].space = sp /\ key = PrefetchKey(t)

Issued(key) == (\E sp \in Spaces : Bound(sp, key)) \/ (\E g \in Writers : Queued(g, key))

\* The messages of undisturbed turns are all on their way to the client's space,
\* through the present queue.
KeysLocated ==
    \A key \in Keys : key[2] > hurt =>
        /\ \A sp \in Spaces : Bound(sp, key) => sp = client
        /\ \A g \in Writers : Queued(g, key) => g = queue
        /\ \A w \in Writers : Writing(w, key) => writers[w].queue = queue

\* The turns that keys name have begun.
KeysBegun == \A key \in Keys : Issued(key) => key[2] \in DOMAIN turns

\* A user message has one key. The slot settles which, from the prefetch to
\* the end of the turn.
KeysOnce ==
    /\ KeysBegun
    /\ \A s \in Sessions, t \in Turns : (InTurn(s) /\ t = TurnOf(s)) =>
         /\ ~ Issued(AnswerKey(t)) /\ ~ Issued(FreshKey(t))
         /\ stage[s] = "stable" => ~ Issued(PrefetchKey(t))
         /\ (t > hurt /\ ~ Matches(slot[s], t)) => ~ Issued(PrefetchKey(t))
    /\ \A s \in Sessions, t \in Turns : (slot[s] # None /\ slot[s].key = t) => ~ Issued(FreshKey(t))
    /\ \A t \in Turns : t > hurt => ~ (Issued(PrefetchKey(t)) /\ Issued(FreshKey(t)))

LogOnce ==
    \A sp \in Spaces : \A i, j \in DOMAIN log[sp] : log[sp][i] = log[sp][j] => i = j

\* The user message of turn t, under the key of the turn that made it.
UserKeyOf(key, t) ==
    \E u \in 1..t : key \in {PrefetchKey(u), FreshKey(u)} /\ turns[u] = turns[t]

\* An answer goes without its user message when that is in the log already.
Accompanied(items, t) ==
    /\ Len(items) = 2 => UserKeyOf(items[1], t)
    /\ (items[1] = AnswerKey(t) /\ t > hurt) =>
          \E sp \in Spaces, key \in UserKeys : sp = client /\ UserKeyOf(key, t) /\ Logged(sp, key)

\* A batch that is queued or being written.
Pending(b) == \/ \E g \in Writers : \E i \in DOMAIN queues[g] : queues[g][i] = b
              \/ \E w \in Writers : writers[w].phase = "sent" /\ writers[w].batch = b

MessagesProven ==
    /\ \A t \in Turns, sp \in Spaces :
         (fetches[t].phase = "served" /\ fetches[t].space = sp) => Logged(sp, PrefetchKey(t))
    /\ \A s \in Sessions, t \in Turns : (slot[s] # None /\ slot[s].key = t /\ t > hurt) =>
         /\ fetches[t].phase \in {"sent", "served"} => fetches[t].space = client
         /\ \A sp \in Spaces : (slot[s].persisted /\ sp = client) => Logged(sp, PrefetchKey(t))
    /\ \A b \in TurnBatches : Pending(b) => Accompanied(b.items, b.turn)
    /\ \A r \in wire : \A t \in Turns : r.items \in Answers(t) => Accompanied(r.items, t)
    /\ AnswerAloneOnlyIfDisturbed

\* Turn u comes after turn t, if both are undisturbed turns of one conversation.
Later(t, u) ==
    (/\ t \in DOMAIN turns /\ u \in DOMAIN turns
     /\ turns[t].session = turns[u].session /\ t > hurt /\ u > hurt) => t < u

\* The turns that wait in the queue g, in which order, and those that are written.
WaitsIn(g, t) == \E i \in DOMAIN queues[g] : queues[g][i].turn = t
Waits(t)      == \E g \in Writers : WaitsIn(g, t)
WaitsBefore(t, u) ==
    \E g \in Writers : \E i, j \in DOMAIN queues[g] :
        i < j /\ queues[g][i].turn = t /\ queues[g][j].turn = u
WrittenBy(w, t) == writers[w].phase = "sent" /\ writers[w].batch.turn = t
IsWritten(t)    == \E w \in Writers : WrittenBy(w, t)

\* The present queue has one writer.
OneWriter ==
    queue # 0 => \A v, w \in Writers :
        (/\ writers[v].phase # "gone" /\ writers[v].queue = queue
         /\ writers[w].phase # "gone" /\ writers[w].queue = queue) => v = w

\* The turns are in order from the queue through the writer to the log.
OrderSound ==
    /\ \A w \in Writers : writers[w].queue <= inits
    /\ \A r \in wire : \A t \in Turns : r.items \in Answers(t) => t \in failed
    /\ \A t, u \in Turns : WaitsBefore(t, u) => Later(t, u)
    /\ ~ crowded =>
         /\ OneWriter
         /\ \A t, u \in Turns : (IsWritten(t) /\ Waits(u)) => Later(t, u)
         /\ \A t \in Turns \ failed, u \in Turns :
              (Answered(t) /\ (Waits(u) \/ IsWritten(u))) => Later(t, u)
    /\ InOrderUnlessDisturbed

\* The inductive invariant.
IInv ==
    /\ TypeOK /\ Budget /\ Versions
    /\ TurnsSound /\ SlotsSound /\ FetchesSound /\ SpacesSound
    /\ KeysLocated /\ KeysOnce /\ LogOnce
    /\ MessagesProven /\ OrderSound

-----------------------------------------------------------------------------
(* What the values are made of. *)

\* The bounds are numbers, and None is none of the values.
LEMMA Kinds ==
    /\ MaxTurns \in Nat /\ MaxEvents \in Nat
    /\ 0 \notin Writers /\ 0 \notin Turns
    /\ None \notin Spaces /\ None \notin Bundles /\ None \notin Slots /\ None \notin Sessions
    /\ Home \in Spaces
  BY HermesAssumption DEF Writers, Turns

\* The three keys of a turn are different, and no other turn's.
LEMMA KeysDistinct ==
    /\ \A t : /\ PrefetchKey(t) # FreshKey(t) /\ PrefetchKey(t)[2] = t
             /\ FreshKey(t)[2] = t /\ AnswerKey(t)[2] = t
    /\ \A t, u : /\ PrefetchKey(t) # AnswerKey(u) /\ FreshKey(t) # AnswerKey(u)
                /\ PrefetchKey(t) # FreshKey(u)
                /\ (PrefetchKey(t) = PrefetchKey(u) \/ FreshKey(t) = FreshKey(u)
                    \/ AnswerKey(t) = AnswerKey(u)) => t = u
    /\ \A t \in Turns : {PrefetchKey(t), FreshKey(t), AnswerKey(t)} \subseteq Keys
    /\ \A t \in Turns : {PrefetchKey(t), FreshKey(t)} \subseteq UserKeys
    /\ UserKeys \subseteq Keys
    /\ \A key \in UserKeys, t \in Turns : key # AnswerKey(t)
  BY DEF PrefetchKey, FreshKey, AnswerKey, Keys, UserKeys

\* The messages of a turn that was answered.
LEMMA AnswersAre ==
    ASSUME NEW t \in Turns, NEW items \in Answers(t)
    PROVE  /\ items \in Seq(Keys) /\ Len(items) \in {1, 2} /\ DOMAIN items = 1..Len(items)
           /\ items[Len(items)] = AnswerKey(t)
           /\ Len(items) = 2 => items[1] \in UserKeys
<1>1. AnswerKey(t) \in Keys
  BY KeysDistinct
<1>2. CASE items = <<AnswerKey(t)>>
  BY <1>1, <1>2
<1>3. ASSUME NEW key \in UserKeys, items = <<key, AnswerKey(t)>>
      PROVE  /\ items \in Seq(Keys) /\ Len(items) = 2 /\ DOMAIN items = 1..Len(items)
             /\ items[2] = AnswerKey(t) /\ items[1] \in UserKeys
  BY <1>1, <1>3, KeysDistinct
<1> QED BY <1>2, <1>3 DEF Answers

\* A batch is a turn with its messages; the one that ends a writer is no turn.
LEMMA BatchesAre ==
    /\ \A t \in Turns : \A items \in Answers(t) : Batch(t, items) \in TurnBatches
    /\ \A b \in TurnBatches : /\ b # Stop /\ b.turn \in Turns /\ b.items \in Answers(b.turn)
                             /\ b = Batch(b.turn, b.items)
    /\ Stop.turn = 0 /\ Stop.items = <<>> /\ Stop \notin TurnBatches
<1>1. ASSUME NEW b \in TurnBatches
      PROVE  /\ b.turn \in Turns /\ b.items \in Answers(b.turn)
             /\ b = Batch(b.turn, b.items)
  <2>1. PICK t \in Turns : \E items \in Answers(t) : b = Batch(t, items)
    BY DEF TurnBatches
  <2> QED BY <2>1 DEF Batch
<1>2. Stop.turn = 0 /\ Stop.items = <<>>
  BY DEF Stop, Batch
<1>3. Stop \notin TurnBatches
  BY <1>1, <1>2, Kinds
<1> QED BY <1>1, <1>2, <1>3 DEF TurnBatches

\* new is old with the key, at the end unless it was there.
IsAdded(old, key, new) ==
    /\ new \in Seq(Keys)
    /\ Len(new) \in {Len(old), Len(old) + 1}
    /\ \A i \in 1..Len(old) : new[i] = old[i]
    /\ Len(new) = Len(old) + 1 => new[Len(old) + 1] = key /\ \A i \in 1..Len(old) : old[i] # key
    /\ \E i \in 1..Len(new) : new[i] = key

\* Adding a message changes a log as IsAdded says.
LEMMA AddedIs ==
    ASSUME NEW old \in Seq(Keys), NEW key \in Keys
    PROVE  IsAdded(old, key, Added(old, key))
<1>1. DOMAIN old = 1..Len(old) /\ Len(old) \in Nat
  OBVIOUS
<1>2. CASE \E j \in DOMAIN old : old[j] = key
  <2>1. Added(old, key) = old
    BY <1>2 DEF Added
  <2>2. \E i \in 1..Len(old) : old[i] = key
    BY <1>1, <1>2
  <2>3. ASSUME NEW n \in Nat PROVE n # n + 1
    OBVIOUS
  <2>4. Len(old) # Len(old) + 1
    BY <1>1, <2>3
  <2>5. IsAdded(old, key, old)
    BY <2>2, <2>4 DEF IsAdded
  <2> QED BY <2>1, <2>5
<1>3. CASE ~ \E j \in DOMAIN old : old[j] = key
  <2> DEFINE new == Append(old, key)
  <2>1. Added(old, key) = new
    BY <1>3 DEF Added
  <2>2. /\ new \in Seq(Keys) /\ Len(new) = Len(old) + 1
        /\ \A i \in 1..Len(old) : new[i] = old[i]
        /\ new[Len(old) + 1] = key
    BY AppendProperties
  <2>3. Len(old) + 1 \in 1..(Len(old) + 1)
    BY <1>1
  <2> HIDE DEF new
  <2>4. IsAdded(old, key, new)
    BY <1>1, <1>3, <2>2, <2>3 DEF IsAdded
  <2> QED BY <2>1, <2>4
<1> QED BY <1>2, <1>3

\* new is old with the messages that are not there yet, each once and in order.
IsRecorded(old, items, new) ==
    /\ new \in Seq(Keys) /\ Len(old) <= Len(new)
    /\ \A i \in 1..Len(old) : new[i] = old[i]
    /\ \A i \in (Len(old) + 1)..Len(new) :
          /\ \E j \in 1..Len(items) : new[i] = items[j]
          /\ \A j \in 1..(i - 1) : new[j] # new[i]
          /\ (Len(items) = 2 /\ new[i] # items[1]) => \E j \in 1..(i - 1) : new[j] = items[1]
    /\ \A j \in 1..Len(items) : \E i \in 1..Len(new) : new[i] = items[j]

\* Recording a request changes a log as IsRecorded says.
LEMMA RecordedIs ==
    ASSUME NEW old \in Seq(Keys), NEW items \in Seq(Keys), Len(items) \in {1, 2}
    PROVE  IsRecorded(old, items, Recorded(old, items))
<1> DEFINE one == Added(old, items[1])
           two == Added(one, items[2])
           n == Len(old)
<1>0. n \in Nat
  OBVIOUS
<1>1. IsAdded(old, items[1], one)
  <2>1. items[1] \in Keys
    OBVIOUS
  <2> QED BY <2>1, AddedIs
<1>2. CASE Len(items) = 1
  <2>1. Recorded(old, items) = one
    BY <1>2 DEF Recorded
  <2> HIDE DEF one
  <2>2. ASSUME NEW i \in (n + 1)..Len(one)
        PROVE  one[i] = items[1] /\ \A j \in 1..(i - 1) : one[j] # one[i]
    <3>1. i = n + 1 /\ Len(one) = n + 1 /\ i - 1 = n
      BY <1>0, <1>1 DEF IsAdded
    <3> QED BY <1>0, <1>1, <3>1 DEF IsAdded
  <2>3. one \in Seq(Keys) /\ n <= Len(one)
    BY <1>0, <1>1 DEF IsAdded
  <2>4. IsRecorded(old, items, one)
    BY <1>1, <1>2, <2>2, <2>3 DEF IsRecorded, IsAdded
  <2> QED BY <2>1, <2>4
<1>3. CASE Len(items) = 2
  <2>1. Recorded(old, items) = two
    BY <1>3 DEF Recorded
  <2> DEFINE m == Len(one)
  <2>2. IsAdded(one, items[2], two)
    <3>1. 2 \in 1..Len(items)
      BY <1>3
    <3>2. items[2] \in Keys
      BY <3>1, ElementOfSeq
    <3>3. one \in Seq(Keys)
      BY <1>1 DEF IsAdded
    <3> HIDE DEF one
    <3> QED BY <3>2, <3>3, AddedIs
  <2> HIDE DEF one, two
  <2>3. m \in {n, n + 1} /\ m \in Nat /\ n <= m /\ m <= Len(two)
    BY <1>0, <1>1, <2>2 DEF IsAdded
  <2>4. \A i \in 1..n : two[i] = old[i]
    BY <1>0, <1>1, <2>2, <2>3 DEF IsAdded
  <2>5. \E i \in 1..m : two[i] = items[1]
    BY <1>1, <2>2 DEF IsAdded
  <2>6. ASSUME NEW i \in (n + 1)..Len(two)
        PROVE  /\ two[i] = items[1] \/ two[i] = items[2]
               /\ \A j \in 1..(i - 1) : two[j] # two[i]
               /\ two[i] # items[1] => \E j \in 1..(i - 1) : two[j] = items[1]
    <3>1. CASE i = m + 1
      <4>1. Len(two) = m + 1 /\ two[i] = items[2] /\ \A j \in 1..m : two[j] # items[2]
        BY <2>2, <2>3, <3>1 DEF IsAdded
      <4>2. i - 1 = m
        BY <2>3, <3>1
      <4> QED BY <2>5, <4>1, <4>2
    <3>2. CASE i # m + 1
      <4>1. i = n + 1 /\ m = n + 1
        BY <1>0, <2>2, <2>3, <3>2 DEF IsAdded
      <4>2. two[i] = items[1] /\ \A j \in 1..n : two[j] # items[1]
        BY <1>0, <1>1, <2>2, <2>4, <4>1 DEF IsAdded
      <4>3. i - 1 = n
        BY <1>0, <4>1
      <4> QED BY <4>2, <4>3
    <3> QED BY <3>1, <3>2
  <2>7. n <= Len(two) /\ two \in Seq(Keys) /\ \E i \in 1..Len(two) : two[i] = items[1]
    BY <1>0, <2>2, <2>3, <2>5 DEF IsAdded
  <2>8. \A j \in 1..Len(items) : j = 1 \/ j = 2
    BY <1>3
  <2>9. 1 \in 1..Len(items) /\ 2 \in 1..Len(items)
    BY <1>3
  <2>10. \E i \in 1..Len(two) : two[i] = items[2]
    BY <2>2 DEF IsAdded
  <2>11. IsRecorded(old, items, two)
    BY <2>4, <2>6, <2>7, <2>8, <2>9, <2>10 DEF IsRecorded
  <2> QED BY <2>1, <2>11
<1> QED BY <1>2, <1>3

-----------------------------------------------------------------------------
(* The turn a conversation is at. *)

\* The turns that have begun are the first numbers of Turns.
LEMMA TurnsTyped ==
    ASSUME TypeOK
    PROVE  /\ Len(turns) \in Nat /\ DOMAIN turns = 1..Len(turns) /\ DOMAIN turns \subseteq Turns
           /\ \A t \in DOMAIN turns : turns[t].session \in Sessions /\ turns[t].text \in Turns
           /\ \A t \in DOMAIN turns : turns[t] \in [session : Sessions, text : Turns]
<1>1. turns \in Seq([session : Sessions, text : Turns]) /\ Len(turns) <= MaxTurns
  BY DEF TypeOK
<1>2. Len(turns) \in Nat /\ DOMAIN turns = 1..Len(turns)
  BY <1>1, LenProperties
<1>3. \A t \in DOMAIN turns : turns[t] \in [session : Sessions, text : Turns]
  BY <1>1, <1>2, ElementOfSeq
<1> QED BY <1>1, <1>2, <1>3, Kinds DEF Turns

\* A step that begins no turn leaves every conversation at its own.
LEMMA TurnOfSame ==
    ASSUME turns' = turns PROVE \A s : TurnOf(s)' = TurnOf(s)
  BY DEF TurnOf

\* A turn that begins is the last of its conversation, and none of another.
LEMMA TurnOfBegun ==
    ASSUME TypeOK, NEW s \in Sessions, NEW x, turns' = Append(turns, [session |-> s, text |-> x])
    PROVE  /\ DOMAIN turns' = 1..(Len(turns) + 1) /\ DOMAIN turns = 1..Len(turns)
           /\ Len(turns') = Len(turns) + 1
           /\ \A t \in DOMAIN turns : turns'[t] = turns[t]
           /\ turns'[Len(turns) + 1] = [session |-> s, text |-> x]
           /\ \A r \in Sessions \ {s} : TurnOf(r)' = TurnOf(r)
           /\ TurnOf(s)' = Len(turns) + 1
<1> DEFINE n == Len(turns)
<1>1. n \in Nat /\ DOMAIN turns = 1..n
  BY DEF TypeOK
<1>2. /\ DOMAIN turns' = 1..(n + 1) /\ Len(turns') = n + 1
      /\ \A t \in 1..n : turns'[t] = turns[t]
      /\ turns'[n + 1] = [session |-> s, text |-> x]
  BY <1>1 DEF TypeOK
<1>3. ASSUME NEW r \in Sessions \ {s} PROVE TurnOf(r)' = TurnOf(r)
  <2>1. {t \in DOMAIN turns' : turns'[t].session = r} = {t \in DOMAIN turns : turns[t].session = r}
    BY <1>1, <1>2
  <2> QED BY <2>1 DEF TurnOf
<1>4. TurnOf(s)' = n + 1
  <2> DEFINE S == {0} \cup {t \in DOMAIN turns' : turns'[t].session = s}
  <2>1. n + 1 \in S /\ \A t \in S : t <= n + 1 /\ t \in Nat
    BY <1>1, <1>2
  <2>2. TurnOf(s)' = Max(S)
    BY DEF TurnOf
  <2> HIDE DEF S
  <2>3. Max(S) \in S /\ \A t \in S : t <= Max(S)
    BY <2>1 DEF Max
  <2>4. n + 1 <= Max(S) /\ Max(S) <= n + 1 /\ Max(S) \in Nat
    BY <2>1, <2>3
  <2> QED BY <1>1, <2>2, <2>4
<1> QED BY <1>1, <1>2, <1>3, <1>4

-----------------------------------------------------------------------------
(* What an initialisation may still be. *)

\* An initialisation that is under way finds a writer that was not used: each one before
\* it was paid for by an event.
LEMMA InitsBounded ==
    ASSUME TypeOK, Budget
    PROVE  /\ inits <= MaxEvents + 1
           /\ \A s \in Sessions : making[s] # "none" => inits + 1 \in Writers
           /\ Cardinality(Owing) \in Nat /\ Spare \in {0, 1}
           /\ inits \in Nat /\ events \in 0..MaxEvents
<1>1. Cardinality(Owing) \in Nat /\ Spare \in {0, 1}
  BY FS_CardinalityType DEF Budget, Spare
<1>2. inits \in Nat /\ events \in 0..MaxEvents /\ MaxEvents \in Nat
  BY Kinds DEF TypeOK, Writers
<1>3. inits + Cardinality(Owing) + Spare <= events + 1
  BY DEF Budget
<1>4. ASSUME NEW s \in Sessions, making[s] # "none" PROVE Cardinality(Owing) # 0
  <2>1. s \in Owing
    BY <1>4 DEF Owing
  <2> QED BY <2>1, FS_EmptySet DEF Budget
<1> QED BY <1>1, <1>2, <1>3, <1>4 DEF Writers

\* A conversation is only in initialize in three hooks.
LEMMA MakingIn ==
    ASSUME TypeOK, NEW s \in Sessions,
           stage[s] \in {"idle", "stable", "join", "asked", "closing"}
    PROVE  making[s] = "none"
  BY DEF TypeOK, Initializing

\* A conversation that is in no initialisation, and is not finalized, goes on.
LEMMA StageMove ==
    ASSUME TypeOK, NEW s \in Sessions, NEW to, making[s] = "none",
           stage[s] # "closing", to # "closing",
           stage' = [stage EXCEPT ![s] = to], UNCHANGED <<making, client>>
    PROVE  Owing' = Owing /\ Spare' = Spare
<1>1. \A r \in Sessions \ {s} : stage'[r] = stage[r]
  BY DEF TypeOK
<1>2. stage'[s] = to
  BY DEF TypeOK
<1>3. Owing' = Owing
  BY <1>1, <1>2 DEF Owing
<1>4. Lazily' = Lazily
  BY <1>1, <1>2 DEF Lazily
<1> QED BY <1>3, <1>4 DEF Spare

\* A delivered context ends the wait of its own turn, or changes no stage.
LEMMA DeliverStage ==
    ASSUME TypeOK, NEW t \in DOMAIN turns, NEW b, Deliver(t, b)
    PROVE  /\ turns[t].session \in Sessions
           /\ \/ stage' = stage
              \/ /\ stage[turns[t].session] = "join" /\ TurnOf(turns[t].session) = t
                 /\ stage' = [stage EXCEPT ![turns[t].session] = "asked"]
<1>1. turns[t].session \in Sessions
  BY TurnsTyped
<1> DEFINE r == turns[t].session
<1>2. CASE stage[r] = "join" /\ TurnOf(r) = t
  BY <1>1, <1>2 DEF Deliver
<1>3. CASE ~ (stage[r] = "join" /\ TurnOf(r) = t)
  BY <1>1, <1>3 DEF Deliver
<1> QED BY <1>2, <1>3

\* Every initialisation uses up a session that was started or finalized.
LEMMA BudgetKept ==
    ASSUME TypeOK, Budget, [Next]_vars PROVE Budget'
<1>a. /\ inits \in Nat /\ events \in 0..MaxEvents /\ Cardinality(Owing) \in Nat /\ Spare \in {0, 1}
  BY InitsBounded
<1>b. /\ IsFiniteSet(Owing) /\ inits + Cardinality(Owing) + Spare <= events + 1
      /\ stage \in [Sessions -> Stages] /\ making \in [Sessions -> {"none", "cleared", "built"}]
  BY DEF Budget, TypeOK
<1>0. /\ inits \in Nat /\ events \in Nat /\ Cardinality(Owing) \in Nat /\ IsFiniteSet(Owing)
      /\ Spare \in {0, 1} /\ inits + Cardinality(Owing) + Spare <= events + 1
      /\ stage \in [Sessions -> Stages] /\ making \in [Sessions -> {"none", "cleared", "built"}]
  BY <1>a, <1>b, Kinds
<1>1. ASSUME Owing' = Owing, Spare' = Spare, inits' = inits, events' \in {events, events + 1}
      PROVE  Budget'
  BY <1>0, <1>1 DEF Budget
<1>2. ASSUME UNCHANGED <<stage, making, client, inits>>, events' \in {events, events + 1} PROVE Budget'
  <2>1. Owing' = Owing /\ Spare' = Spare
    BY <1>2 DEF Owing, Spare, Lazily
  <2> QED BY <1>1, <1>2, <2>1
<1>3. ASSUME NEW s \in Sessions, NEW to, making[s] = "none", stage[s] # "closing", to # "closing",
             stage' = [stage EXCEPT ![s] = to], UNCHANGED <<making, client, inits>>,
             events' \in {events, events + 1}
      PROVE  Budget'
  BY <1>1, <1>3, StageMove
<1>4. ASSUME NEW s \in Sessions, SessionStart(s) PROVE Budget'
  <2>1. /\ stage[s] = "idle" /\ stage' = [stage EXCEPT ![s] = "starting"]
        /\ making' = [making EXCEPT ![s] = "cleared"]
        /\ UNCHANGED <<client, inits>> /\ events' = events + 1
    BY <1>4 DEF SessionStart, Clear, clientVars, Event
  <2>2. Owing' = Owing \cup {s} /\ s \notin Owing
    BY <1>0, <2>1, MakingIn DEF Owing
  <2>3. Lazily' = Lazily
    BY <1>0, <2>1 DEF Lazily
  <2>4. IsFiniteSet(Owing') /\ Cardinality(Owing') = Cardinality(Owing) + 1
    BY <1>0, <2>2, FS_AddElement
  <2>5. Spare' = Spare
    BY <2>1, <2>3 DEF Spare
  <2> QED BY <1>0, <2>1, <2>4, <2>5 DEF Budget
<1>5. ASSUME NEW s \in Sessions, EnsureInitialized(s) PROVE Budget'
  <2>1. /\ client = None /\ UNCHANGED <<client, inits, events>>
        /\ making' = [making EXCEPT ![s] = "cleared"]
        /\ \A u \in Sessions : stage[u] \in {"preparing", "answering"} => making[u] = "none"
    BY <1>5 DEF EnsureInitialized, Clear, clientVars
  <2>2. PICK to \in {"preparing", "answering"} :
           stage[s] \in {"idle", "asked"} /\ stage' = [stage EXCEPT ![s] = to]
    BY <1>5 DEF EnsureInitialized
  <2>3. Owing' = Owing \cup {s} /\ s \notin Owing
    BY <1>0, <2>1, <2>2, MakingIn DEF Owing
  <2>4. ~ Lazily /\ Lazily'
    BY <1>0, <2>1, <2>2 DEF Lazily
  <2>5. Spare = 1 /\ Spare' = 0
    BY <2>1, <2>4 DEF Spare
  <2>6. IsFiniteSet(Owing') /\ Cardinality(Owing') = Cardinality(Owing) + 1
    BY <1>0, <2>3, FS_AddElement
  <2> QED BY <1>0, <2>1, <2>5, <2>6 DEF Budget
<1>6. ASSUME NEW s \in Sessions, MakeClient(s) PROVE Budget'
  <2>1. /\ making[s] = "cleared" /\ making' = [making EXCEPT ![s] = "built"]
        /\ client' \in Spaces /\ UNCHANGED <<stage, inits, events>>
    BY <1>6, Kinds DEF MakeClient
  <2>2. Owing' = Owing
    BY <1>0, <2>1 DEF Owing
  <2>3. Spare' = 0
    BY <2>1, Kinds DEF Spare
  <2> QED BY <1>0, <2>1, <2>2, <2>3 DEF Budget
<1>7. ASSUME NEW s \in Sessions, MakeQueue(s) PROVE Budget'
  <2>1. /\ making[s] = "built" /\ making' = [making EXCEPT ![s] = "none"]
        /\ inits' = inits + 1 /\ UNCHANGED <<stage, client, events>>
    BY <1>7 DEF MakeQueue, clientVars
  <2>2. stage[s] # "closing"
    BY <2>1, MakingIn
  <2>3. Owing' = Owing \ {s} /\ s \in Owing
    BY <1>0, <2>1, <2>2 DEF Owing
  <2>4. Lazily' = Lazily
    BY <1>0, <2>1 DEF Lazily
  <2>5. Spare' = Spare
    BY <2>1, <2>4 DEF Spare
  <2>6. IsFiniteSet(Owing') /\ Cardinality(Owing') = Cardinality(Owing) - 1
    BY <1>0, <2>3, FS_RemoveElement
  <2> QED BY <1>0, <2>1, <2>5, <2>6 DEF Budget
<1>8. ASSUME NEW s \in Sessions, FinalizeBegin(s) PROVE Budget'
  <2>1. /\ stage[s] = "idle" /\ stage' = [stage EXCEPT ![s] = "closing"]
        /\ UNCHANGED <<making, client, inits>> /\ events' = events + 1
    BY <1>8 DEF FinalizeBegin, Event, clientVars
  <2>2. Owing' = Owing \cup {s} /\ s \notin Owing
    BY <1>0, <2>1, MakingIn DEF Owing
  <2>3. Lazily' = Lazily
    BY <1>0, <2>1 DEF Lazily
  <2>4. IsFiniteSet(Owing') /\ Cardinality(Owing') = Cardinality(Owing) + 1
    BY <1>0, <2>2, FS_AddElement
  <2>5. Spare' = Spare
    BY <2>1, <2>3 DEF Spare
  <2> QED BY <1>0, <2>1, <2>4, <2>5 DEF Budget
<1>9. ASSUME NEW s \in Sessions, FinalizeEnd(s) PROVE Budget'
  <2>1. /\ stage[s] = "closing" /\ stage' = [stage EXCEPT ![s] = "idle"]
        /\ UNCHANGED <<making, inits, events>>
    BY <1>9 DEF FinalizeEnd
  <2>2. Owing' = Owing \ {s} /\ s \in Owing
    BY <1>0, <2>1, MakingIn DEF Owing
  <2>3. IsFiniteSet(Owing') /\ Cardinality(Owing') = Cardinality(Owing) - 1
    BY <1>0, <2>2, FS_RemoveElement
  <2>4. Spare' \in {0, 1}
    BY DEF Spare
  <2> QED BY <1>0, <2>1, <2>3, <2>4 DEF Budget
<1>10. ASSUME NEW s \in Sessions, SessionStarted(s) \/ JoinTimeout(s) \/ Abort(s) PROVE Budget'
  <2>1. /\ stage[s] # "closing" /\ making[s] = "none"
        /\ UNCHANGED <<making, client, inits, events>>
    BY <1>10, MakingIn DEF SessionStarted, JoinTimeout, Abort, clientVars
  <2>2. stage' \in {[stage EXCEPT ![s] = "idle"], [stage EXCEPT ![s] = "asked"]}
    BY <1>10 DEF SessionStarted, JoinTimeout, Abort
  <2> QED BY <1>3, <2>1, <2>2
<1>11. ASSUME NEW s \in Sessions, PreCall(s) PROVE Budget'
  <2>1. /\ stage[s] # "closing" /\ making[s] = "none"
        /\ UNCHANGED <<making, client, inits>> /\ stage' = [stage EXCEPT ![s] = "stable"]
    BY <1>11, MakingIn DEF PreCall, clientVars
  <2>2. events' \in {events, events + 1}
    BY <1>11 DEF PreCall, StableFetch, Event
  <2> QED BY <1>3, <2>1, <2>2
<1>12. ASSUME NEW s \in Sessions, Prefetch(s) PROVE Budget'
  <2>1. /\ stage[s] # "closing" /\ making[s] = "none"
        /\ UNCHANGED <<making, client, inits, events>>
    BY <1>12, MakingIn DEF Prefetch, clientVars
  <2>2. stage' \in {[stage EXCEPT ![s] = "asked"], [stage EXCEPT ![s] = "join"]}
    BY <1>12 DEF Prefetch
  <2> QED BY <1>3, <2>1, <2>2
<1>13. ASSUME NEW s \in Sessions, PostCall(s) PROVE Budget'
  <2>1. /\ stage[s] # "closing" /\ making[s] = "none"
        /\ UNCHANGED <<making, client, inits, events>> /\ stage' = [stage EXCEPT ![s] = "idle"]
    BY <1>13, MakingIn DEF PostCall, clientVars
  <2> QED BY <1>3, <2>1
<1>14. ASSUME NEW t \in DOMAIN turns, FetchEnd(t) \/ FetchFails(t) \/ WaitEnd(t) PROVE Budget'
  <2>1. \E b : Deliver(t, b)
    BY <1>14 DEF FetchEnd, FetchFails, WaitEnd
  <2>2. UNCHANGED <<making, client, inits>> /\ events' \in {events, events + 1}
    BY <1>14 DEF FetchEnd, FetchFails, WaitEnd, Event, clientVars
  <2>3. CASE stage' = stage
    BY <1>2, <2>2, <2>3
  <2>4. CASE stage' # stage
    <3>1. /\ turns[t].session \in Sessions /\ stage[turns[t].session] = "join"
          /\ stage' = [stage EXCEPT ![turns[t].session] = "asked"]
      BY <2>1, <2>4, DeliverStage
    <3> QED BY <1>3, <2>2, <3>1, MakingIn
  <2> QED BY <2>3, <2>4
<1>15. ASSUME NEW t \in DOMAIN turns, ServeFetch(t) PROVE Budget'
  BY <1>2, <1>15 DEF ServeFetch, sessionVars, clientVars, Event
<1>16. ASSUME NEW w \in Writers, WriterTake(w) \/ WriterWrites(w) \/ WriterFails(w) PROVE Budget'
  BY <1>2, <1>16 DEF WriterTake, WriterWrites, WriterFails, sessionVars, clientVars, Event
<1>17. ASSUME ServeLate \/ \E sp \in Spaces : Change(sp) PROVE Budget'
  BY <1>2, <1>17 DEF ServeLate, Change, sessionVars, clientVars, Event
<1>18. CASE UNCHANGED vars
  BY <1>2, <1>18 DEF vars, sessionVars, clientVars
<1> QED
  BY <1>4, <1>5, <1>6, <1>7, <1>8, <1>9, <1>10, <1>11, <1>12, <1>13, <1>14, <1>15, <1>16, <1>17, <1>18
  DEF Next

\* A context changes with an event.
LEMMA VersionsKept ==
    ASSUME TypeOK, Versions, [Next]_vars PROVE Versions'
<1>0. events \in Nat /\ \A sp \in Spaces : version[sp] \in Nat
  BY Kinds DEF TypeOK
<1>1. CASE version' = version /\ events' \in {events, events + 1}
  BY <1>0, <1>1 DEF Versions
<1>2. ASSUME NEW sp \in Spaces, Change(sp) PROVE Versions'
  <2>1. version' = [version EXCEPT ![sp] = @ + 1] /\ events' = events + 1
    BY <1>2 DEF Change, Event
  <2> QED BY <1>0, <2>1 DEF Versions, TypeOK
<1>3. (\A sp \in Spaces : ~ Change(sp)) => version' = version /\ events' \in {events, events + 1}
  BY DEF Next, vars, serverVars, SessionStart, EnsureInitialized, Clear, MakeClient, MakeQueue,
         SessionStarted,
         FinalizeBegin, FinalizeEnd, PreCall, StableFetch, Prefetch, JoinTimeout, PostCall, Abort,
         ServeFetch, FetchEnd, FetchFails, WaitEnd, WriterTake, WriterWrites, WriterFails,
         ServeLate, Event
<1> QED BY <1>1, <1>2, <1>3

-----------------------------------------------------------------------------
(* Types. *)

\* A writer that starts, loops or ends.
LEMMA WriterStatesAre ==
    /\ NoWriter \in WriterStates
    /\ \A q \in Writers : [NoWriter EXCEPT !.phase = "get", !.queue = q] \in WriterStates
    /\ \A q \in Writers, sp \in Spaces, b \in TurnBatches :
          [phase |-> "sent", queue |-> q, space |-> sp, batch |-> b] \in WriterStates
    /\ \A v \in WriterStates :
          /\ v.phase \in {"gone", "get", "sent"}
          /\ v.phase = "gone" => v.queue = 0
          /\ v.phase # "gone" => v.queue \in Writers
          /\ v.phase = "sent" => v.space \in Spaces /\ v.batch \in TurnBatches
          /\ v.phase # "sent" => v.space = None /\ v.batch = Stop
  BY DEF NoWriter, WriterStates

\* The requests a step writes are requests.
LEMMA FetchesAre ==
    /\ NoFetch \in Fetches
    /\ \A g \in Nat, b \in Bundles \cup {None}, sp \in Spaces :
          [NoFetch EXCEPT !.phase = "sent", !.space = sp, !.gen = g, !.cached = b] \in Fetches
    /\ \A g \in Nat, k \in 0..MaxTurns :
          [NoFetch EXCEPT !.phase = "wait", !.on = k, !.gen = g] \in Fetches
    /\ \A b, c \in Bundles \cup {None} :
          [NoFetch EXCEPT !.phase = "ended", !.update = b, !.now = c] \in Fetches
<1>1. 0 \in 0..MaxTurns
  BY Kinds
<1>2. NoFetch \in Fetches
  BY <1>1 DEF NoFetch, Fetches
<1>3. \A g \in Nat, b \in Bundles \cup {None}, sp \in Spaces :
          [NoFetch EXCEPT !.phase = "sent", !.space = sp, !.gen = g, !.cached = b] \in Fetches
  BY <1>1 DEF NoFetch, Fetches
<1>4. \A g \in Nat, k \in 0..MaxTurns :
          [NoFetch EXCEPT !.phase = "wait", !.on = k, !.gen = g] \in Fetches
  BY <1>1 DEF NoFetch, Fetches
<1>5. \A b, c \in Bundles \cup {None} :
          [NoFetch EXCEPT !.phase = "ended", !.update = b, !.now = c] \in Fetches
  BY <1>1 DEF NoFetch, Fetches
<1> QED BY <1>2, <1>3, <1>4, <1>5

\* The present context of a space is a bundle of it.
LEMMA CurrentIs ==
    ASSUME TypeOK PROVE \A sp \in Spaces : Current(sp) \in Bundles /\ Current(sp)[1] = sp
  BY DEF TypeOK, Current, Bundles

\* The slots a step writes are slots.
LEMMA SlotsAre ==
    ASSUME TypeOK, NEW t \in DOMAIN turns
    PROVE  FreshSlot(t) \in Slots /\ FreshSlot(t) # None
<1>1. t \in Turns /\ turns[t].text \in Turns
  BY TurnsTyped
<1>2. FreshSlot(t) \in Slots
  BY <1>1 DEF FreshSlot, Slots
<1> QED BY <1>2, Kinds

\* What the stages are, apart from the rest of the types.
StagesTyped ==
    /\ stage \in [Sessions -> Stages] /\ making \in [Sessions -> {"none", "cleared", "built"}]
    /\ \A s \in Sessions : making[s] # "none" => stage[s] \in Initializing

\* A conversation that is in no initialisation may go to any stage.
LEMMA StagesMoved ==
    ASSUME StagesTyped, NEW s \in Sessions, NEW to \in Stages, making[s] = "none",
           stage' = [stage EXCEPT ![s] = to], UNCHANGED making
    PROVE  StagesTyped'
  BY DEF StagesTyped

\* What an initialisation clears keeps its types.
LEMMA ClearTyped ==
    ASSUME TypeOK, NEW s \in Sessions, NEW to \in Initializing,
           Clear(s), stage' = [stage EXCEPT ![s] = to], events' \in 0..MaxEvents
    PROVE  TypeOK'
<1>1. /\ making' = [making EXCEPT ![s] = "cleared"] /\ writeEnabled' = TRUE
      /\ cache' = [u \in Sessions |-> None] /\ bundle' = None /\ slot' = [u \in Sessions |-> None]
      /\ claimed' = {} /\ hurt' = Len(turns)
      /\ UNCHANGED <<turns, stable, client, clients, fetches, inits, queue, queues, writers, log,
                     version, wire, failed, crossed, crowded>>
  BY DEF Clear, clientVars, writerVars, serverVars, BundleAfterInit
<1>2. StagesTyped
  BY DEF TypeOK, StagesTyped
<1>3. StagesTyped'
  BY <1>1, <1>2 DEF StagesTyped, Stages
<1>4. hurt' \in 0..Len(turns')
  BY <1>1, TurnsTyped
<1> QED BY <1>1, <1>3, <1>4 DEF TypeOK, StagesTyped

\* The messages of a request.
LEMMA RequestsAre ==
    ASSUME NEW t \in Turns,
           NEW items \in {<<PrefetchKey(t)>>} \cup Answers(t)
    PROVE  /\ items \in Seq(Keys) /\ Len(items) \in {1, 2} /\ DOMAIN items = 1..Len(items)
           /\ items = <<PrefetchKey(t)>> => Len(items) = 1 /\ items[1] = PrefetchKey(t)
<1>1. PrefetchKey(t) \in Keys
  BY KeysDistinct
<1>2. CASE items = <<PrefetchKey(t)>>
  BY <1>1, <1>2
<1>3. CASE items \in Answers(t)
  <2>1. /\ items \in Seq(Keys) /\ Len(items) \in {1, 2} /\ DOMAIN items = 1..Len(items)
    BY <1>3, AnswersAre
  <2>2. items = <<PrefetchKey(t)>> => Len(items) = 1 /\ items[1] = PrefetchKey(t)
    OBVIOUS
  <2> QED BY <2>1, <2>2
<1> QED BY <1>2, <1>3

\* A request that was given up holds the messages of a prefetch or of a turn.
LEMMA WireIs ==
    ASSUME TypeOK, NEW r \in wire
    PROVE  /\ r.space \in Spaces
           /\ \E t \in Turns : r.items \in {<<PrefetchKey(t)>>} \cup Answers(t)
<1> DEFINE Items == {<<PrefetchKey(t)>> : t \in Turns} \cup UNION {Answers(t) : t \in Turns}
<1>1. wire \subseteq [space : Spaces, items : Items]
  BY DEF TypeOK
<1>2. r.space \in Spaces /\ r.items \in Items
  BY <1>1
<1>3. CASE r.items \in {<<PrefetchKey(t)>> : t \in Turns}
  BY <1>2, <1>3
<1>4. CASE r.items \in UNION {Answers(t) : t \in Turns}
  BY <1>2, <1>4
<1> QED BY <1>2, <1>3, <1>4

\* Recording keeps the type of the log.
LEMMA LogTyped ==
    ASSUME TypeOK, NEW sp \in Spaces, NEW t \in Turns,
           NEW items \in {<<PrefetchKey(t)>>} \cup Answers(t),
           log' = [log EXCEPT ![sp] = Recorded(@, items)]
    PROVE  /\ log' \in [Spaces -> Seq(Keys)]
           /\ IsRecorded(log[sp], items, log'[sp])
           /\ \A q \in Spaces \ {sp} : log'[q] = log[q]
<1>1. log[sp] \in Seq(Keys) /\ items \in Seq(Keys) /\ Len(items) \in {1, 2}
  BY RequestsAre DEF TypeOK
<1>2. IsRecorded(log[sp], items, Recorded(log[sp], items))
  BY <1>1, RecordedIs
<1>3. Recorded(log[sp], items) \in Seq(Keys)
  BY <1>2 DEF IsRecorded
<1> QED BY <1>2, <1>3 DEF TypeOK

\* The end of a thread, and what it leaves.
LEMMA DeliverTyped ==
    ASSUME TypeOK, NEW t \in DOMAIN turns, NEW b \in Bundles \cup {None}, Deliver(t, b),
           UNCHANGED making
    PROVE  /\ StagesTyped'
           /\ cache' \in [Sessions -> Bundles \cup {None}]
<1> DEFINE r == turns[t].session
<1>1. r \in Sessions
  BY TurnsTyped
<1>2. cache' = [cache EXCEPT ![r] = IF b # None THEN None ELSE @]
      \/ cache' = [cache EXCEPT ![r] = IF b # None THEN b ELSE @]
  BY DEF Deliver
<1>3. cache' \in [Sessions -> Bundles \cup {None}]
  BY <1>1, <1>2 DEF TypeOK
<1>4. StagesTyped
  BY DEF TypeOK, StagesTyped
<1>5. CASE stage' = stage
  BY <1>3, <1>4, <1>5 DEF StagesTyped
<1>6. CASE stage[r] = "join" /\ stage' = [stage EXCEPT ![r] = "asked"]
  <2>1. making[r] = "none" /\ "asked" \in Stages
    BY <1>1, <1>6, MakingIn DEF Stages
  <2> QED BY <1>1, <1>3, <1>4, <1>6, <2>1, StagesMoved
<1> QED BY <1>5, <1>6, DeliverStage

\* The end of a request keeps the types.
LEMMA EndedTyped ==
    ASSUME TypeOK, NEW t \in Turns, NEW b \in Bundles \cup {None}, NEW c \in Bundles \cup {None},
           fetches' = Ended(t, b, c)
    PROVE  fetches' \in [Turns -> Fetches]
  BY FetchesAre DEF Ended, TypeOK

\* What a request brings has its type.
LEMMA FetchIs ==
    ASSUME TypeOK, NEW t \in Turns
    PROVE  /\ fetches[t] \in Fetches
           /\ {fetches[t].cached, fetches[t].update, fetches[t].now} \subseteq Bundles \cup {None}
           /\ Shown(fetches[t]) \in Bundles \cup {None}
           /\ fetches[t].on \in 0..MaxTurns /\ fetches[t].gen \in Nat
           /\ fetches[t].phase \in {"none", "sent", "served", "wait", "ended"}
<1>1. fetches[t] \in Fetches
  BY DEF TypeOK
<1> QED BY <1>1 DEF Fetches, Shown

\* A writer at the head of its loop is gone or takes the next batch.
LEMMA LoopTyped ==
    ASSUME TypeOK, NEW w \in Writers
    PROVE  Loop(w) \in WriterStates
<1>1. queue # 0 => queue \in Writers
  BY DEF TypeOK
<1> QED BY <1>1, WriterStatesAre DEF Loop

\* Each step keeps the types.
LEMMA TypesKept ==
    ASSUME TypeOK, Budget, Versions, TurnsSound, FetchesSound, KeysBegun, [Next]_vars
    PROVE  TypeOK'
<1> DEFINE Shows == Bundles \cup {None}
<1>0. /\ Len(turns) \in Nat /\ DOMAIN turns = 1..Len(turns) /\ DOMAIN turns \subseteq Turns
      /\ inits \in Nat /\ events \in 0..MaxEvents
  BY TurnsTyped, InitsBounded DEF TypeOK
<1>1. ASSUME Event PROVE events' \in 0..MaxEvents
  BY <1>0, <1>1, Kinds DEF Event
<1>a. StagesTyped
  BY DEF TypeOK, StagesTyped
<1>b. {"idle", "stable", "join", "asked", "closing"} \subseteq Stages
  BY DEF Stages
<1>2. ASSUME NEW s \in Sessions, SessionStart(s) PROVE TypeOK'
  BY <1>1, <1>2, ClearTyped DEF SessionStart, Initializing
<1>19. ASSUME NEW s \in Sessions, EnsureInitialized(s) PROVE TypeOK'
  BY <1>0, <1>19, ClearTyped DEF EnsureInitialized, Initializing
<1>20. ASSUME NEW s \in Sessions, MakeClient(s) PROVE TypeOK'
  <2>1. /\ making[s] = "cleared" /\ making' = [making EXCEPT ![s] = "built"]
        /\ client' \in Spaces /\ clients' = clients + 1 /\ hurt' = Len(turns)
        /\ UNCHANGED <<stage, turns, stable, writeEnabled, claimed, bundle, cache, slot, fetches,
                       inits, queue, queues, writers, log, version, wire, events, failed, crossed,
                       crowded>>
    BY <1>20, Kinds DEF MakeClient, writerVars, serverVars
  <2>2. StagesTyped'
    BY <1>a, <2>1 DEF StagesTyped
  <2>3. hurt' \in 0..Len(turns') /\ clients' \in Nat
    BY <1>0, <2>1 DEF TypeOK
  <2> QED BY <2>1, <2>2, <2>3 DEF TypeOK, StagesTyped
<1>21. ASSUME NEW s \in Sessions, MakeQueue(s) PROVE TypeOK'
  <2>1. /\ making[s] = "built" /\ making' = [making EXCEPT ![s] = "none"]
        /\ inits' = inits + 1 /\ queue' = inits + 1 /\ hurt' = Len(turns)
        /\ writers' = [writers EXCEPT ![inits + 1] = [NoWriter EXCEPT !.phase = "get",
                                                                      !.queue = inits + 1]]
        /\ UNCHANGED <<stage, turns, stable, client, clients, writeEnabled, claimed, bundle, cache,
                       slot,
                       fetches, queues, log, version, wire, events, failed, crossed, crowded>>
    BY <1>21 DEF MakeQueue, clientVars, serverVars
  <2>2. inits + 1 \in Writers
    BY <2>1, InitsBounded
  <2>3. writers' \in [Writers -> WriterStates]
    BY <2>1, <2>2, WriterStatesAre DEF TypeOK
  <2>4. StagesTyped'
    BY <1>a, <2>1 DEF StagesTyped
  <2>5. hurt' \in 0..Len(turns') /\ inits' \in {0} \cup Writers /\ queue' \in {0, inits'}
    BY <1>0, <2>1, <2>2
  <2> QED BY <2>1, <2>3, <2>4, <2>5 DEF TypeOK, StagesTyped
<1>22. ASSUME NEW s \in Sessions, SessionStarted(s) PROVE TypeOK'
  <2>1. /\ making[s] = "none" /\ stage' = [stage EXCEPT ![s] = "idle"] /\ writeEnabled' \in BOOLEAN
        /\ UNCHANGED <<making, turns, stable, client, clients, claimed, bundle, cache, slot,
                       fetches, inits,
                       queue, queues, writers, log, version, wire, events, hurt, failed, crossed,
                       crowded>>
    BY <1>22 DEF SessionStarted, clientVars, writerVars, serverVars, histories
  <2>2. StagesTyped'
    BY <1>a, <1>b, <2>1, StagesMoved
  <2> QED BY <2>1, <2>2 DEF TypeOK, StagesTyped
<1>3. ASSUME NEW s \in Sessions, FinalizeBegin(s) PROVE TypeOK'
  <2>1. /\ Event /\ hurt' = Len(turns) /\ stage' = [stage EXCEPT ![s] = "closing"]
        /\ UNCHANGED <<making, turns, stable, client, clients, writeEnabled, claimed, bundle,
                       cache, slot, fetches,
                       inits, queue, writers, log, version, wire, failed, crossed, crowded>>
    BY <1>3 DEF FinalizeBegin, serverVars, clientVars
  <2>2. queues' \in [Writers -> Seq(TurnBatches \cup {Stop})]
    <3>1. CASE queue # 0 /\ queues' = [queues EXCEPT ![queue] = Append(@, Stop)]
      <4>1. queue \in Writers
        BY <3>1 DEF TypeOK
      <4>2. Append(queues[queue], Stop) \in Seq(TurnBatches \cup {Stop})
        BY <4>1 DEF TypeOK
      <4> QED BY <3>1, <4>1, <4>2 DEF TypeOK
    <3>2. CASE queues' = queues
      BY <3>2 DEF TypeOK
    <3> QED BY <1>3, <3>1, <3>2 DEF FinalizeBegin
  <2>3. hurt' \in 0..Len(turns') /\ events' \in 0..MaxEvents
    BY <1>0, <1>1, <2>1
  <2>4. StagesTyped'
    <3>1. making[s] = "none"
      BY <1>3, MakingIn DEF FinalizeBegin
    <3> QED BY <1>a, <1>b, <2>1, <3>1, StagesMoved
  <2> QED BY <2>1, <2>2, <2>3, <2>4 DEF TypeOK, StagesTyped
<1>4. ASSUME NEW s \in Sessions, FinalizeEnd(s) PROVE TypeOK'
  <2>1. /\ hurt' = Len(turns) /\ stage' = [stage EXCEPT ![s] = "idle"] /\ client' = None /\ queue' = 0
        /\ UNCHANGED <<making, turns, stable, clients, writeEnabled, claimed, bundle, cache, slot,
                       fetches, inits,
                       queues, writers, log, version, wire, events, failed, crossed, crowded>>
    BY <1>4 DEF FinalizeEnd, serverVars, writerVars
  <2>2. hurt' \in 0..Len(turns')
    BY <1>0, <2>1
  <2>3. StagesTyped'
    <3>1. making[s] = "none"
      BY <1>4, MakingIn DEF FinalizeEnd
    <3> QED BY <1>a, <1>b, <2>1, <3>1, StagesMoved
  <2> QED BY <2>1, <2>2, <2>3 DEF TypeOK, StagesTyped
<1>5. ASSUME NEW s \in Sessions, PreCall(s) PROVE TypeOK'
  <2>1. /\ Len(turns) < MaxTurns /\ StableFetch(s) /\ stage' = [stage EXCEPT ![s] = "stable"]
        /\ claimed' = claimed \cup {s} /\ hurt' \in {Len(turns) + 1, hurt}
        /\ UNCHANGED <<making, client, clients, writeEnabled, cache, bundle, slot, fetches, inits,
                       queue,
                       queues, writers, log, version, wire, failed, crossed, crowded>>
    BY <1>5 DEF PreCall, clientVars, writerVars, serverVars
  <2>2. PICK x \in Texts(s) : turns' = Append(turns, [session |-> s, text |-> x])
    BY <1>5 DEF PreCall
  <2>3. Len(turns) + 1 \in Turns
    BY <1>0, <2>1, Kinds DEF Turns
  <2>4. x \in Turns
    BY <2>3, TurnsTyped DEF Texts
  <2>5. turns' \in Seq([session : Sessions, text : Turns])
    BY <2>2, <2>4 DEF TypeOK
  <2>6. DOMAIN turns' = 1..(Len(turns) + 1) /\ Len(turns') = Len(turns) + 1
    BY <2>2, TurnOfBegun
  <2>7. Len(turns') <= MaxTurns /\ DOMAIN turns \subseteq DOMAIN turns'
    BY <1>0, <2>1, <2>6, Kinds
  <2>8. /\ \A r \in Sessions : slot'[r] # None => slot'[r].key \in DOMAIN turns'
        /\ claimed' \subseteq Sessions /\ hurt' \in 0..Len(turns') /\ failed' \subseteq DOMAIN turns'
    <3>1. hurt \in 0..Len(turns)
      BY DEF TypeOK
    <3>2. hurt' \in 0..Len(turns')
      BY <1>0, <2>1, <2>6, <3>1
    <3> QED BY <2>1, <2>7, <3>2 DEF TypeOK
  <2>9. stable' \in [Sessions -> [bundle : Shows, gen : Nat]] /\ events' \in 0..MaxEvents
    <3>1. CASE stable' = stable
      <4>1. events' = events \/ Event
        BY <2>1, <3>1 DEF StableFetch
      <4> QED BY <1>0, <1>1, <3>1, <4>1 DEF TypeOK
    <3>2. CASE /\ client # None /\ UNCHANGED events
               /\ stable' = [stable EXCEPT ![s] = [bundle |-> Current(client), gen |-> clients]]
      <4>1. [bundle |-> Current(client), gen |-> clients] \in [bundle : Shows, gen : Nat]
        BY <3>2, CurrentIs DEF TypeOK
      <4> QED BY <1>0, <3>2, <4>1 DEF TypeOK
    <3> QED BY <2>1, <3>1, <3>2 DEF StableFetch
  <2>10. StagesTyped'
    <3>1. making[s] = "none"
      BY <1>5, MakingIn DEF PreCall
    <3> QED BY <1>a, <1>b, <2>1, <3>1, StagesMoved
  <2> QED BY <2>1, <2>5, <2>7, <2>8, <2>9, <2>10 DEF TypeOK, StagesTyped
<1>6. ASSUME NEW s \in Sessions, Prefetch(s) PROVE TypeOK'
  <2> DEFINE t == TurnOf(s)
  <2>1. /\ stage[s] = "stable" /\ stable' = [stable EXCEPT ![s] = [bundle |-> None, gen |-> 0]]
        /\ stage' \in {[stage EXCEPT ![s] = "asked"], [stage EXCEPT ![s] = "join"]}
        /\ UNCHANGED <<making, turns, client, clients, writeEnabled, claimed, inits, queue, queues,
                       writers, log,
                       version, wire, events, failed, crowded>>
    BY <1>6 DEF Prefetch, serverVars, writerVars, clientVars
  <2>2. t \in DOMAIN turns
    BY <1>0, <2>1 DEF TurnsSound, InTurn
  <2>3. stable[s].bundle \in Shows /\ bundle \in Shows
    BY DEF TypeOK
  <2>4. bundle' \in Shows /\ crossed' \in BOOLEAN
    <3>1. bundle' = IF stable[s].bundle # None /\ bundle = None THEN stable[s].bundle ELSE bundle
      BY <1>6 DEF Prefetch
    <3>2. crossed' = (crossed \/ (stable[s].bundle # None /\ bundle = None
                                     /\ (stable[s].gen # clients \/ Replacing)))
      BY <1>6 DEF Prefetch
    <3> QED BY <2>3, <3>1, <3>2 DEF TypeOK
  <2>5. StagesTyped' /\ hurt' \in 0..Len(turns')
    <3>1. making[s] = "none"
      BY <2>1, MakingIn
    <3>2. hurt' \in {Len(turns), hurt}
      BY <1>6 DEF Prefetch
    <3>3. hurt' \in 0..Len(turns')
      BY <1>0, <2>1, <3>2 DEF TypeOK
    <3> QED BY <1>a, <1>b, <2>1, <3>1, <3>3, StagesMoved
  <2>6. stable' \in [Sessions -> [bundle : Shows, gen : Nat]]
    BY <2>1 DEF TypeOK
  <2>7. cache' \in [Sessions -> Shows]
    <3>1. cache' = cache \/ cache' = [cache EXCEPT ![s] = None]
      BY <1>6 DEF Prefetch
    <3> QED BY <3>1 DEF TypeOK
  <2>8. /\ slot' \in [Sessions -> Slots \cup {None}]
        /\ \A r \in Sessions : slot'[r] # None => slot'[r].key \in DOMAIN turns'
    <3>1. slot' = slot \/ slot' = [slot EXCEPT ![s] = FreshSlot(t)]
      BY <1>6 DEF Prefetch
    <3>2. FreshSlot(t) \in Slots /\ FreshSlot(t).key = t
      BY <2>2, SlotsAre DEF FreshSlot
    <3> HIDE DEF t
    <3> QED BY <2>1, <2>2, <3>1, <3>2 DEF TypeOK
  <2>9. fetches' \in [Turns -> Fetches]
    <3>1. clients \in Nat /\ (client # None => client \in Spaces)
      BY DEF TypeOK
    <3>2. CASE fetches' = fetches
      BY <3>2 DEF TypeOK
    <3>3. CASE /\ Matches(slot[s], t)
               /\ fetches' = [fetches EXCEPT ![t] = [NoFetch EXCEPT !.phase = "wait", !.on = slot[s].key,
                                                                    !.gen = clients]]
      <4>1. slot[s].key \in 0..MaxTurns
        BY <1>0, <3>3, Kinds DEF Matches, TypeOK, Turns
      <4>2. [NoFetch EXCEPT !.phase = "wait", !.on = slot[s].key, !.gen = clients] \in Fetches
        BY <3>1, <4>1, FetchesAre
      <4> QED BY <3>3, <4>2 DEF TypeOK
    <3>4. CASE /\ client # None
               /\ fetches' = [fetches EXCEPT ![t] = [NoFetch EXCEPT !.phase = "sent", !.space = client,
                                                                    !.gen = clients, !.cached = bundle']]
      <4>1. [NoFetch EXCEPT !.phase = "sent", !.space = client, !.gen = clients, !.cached = bundle'] \in Fetches
        BY <2>4, <3>1, <3>4, FetchesAre
      <4> QED BY <3>4, <4>1 DEF TypeOK
    <3> QED BY <1>6, <3>2, <3>3, <3>4 DEF Prefetch
  <2> QED BY <2>1, <2>4, <2>5, <2>6, <2>7, <2>8, <2>9 DEF TypeOK, StagesTyped
<1>7. ASSUME NEW s \in Sessions, JoinTimeout(s) \/ Abort(s) PROVE TypeOK'
  <2>1. /\ stage' \in {[stage EXCEPT ![s] = "asked"], [stage EXCEPT ![s] = "idle"]}
        /\ UNCHANGED <<making, turns, stable, client, clients, writeEnabled, claimed, bundle,
                       cache, slot, fetches, inits,
                       queue, queues, writers, log, version, wire, events, hurt, failed, crossed,
                       crowded>>
    BY <1>7 DEF JoinTimeout, Abort, clientVars, writerVars, serverVars, histories
  <2>2. StagesTyped'
    <3>1. making[s] = "none"
      BY <1>7, MakingIn DEF JoinTimeout, Abort
    <3> QED BY <1>a, <1>b, <2>1, <3>1, StagesMoved
  <2> QED BY <2>1, <2>2 DEF TypeOK, StagesTyped
<1>8. ASSUME NEW s \in Sessions, PostCall(s) PROVE TypeOK'
  <2> DEFINE t == TurnOf(s)
  <2>1. /\ InTurn(s) /\ stage' = [stage EXCEPT ![s] = "idle"]
        /\ UNCHANGED <<making, turns, stable, client, clients, writeEnabled, claimed, bundle,
                       cache, fetches,
                       inits, queue, writers, log, version, wire, events, hurt, failed, crossed,
                       crowded>>
    BY <1>8 DEF PostCall, clientVars, serverVars, histories, InTurn
  <2>2. t \in DOMAIN turns /\ t \in Turns
    BY <1>0, <2>1 DEF TurnsSound
  <2>3. StagesTyped'
    <3>1. making[s] = "none"
      BY <1>8, MakingIn DEF PostCall
    <3> QED BY <1>a, <1>b, <2>1, <3>1, StagesMoved
  <2>4. ASSUME NEW e \in Slots \cup {None}, e # None => e.key \in DOMAIN turns
        PROVE  Batch(t, TurnMessages(t, e)) \in TurnBatches
    <3>1. UserKey(t, e) \in UserKeys
      <4>1. Matches(e, t) => e.key \in Turns
        BY <1>0, <2>4 DEF Matches
      <4> HIDE DEF t
      <4> QED BY <2>2, <4>1, KeysDistinct DEF UserKey
    <3>2. TurnMessages(t, e) \in Answers(t)
      BY <3>1 DEF TurnMessages, Answers
    <3> HIDE DEF t
    <3> QED BY <2>2, <3>2, BatchesAre
  <2>5. ASSUME NEW g \in Writers, NEW b \in TurnBatches, queues' = [queues EXCEPT ![g] = Append(@, b)]
        PROVE  queues' \in [Writers -> Seq(TurnBatches \cup {Stop})]
    <3>1. Append(queues[g], b) \in Seq(TurnBatches \cup {Stop})
      BY DEF TypeOK
    <3> QED BY <2>5, <3>1 DEF TypeOK
  <2>6. CASE UNCHANGED <<slot, queues>>
    BY <2>1, <2>3, <2>6 DEF TypeOK, StagesTyped
  <2>7. CASE /\ queue # 0 /\ slot' = [slot EXCEPT ![s] = None]
             /\ queues' = [queues EXCEPT ![queue] = Append(@, Batch(t, TurnMessages(t, slot[s])))]
    <3>1. queue \in Writers
      BY <2>7 DEF TypeOK
    <3>2. slot[s] \in Slots \cup {None} /\ (slot[s] # None => slot[s].key \in DOMAIN turns)
      BY DEF TypeOK
    <3>3. queues' \in [Writers -> Seq(TurnBatches \cup {Stop})]
      BY <2>4, <2>5, <2>7, <3>1, <3>2
    <3>4. /\ slot' \in [Sessions -> Slots \cup {None}]
          /\ \A r \in Sessions : slot'[r] # None => slot'[r].key \in DOMAIN turns'
      BY <2>1, <2>7 DEF TypeOK
    <3> QED BY <2>1, <2>3, <2>7, <3>3, <3>4 DEF TypeOK, StagesTyped
  <2> QED BY <1>8, <2>6, <2>7 DEF PostCall
<1>9. ASSUME NEW t \in DOMAIN turns, ServeFetch(t) PROVE TypeOK'
  <2> DEFINE f == fetches[t]
  <2>1. /\ f.phase = "sent" /\ log' = [log EXCEPT ![f.space] = Recorded(@, <<PrefetchKey(t)>>)]
        /\ UNCHANGED <<stage, making, turns, stable, client, clients, writeEnabled, claimed,
                       bundle, cache, slot, inits, queue,
                       queues, writers, version, wire, hurt, failed, crossed, crowded>>
    BY <1>9 DEF ServeFetch, sessionVars, clientVars, writerVars, histories
  <2>2. t \in Turns /\ f.space \in Spaces
    BY <1>0, <2>1 DEF FetchesSound
  <2>3. log' \in [Spaces -> Seq(Keys)]
    BY <2>1, <2>2, LogTyped
  <2>4. events' \in 0..MaxEvents
    BY <1>0, <1>1, <1>9 DEF ServeFetch
  <2>5. fetches' \in [Turns -> Fetches]
    <3>1. Current(f.space) \in Shows /\ Update(f) \in Shows
      BY <2>2, CurrentIs DEF Update
    <3>2. f \in Fetches
      BY <2>2, FetchIs
    <3>3. CASE fetches' = [fetches EXCEPT ![t].phase = "served", ![t].now = Current(f.space), ![t].update = Update(f)]
      <4>1. [f EXCEPT !.phase = "served", !.now = Current(f.space), !.update = Update(f)] \in Fetches
        BY <3>1, <3>2 DEF Fetches
      <4>2. fetches' = [fetches EXCEPT ![t] = [f EXCEPT !.phase = "served", !.now = Current(f.space), !.update = Update(f)]]
        BY <2>2, <3>3 DEF TypeOK
      <4> QED BY <4>1, <4>2 DEF TypeOK
    <3>4. CASE fetches' = [fetches EXCEPT ![t].phase = "served"]
      <4>1. [f EXCEPT !.phase = "served"] \in Fetches
        BY <3>2 DEF Fetches
      <4> QED BY <3>4, <4>1 DEF TypeOK
    <3> QED BY <1>9, <3>3, <3>4 DEF ServeFetch
  <2> QED BY <2>1, <2>3, <2>4, <2>5 DEF TypeOK
<1>10. ASSUME NEW t \in DOMAIN turns, FetchEnd(t) PROVE TypeOK'
  <2> DEFINE f == fetches[t]
  <2>1. /\ fetches' = Ended(t, Shown(f), f.now) /\ slot' = Settled(t) /\ Deliver(t, Shown(f))
        /\ UNCHANGED <<making, turns, stable, client, clients, writeEnabled, claimed, inits, queue,
                       queues, writers, log, version,
                       wire, events, hurt, failed, crowded>>
    BY <1>10 DEF FetchEnd, writerVars, serverVars, clientVars
  <2>2. t \in Turns /\ {f.update, f.now, Shown(f)} \subseteq Shows
    BY <1>0, FetchIs
  <2>3. fetches' \in [Turns -> Fetches]
    BY <2>1, <2>2, EndedTyped
  <2>4. /\ StagesTyped'
        /\ cache' \in [Sessions -> Shows]
    BY <2>1, <2>2, DeliverTyped
  <2>5. bundle' \in Shows /\ crossed' \in BOOLEAN
    <3>1. bundle' = IF f.update # None THEN f.update ELSE bundle
      BY <1>10 DEF FetchEnd
    <3>2. crossed' = (crossed \/ f.gen # clients \/ Replacing)
      BY <1>10 DEF FetchEnd
    <3> QED BY <2>2, <3>1, <3>2 DEF TypeOK
  <2>6. /\ slot' \in [Sessions -> Slots \cup {None}]
        /\ \A r \in Sessions : slot'[r] # None => slot'[r].key \in DOMAIN turns'
    <3>1. \A r \in Sessions : slot[r] # None =>
            /\ [slot[r] EXCEPT !.persisted = TRUE] \in Slots
            /\ [slot[r] EXCEPT !.persisted = TRUE].key = slot[r].key
      BY DEF TypeOK, Slots
    <3>2. \A r \in Sessions : slot[r] \in Slots \cup {None} /\ (slot[r] # None => slot[r].key \in DOMAIN turns)
      BY DEF TypeOK
    <3> QED BY <2>1, <3>1, <3>2 DEF Settled
  <2> QED BY <2>1, <2>3, <2>4, <2>5, <2>6 DEF TypeOK, StagesTyped
<1>11. ASSUME NEW t \in DOMAIN turns, FetchFails(t) PROVE TypeOK'
  <2> DEFINE f == fetches[t]
  <2>1. /\ fetches' = Ended(t, None, None) /\ Deliver(t, None) /\ Event /\ f.phase \in {"sent", "served"}
        /\ UNCHANGED <<making, turns, stable, client, clients, writeEnabled, claimed, bundle, slot,
                       inits, queue, queues, writers,
                       log, version, hurt, failed, crossed, crowded>>
    BY <1>11 DEF FetchFails, writerVars, histories, clientVars
  <2>2. t \in Turns /\ f.space \in Spaces
    BY <1>0, <2>1 DEF FetchesSound
  <2>3. fetches' \in [Turns -> Fetches]
    BY <2>1, <2>2, EndedTyped
  <2>4. /\ StagesTyped'
        /\ cache' \in [Sessions -> Shows]
    BY <2>1, DeliverTyped
  <2>5. wire' = wire \/ wire' = wire \cup {[space |-> f.space, items |-> <<PrefetchKey(t)>>]}
    BY <1>11 DEF FetchFails
  <2> DEFINE Items == {<<PrefetchKey(u)>> : u \in Turns} \cup UNION {Answers(u) : u \in Turns}
  <2>6. wire' \subseteq [space : Spaces, items : Items]
    <3>1. wire \subseteq [space : Spaces, items : Items]
      BY DEF TypeOK
    <3>2. [space |-> f.space, items |-> <<PrefetchKey(t)>>] \in [space : Spaces, items : Items]
      BY <2>2
    <3> QED BY <2>5, <3>1, <3>2
  <2>7. events' \in 0..MaxEvents
    BY <1>1, <2>1
  <2> QED BY <2>1, <2>3, <2>4, <2>6, <2>7 DEF TypeOK, StagesTyped
<1>12. ASSUME NEW t \in DOMAIN turns, WaitEnd(t) PROVE TypeOK'
  <2> DEFINE f == fetches[t]
             on == fetches[f.on]
             got == on.phase = "ended"
             shown == IF got THEN on.update ELSE None
             now == IF got THEN on.now ELSE None
  <2>1. /\ f.phase = "wait" /\ fetches' = Ended(t, shown, now) /\ Deliver(t, shown)
        /\ UNCHANGED <<making, turns, stable, client, clients, writeEnabled, claimed, bundle, slot,
                       inits, queue, queues, writers,
                       log, version, wire, events, hurt, failed, crowded>>
    BY <1>12 DEF WaitEnd, writerVars, serverVars, clientVars
  <2>2. t \in Turns /\ f.on \in Turns
    BY <1>0, <2>1 DEF FetchesSound, Asked
  <2>3. shown \in Shows /\ now \in Shows
    BY <2>2, FetchIs
  <2>4. crossed' \in BOOLEAN
    <3>1. crossed' = (crossed \/ f.gen # clients \/ Replacing)
      BY <1>12 DEF WaitEnd
    <3> QED BY <3>1 DEF TypeOK
  <2> HIDE DEF shown, now
  <2>5. fetches' \in [Turns -> Fetches]
    BY <2>1, <2>2, <2>3, EndedTyped
  <2>6. /\ StagesTyped'
        /\ cache' \in [Sessions -> Shows]
    BY <2>1, <2>3, DeliverTyped
  <2> QED BY <2>1, <2>4, <2>5, <2>6 DEF TypeOK, StagesTyped
<1>13. ASSUME ServeLate PROVE TypeOK'
  <2>1. PICK r \in wire : log' = [log EXCEPT ![r.space] = Recorded(@, r.items)] /\ wire' = wire \ {r}
    BY <1>13 DEF ServeLate
  <2>2. UNCHANGED <<stage, making, turns, stable, client, clients, writeEnabled, claimed, bundle,
                    cache, slot, fetches, inits, queue,
                    queues, writers, version, events, hurt, failed, crossed, crowded>>
    BY <1>13 DEF ServeLate, sessionVars, clientVars, writerVars, histories
  <2>3. PICK t \in Turns : r.items \in {<<PrefetchKey(t)>>} \cup Answers(t)
    BY WireIs
  <2>4. log' \in [Spaces -> Seq(Keys)]
    BY <2>1, <2>3, WireIs, LogTyped
  <2> DEFINE Items == {<<PrefetchKey(u)>> : u \in Turns} \cup UNION {Answers(u) : u \in Turns}
  <2>5. wire' \subseteq [space : Spaces, items : Items]
    BY <2>1 DEF TypeOK
  <2> QED BY <2>2, <2>4, <2>5 DEF TypeOK
<1>14. ASSUME NEW sp \in Spaces, Change(sp) PROVE TypeOK'
  <2>1. /\ Event /\ version' = [version EXCEPT ![sp] = @ + 1]
        /\ UNCHANGED <<stage, making, turns, stable, client, clients, writeEnabled, claimed,
                       bundle, cache, slot, fetches, inits,
                       queue, queues, writers, log, wire, hurt, failed, crossed, crowded>>
    BY <1>14 DEF Change, sessionVars, clientVars, writerVars, histories
  <2>2. version[sp] \in 0..MaxEvents /\ version[sp] <= events /\ events + 1 = events' /\ events' \in 0..MaxEvents
    BY <1>1, <2>1 DEF TypeOK, Versions, Event
  <2>3. version[sp] + 1 \in 0..MaxEvents
    BY <1>0, <2>2, Kinds
  <2>4. version' \in [Spaces -> 0..MaxEvents]
    BY <2>1, <2>3 DEF TypeOK
  <2> QED BY <2>1, <2>2, <2>4 DEF TypeOK
<1>15. ASSUME NEW w \in Writers, WriterTake(w) PROVE TypeOK'
  <2> DEFINE q == writers[w].queue
  <2>1. /\ writers[w].phase = "get" /\ queues[q] # <<>>
        /\ queues' = [queues EXCEPT ![q] = Tail(queues[q])]
        /\ UNCHANGED <<stage, making, turns, stable, client, clients, writeEnabled, claimed,
                       bundle, cache, slot, fetches, inits,
                       queue, log, version, wire, events, hurt, crossed>>
    BY <1>15 DEF WriterTake, Taken, sessionVars, clientVars, serverVars
  <2>2. q \in Writers /\ queues[q] \in Seq(TurnBatches \cup {Stop})
    <3>1. writers[w] \in WriterStates
      BY DEF TypeOK
    <3>2. q \in Writers
      BY <2>1, <3>1, WriterStatesAre
    <3> QED BY <3>2 DEF TypeOK
  <2>3. Head(queues[q]) \in TurnBatches \cup {Stop} /\ Tail(queues[q]) \in Seq(TurnBatches \cup {Stop})
    BY <2>1, <2>2, HeadTailProperties
  <2>4. queues' \in [Writers -> Seq(TurnBatches \cup {Stop})]
    BY <2>1, <2>3 DEF TypeOK
  <2>5. failed' = failed /\ crowded' \in BOOLEAN
    BY <1>15 DEF WriterTake, TypeOK, Crowds
  <2>6. writers' \in [Writers -> WriterStates]
    <3>1. \/ writers' = [writers EXCEPT ![w] = NoWriter]
          \/ writers' = [writers EXCEPT ![w] = Loop(w)]
          \/ /\ client # None /\ Head(queues[q]) # Stop
             /\ writers' = [writers EXCEPT ![w] = [phase |-> "sent", queue |-> q, space |-> client,
                                                   batch |-> Head(queues[q])]]
      BY <1>15 DEF WriterTake, Taken
    <3>2. NoWriter \in WriterStates /\ Loop(w) \in WriterStates
      BY WriterStatesAre, LoopTyped
    <3>3. (client # None /\ Head(queues[q]) # Stop) =>
            [phase |-> "sent", queue |-> q, space |-> client, batch |-> Head(queues[q])] \in WriterStates
      <4>1. client # None => client \in Spaces
        BY DEF TypeOK
      <4> QED BY <2>2, <2>3, <4>1, WriterStatesAre
    <3> HIDE DEF q
    <3> QED BY <3>1, <3>2, <3>3 DEF TypeOK
  <2> QED BY <2>1, <2>4, <2>5, <2>6 DEF TypeOK
<1>16. ASSUME NEW w \in Writers, WriterWrites(w) PROVE TypeOK'
  <2> DEFINE v == writers[w]
             b == v.batch
  <2>1. v.phase = "sent" /\ v \in WriterStates
    BY <1>16 DEF WriterWrites, TypeOK
  <2>2. v.space \in Spaces /\ b \in TurnBatches
    BY <2>1, WriterStatesAre
  <2>3. b.turn \in Turns /\ b.items \in {<<PrefetchKey(b.turn)>>} \cup Answers(b.turn)
    BY <2>2, BatchesAre
  <2>4. writers' \in [Writers -> WriterStates]
    <3>1. writers' = [writers EXCEPT ![w] = Loop(w)]
      BY <1>16 DEF WriterWrites
    <3> QED BY <3>1, LoopTyped DEF TypeOK
  <2>5. crowded' \in BOOLEAN
    BY <1>16 DEF WriterWrites, TypeOK, Crowds
  <2>6. log' \in [Spaces -> Seq(Keys)]
    <3>1. log' = [log EXCEPT ![v.space] = Recorded(@, b.items)]
      BY <1>16 DEF WriterWrites
    <3> QED BY <2>2, <2>3, <3>1, LogTyped
  <2>7. /\ failed' = failed
        /\ UNCHANGED <<stage, making, turns, stable, client, clients, writeEnabled, claimed,
                       bundle, cache, slot, fetches, inits,
                       queue, queues, version, wire, events, hurt, crossed>>
    BY <1>16 DEF WriterWrites, sessionVars, clientVars
  <2> QED BY <2>4, <2>5, <2>6, <2>7 DEF TypeOK
<1>17. ASSUME NEW w \in Writers, WriterFails(w) PROVE TypeOK'
  <2> DEFINE v == writers[w]
             b == v.batch
  <2>1. v.phase = "sent" /\ v \in WriterStates
    BY <1>17 DEF WriterFails, TypeOK
  <2>2. v.space \in Spaces /\ b \in TurnBatches
    BY <2>1, WriterStatesAre
  <2>3. b.turn \in Turns /\ b.items \in {<<PrefetchKey(b.turn)>>} \cup Answers(b.turn)
    BY <2>2, BatchesAre
  <2>4. writers' \in [Writers -> WriterStates]
    <3>1. writers' = [writers EXCEPT ![w] = Loop(w)]
      BY <1>17 DEF WriterFails
    <3> QED BY <3>1, LoopTyped DEF TypeOK
  <2>5. crowded' \in BOOLEAN
    BY <1>17 DEF WriterFails, TypeOK, Crowds
  <2> DEFINE Items == {<<PrefetchKey(u)>> : u \in Turns} \cup UNION {Answers(u) : u \in Turns}
  <2>6. log' \in [Spaces -> Seq(Keys)] /\ wire' \subseteq [space : Spaces, items : Items]
    <3>1. CASE wire' = wire \cup {[space |-> v.space, items |-> b.items]} /\ UNCHANGED log
      <4>1. [space |-> v.space, items |-> b.items] \in [space : Spaces, items : Items]
        <5>1. b.items \in Answers(b.turn)
          BY <2>2, BatchesAre
        <5> HIDE DEF b
        <5> QED BY <2>2, <2>3, <5>1
      <4>2. wire \subseteq [space : Spaces, items : Items]
        BY DEF TypeOK
      <4> QED BY <3>1, <4>1, <4>2 DEF TypeOK
    <3>2. CASE log' = [log EXCEPT ![v.space] = Recorded(@, b.items)] /\ UNCHANGED wire
      <4>1. log' \in [Spaces -> Seq(Keys)]
        BY <2>2, <2>3, <3>2, LogTyped
      <4> QED BY <3>2, <4>1 DEF TypeOK
    <3> QED BY <1>17, <3>1, <3>2 DEF WriterFails
  <2>7. failed' \subseteq DOMAIN turns
    <3>1. failed' = failed \cup {b.turn}
      BY <1>17 DEF WriterFails
    <3>2. b.turn \in DOMAIN turns
      <4>1. b.items \in Answers(b.turn)
        BY <2>2, BatchesAre
      <4>2. Len(b.items) \in DOMAIN b.items /\ b.items[Len(b.items)] = AnswerKey(b.turn)
        <5>1. /\ Len(b.items) \in {1, 2} /\ DOMAIN b.items = 1..Len(b.items)
              /\ b.items[Len(b.items)] = AnswerKey(b.turn)
          BY <2>3, <4>1, AnswersAre
        <5>2. \A n \in {1, 2} : n \in 1..n
          OBVIOUS
        <5> QED BY <5>1, <5>2
      <4>3. Issued(AnswerKey(b.turn))
        BY <2>1, <2>2, <4>2 DEF Issued, Bound, Writing
      <4> QED BY <2>3, <4>3, KeysDistinct DEF KeysBegun
    <3> QED BY <3>1, <3>2 DEF TypeOK
  <2>8. events' \in 0..MaxEvents
    BY <1>1, <1>17 DEF WriterFails
  <2>9. UNCHANGED <<stage, making, turns, stable, client, clients, writeEnabled, claimed, bundle,
                    cache, slot, fetches, inits,
                    queue, queues, version, hurt, crossed>>
    BY <1>17 DEF WriterFails, sessionVars, clientVars
  <2> QED BY <2>4, <2>5, <2>6, <2>7, <2>8, <2>9 DEF TypeOK
<1>18. CASE UNCHANGED vars
  BY <1>18 DEF vars, sessionVars, clientVars, writerVars, serverVars, histories, TypeOK
<1> QED
  BY <1>2, <1>3, <1>4, <1>5, <1>6, <1>7, <1>8, <1>9, <1>10, <1>11, <1>12, <1>13, <1>14, <1>15,
     <1>16, <1>17,
     <1>18, <1>19, <1>20, <1>21, <1>22 DEF Next

-----------------------------------------------------------------------------
(* Turns and requests. *)

\* When the client or the queue changes, every turn so far is disturbed.
LEMMA HurtStep ==
    ASSUME TypeOK, [Next]_vars
    PROVE  /\ hurt' = Len(turns') \/ UNCHANGED <<hurt, client, clients, queue, inits>>
           /\ Len(turns') \in Nat /\ Len(turns) <= Len(turns')
<1>0. Len(turns) \in Nat
  BY TurnsTyped
<1>1. ASSUME NEW s \in Sessions, PreCall(s)
      PROVE  /\ hurt' = Len(turns') \/ UNCHANGED <<hurt, client, clients, queue, inits>>
             /\ Len(turns') \in Nat /\ Len(turns) <= Len(turns')
  <2>1. /\ hurt' = IF client = None THEN Len(turns) + 1 ELSE hurt
        /\ UNCHANGED <<client, clients, queue, inits>>
        /\ \E x : turns' = Append(turns, [session |-> s, text |-> x])
    BY <1>1 DEF PreCall, clientVars
  <2>2. Len(turns') = Len(turns) + 1
    BY <1>1, <2>1, TurnOfBegun
  <2> QED BY <1>0, <2>1, <2>2
<1>2. ASSUME NEW s \in Sessions,
             SessionStart(s) \/ EnsureInitialized(s) \/ MakeClient(s) \/ MakeQueue(s) \/ SessionStarted(s)
             \/ FinalizeBegin(s) \/ FinalizeEnd(s) \/ Prefetch(s) \/ JoinTimeout(s) \/ PostCall(s) \/ Abort(s)
      PROVE  turns' = turns /\ (hurt' = Len(turns) \/ UNCHANGED <<hurt, client, clients, queue, inits>>)
  BY <1>2 DEF SessionStart, EnsureInitialized, Clear, MakeClient, MakeQueue, SessionStarted,
              FinalizeBegin,
         FinalizeEnd, Prefetch, JoinTimeout, PostCall, Abort, clientVars, histories
<1>3. ASSUME \/ \E t \in DOMAIN turns : ServeFetch(t) \/ FetchEnd(t) \/ FetchFails(t) \/ WaitEnd(t)
             \/ \E w \in Writers : WriterTake(w) \/ WriterWrites(w) \/ WriterFails(w)
             \/ ServeLate \/ (\E sp \in Spaces : Change(sp)) \/ UNCHANGED vars
      PROVE  UNCHANGED <<turns, hurt, client, clients, queue, inits>>
  BY <1>3 DEF ServeFetch, FetchEnd, FetchFails, WaitEnd, WriterTake, WriterWrites, WriterFails,
              ServeLate,
         Change, vars, sessionVars, clientVars, histories
<1> QED BY <1>0, <1>1, <1>2, <1>3 DEF Next

\* Only pre_llm_call begins a turn.
LEMMA StageStep ==
    ASSUME TypeOK, [Next]_vars, \A s \in Sessions : ~ PreCall(s)
    PROVE  /\ turns' = turns
           /\ \A r \in Sessions : InTurn(r)' => InTurn(r)
           /\ \A r \in Sessions : stage'[r] = "stable" => stage[r] = "stable"
<1>1. ASSUME turns' = turns, NEW s \in Sessions,
             \/ stage' = stage
             \/ stage' = [stage EXCEPT ![s] = "idle"]
             \/ \E to \in {"closing", "starting", "preparing"} : stage' = [stage EXCEPT ![s] = to]
             \/ InTurn(s) /\ stage' = [stage EXCEPT ![s] = "answering"]
             \/ InTurn(s) /\ stage' = [stage EXCEPT ![s] = "join"]
             \/ InTurn(s) /\ stage' = [stage EXCEPT ![s] = "asked"]
      PROVE  /\ turns' = turns
             /\ \A r \in Sessions : InTurn(r)' => InTurn(r)
             /\ \A r \in Sessions : stage'[r] = "stable" => stage[r] = "stable"
  BY <1>1 DEF InTurn, TypeOK
<1>2. ASSUME stage' = stage, turns' = turns
      PROVE  /\ turns' = turns
             /\ \A r \in Sessions : InTurn(r)' => InTurn(r)
             /\ \A r \in Sessions : stage'[r] = "stable" => stage[r] = "stable"
  BY <1>2 DEF InTurn
<1>3. ASSUME NEW s \in Sessions,
             SessionStart(s) \/ EnsureInitialized(s) \/ MakeClient(s) \/ MakeQueue(s) \/ SessionStarted(s)
             \/ FinalizeBegin(s) \/ FinalizeEnd(s) \/ Prefetch(s) \/ JoinTimeout(s) \/ PostCall(s) \/ Abort(s)
      PROVE  /\ turns' = turns
             /\ \/ stage' = stage
                \/ stage' = [stage EXCEPT ![s] = "idle"]
                \/ \E to \in {"closing", "starting", "preparing"} : stage' = [stage EXCEPT ![s] = to]
                \/ InTurn(s) /\ stage' = [stage EXCEPT ![s] = "answering"]
                \/ InTurn(s) /\ stage' = [stage EXCEPT ![s] = "join"]
                \/ InTurn(s) /\ stage' = [stage EXCEPT ![s] = "asked"]
  BY <1>3 DEF SessionStart, EnsureInitialized, Clear, MakeClient, MakeQueue, SessionStarted,
              FinalizeBegin,
         FinalizeEnd, Prefetch, JoinTimeout, PostCall, Abort, sessionVars, InTurn
<1>4. ASSUME NEW t \in DOMAIN turns, FetchEnd(t) \/ FetchFails(t) \/ WaitEnd(t)
      PROVE  /\ turns' = turns /\ turns[t].session \in Sessions
             /\ \/ stage' = stage
                \/ InTurn(turns[t].session) /\ stage' = [stage EXCEPT ![turns[t].session] = "asked"]
  <2>1. turns' = turns /\ \E b : Deliver(t, b)
    BY <1>4 DEF FetchEnd, FetchFails, WaitEnd
  <2> QED BY <2>1, DeliverStage DEF InTurn
<1>5. ASSUME \/ \E t \in DOMAIN turns : ServeFetch(t)
             \/ \E w \in Writers : WriterTake(w) \/ WriterWrites(w) \/ WriterFails(w)
             \/ ServeLate \/ (\E sp \in Spaces : Change(sp)) \/ UNCHANGED vars
      PROVE  turns' = turns /\ stage' = stage
  BY <1>5 DEF ServeFetch, WriterTake, WriterWrites, WriterFails, ServeLate, Change, vars, sessionVars
<1>6. CASE \E s \in Sessions :
             SessionStart(s) \/ EnsureInitialized(s) \/ MakeClient(s) \/ MakeQueue(s) \/ SessionStarted(s)
             \/ FinalizeBegin(s) \/ FinalizeEnd(s) \/ Prefetch(s) \/ JoinTimeout(s) \/ PostCall(s) \/ Abort(s)
  BY <1>1, <1>3, <1>6
<1>7. CASE \E t \in DOMAIN turns : FetchEnd(t) \/ FetchFails(t) \/ WaitEnd(t)
  <2>1. PICK t \in DOMAIN turns : FetchEnd(t) \/ FetchFails(t) \/ WaitEnd(t)
    BY <1>7
  <2> QED BY <1>1, <1>4, <2>1
<1> QED BY <1>2, <1>5, <1>6, <1>7 DEF Next

\* A conversation that is in a turn stays in its last one.
LEMMA TurnsSoundKept ==
    ASSUME TypeOK, TurnsSound, [Next]_vars PROVE TurnsSound'
<1>0. Len(turns) \in Nat /\ DOMAIN turns = 1..Len(turns)
  BY TurnsTyped
<1>1. ASSUME NEW s \in Sessions, PreCall(s) PROVE TurnsSound'
  <2>1. PICK x : turns' = Append(turns, [session |-> s, text |-> x])
    BY <1>1 DEF PreCall
  <2>2. /\ DOMAIN turns' = 1..(Len(turns) + 1) /\ Len(turns') = Len(turns) + 1
        /\ \A t \in DOMAIN turns : turns'[t] = turns[t]
        /\ turns'[Len(turns) + 1] = [session |-> s, text |-> x]
        /\ \A r \in Sessions \ {s} : TurnOf(r)' = TurnOf(r)
        /\ TurnOf(s)' = Len(turns) + 1
    BY <2>1, TurnOfBegun
  <2>3. hurt' < Len(turns') => client' # None
    <3>1. hurt' = Len(turns) + 1 \/ client' # None
      BY <1>1 DEF PreCall, clientVars
    <3> QED BY <1>0, <2>2, <3>1
  <2>4. \A r \in Sessions : r # s /\ InTurn(r)' => InTurn(r)
    BY <1>1 DEF PreCall, InTurn, TypeOK
  <2>5. TurnOf(s)' # 0 /\ TurnOf(s)' \in 0..Len(turns')
    BY <1>0, <2>2
  <2>6. turns'[TurnOf(s)'].session = s
    BY <2>2
  <2>7. ASSUME NEW r \in Sessions
        PROVE  /\ TurnOf(r)' \in 0..Len(turns')
               /\ TurnOf(r)' # 0 => turns'[TurnOf(r)'].session = r
               /\ InTurn(r)' => TurnOf(r)' # 0
               /\ \A t \in DOMAIN turns' : turns'[t].session = r => t <= TurnOf(r)'
    <3>1. CASE r = s
      BY <1>0, <2>2, <2>5, <2>6, <3>1
    <3>2. CASE r # s
      <4>1. TurnOf(r)' = TurnOf(r) /\ TurnOf(r) \in 0..Len(turns)
        BY <2>2, <3>2 DEF TurnsSound
      <4>2. TurnOf(r) # 0 => TurnOf(r) \in DOMAIN turns
        BY <1>0, <4>1
      <4>3. ASSUME NEW t \in DOMAIN turns', turns'[t].session = r PROVE t \in DOMAIN turns /\ turns[t].session = r
        <5>1. t # Len(turns) + 1
          BY <2>2, <3>2, <4>3
        <5> QED BY <1>0, <2>2, <4>3, <5>1
      <4>4. TurnOf(r) \in 0..Len(turns')
        BY <1>0, <2>2, <4>1
      <4> QED BY <2>2, <2>4, <3>2, <4>1, <4>2, <4>3, <4>4 DEF TurnsSound
    <3> QED BY <3>1, <3>2
  <2> QED BY <2>3, <2>7 DEF TurnsSound
<1>2. CASE \A s \in Sessions : ~ PreCall(s)
  <2>1. turns' = turns /\ \A r \in Sessions : InTurn(r)' => InTurn(r)
    BY <1>2, StageStep
  <2>2. \A r : TurnOf(r)' = TurnOf(r)
    BY <2>1, TurnOfSame
  <2>3. hurt' = Len(turns') \/ (hurt' = hurt /\ client' = client)
    BY HurtStep
  <2>4. hurt' < Len(turns') => client' # None
    BY <1>0, <2>1, <2>3 DEF TurnsSound
  <2> QED BY <2>1, <2>2, <2>4 DEF TurnsSound
<1> QED BY <1>1, <1>2

\* The turn a conversation is in.
LEMMA TurnIs ==
    ASSUME TypeOK, TurnsSound, NEW s \in Sessions, InTurn(s)
    PROVE  /\ TurnOf(s) \in DOMAIN turns /\ TurnOf(s) \in Turns /\ turns[TurnOf(s)].session = s
           /\ \A t \in DOMAIN turns : turns[t].session = s => t \in 1..TurnOf(s)
           /\ \A r \in Sessions \ {s} : TurnOf(r) # TurnOf(s)
<1>1. Len(turns) \in Nat /\ DOMAIN turns = 1..Len(turns) /\ DOMAIN turns \subseteq Turns
  BY TurnsTyped
<1>2. TurnOf(s) \in 0..Len(turns) /\ TurnOf(s) # 0 /\ turns[TurnOf(s)].session = s
  BY DEF TurnsSound
<1>3. TurnOf(s) \in DOMAIN turns
  BY <1>1, <1>2
<1>4. ASSUME NEW t \in DOMAIN turns, turns[t].session = s PROVE t \in 1..TurnOf(s)
  <2>1. t <= TurnOf(s)
    BY <1>4 DEF TurnsSound
  <2> QED BY <1>1, <1>2, <2>1
<1>5. ASSUME NEW r \in Sessions \ {s} PROVE TurnOf(r) # TurnOf(s)
  BY <1>2 DEF TurnsSound
<1> QED BY <1>1, <1>2, <1>3, <1>4, <1>5

\* Between two prefetches a conversation's slot only goes, or is settled.
LEMMA SlotKept ==
    ASSUME TypeOK, [Next]_vars, NEW r \in Sessions, ~ Prefetch(r), slot'[r] # None
    PROVE  slot[r] # None /\ slot'[r].key = slot[r].key /\ slot'[r].text = slot[r].text
<1>1. slot[r] \in Slots \cup {None}
  BY DEF TypeOK
<1>2. CASE slot'[r] \in {slot[r], None}
  BY <1>2
<1>3. ASSUME NEW s \in Sessions,
             SessionStart(s) \/ EnsureInitialized(s) \/ MakeClient(s) \/ MakeQueue(s) \/ SessionStarted(s)
             \/ FinalizeBegin(s) \/ FinalizeEnd(s) \/ PreCall(s) \/ JoinTimeout(s) \/ PostCall(s) \/ Abort(s)
      PROVE  slot'[r] \in {slot[r], None}
  BY <1>3 DEF SessionStart, EnsureInitialized, Clear, MakeClient, MakeQueue, SessionStarted,
              FinalizeBegin,
         FinalizeEnd, PreCall, JoinTimeout, PostCall, Abort, TypeOK
<1>4. ASSUME NEW s \in Sessions, Prefetch(s) PROVE slot'[r] = slot[r]
  <2>1. slot' = slot \/ slot' = [slot EXCEPT ![s] = FreshSlot(TurnOf(s))]
    BY <1>4 DEF Prefetch
  <2>2. r # s
    BY <1>4
  <2> QED BY <2>1, <2>2 DEF TypeOK
<1>5. ASSUME NEW t \in DOMAIN turns, FetchEnd(t)
      PROVE  slot[r] # None /\ slot'[r].key = slot[r].key /\ slot'[r].text = slot[r].text
  <2>1. slot' = Settled(t)
    BY <1>5 DEF FetchEnd
  <2> QED BY <1>1, <2>1 DEF Settled, Slots
<1>6. ASSUME \/ \E t \in DOMAIN turns : ServeFetch(t) \/ FetchFails(t) \/ WaitEnd(t)
             \/ \E w \in Writers : WriterTake(w) \/ WriterWrites(w) \/ WriterFails(w)
             \/ ServeLate \/ (\E sp \in Spaces : Change(sp)) \/ UNCHANGED vars
      PROVE  slot' = slot
  BY <1>6 DEF ServeFetch, FetchFails, WaitEnd, WriterTake, WriterWrites, WriterFails, ServeLate,
              Change, vars
<1> QED BY <1>2, <1>3, <1>4, <1>5, <1>6 DEF Next

\* Only the prefetch takes a turn on from its stable block.
LEMMA StableStep ==
    ASSUME TypeOK, [Next]_vars, NEW r \in Sessions, ~ Prefetch(r), stage[r] = "stable"
    PROVE  stage'[r] = "stable"
<1>1. ASSUME NEW s \in Sessions, NEW to, stage[s] # "stable", stage' = [stage EXCEPT ![s] = to]
      PROVE  stage'[r] = "stable"
  BY <1>1 DEF TypeOK
<1>2. ASSUME NEW s \in Sessions, making[s] # "none" PROVE stage[s] # "stable"
  BY <1>2, MakingIn
<1>3. ASSUME NEW s \in Sessions,
             SessionStart(s) \/ EnsureInitialized(s) \/ MakeClient(s) \/ MakeQueue(s) \/ SessionStarted(s)
             \/ FinalizeBegin(s) \/ FinalizeEnd(s) \/ PreCall(s) \/ JoinTimeout(s) \/ PostCall(s) \/ Abort(s)
      PROVE  stage' = stage \/ (stage[s] # "stable" /\ \E to : stage' = [stage EXCEPT ![s] = to])
  BY <1>3 DEF SessionStart, EnsureInitialized, MakeClient, MakeQueue, SessionStarted, FinalizeBegin,
         FinalizeEnd, PreCall, JoinTimeout, PostCall, Abort
<1>4. ASSUME NEW s \in Sessions, Prefetch(s) PROVE stage'[r] = "stable"
  <2>1. \E to : stage' = [stage EXCEPT ![s] = to]
    BY <1>4 DEF Prefetch
  <2>2. r # s
    BY <1>4
  <2> QED BY <2>1, <2>2 DEF TypeOK
<1>5. ASSUME NEW t \in DOMAIN turns, FetchEnd(t) \/ FetchFails(t) \/ WaitEnd(t)
      PROVE  stage'[r] = "stable"
  <2>1. \E b : Deliver(t, b)
    BY <1>5 DEF FetchEnd, FetchFails, WaitEnd
  <2> QED BY <1>1, <2>1, DeliverStage
<1>6. ASSUME \/ \E t \in DOMAIN turns : ServeFetch(t)
             \/ \E w \in Writers : WriterTake(w) \/ WriterWrites(w) \/ WriterFails(w)
             \/ ServeLate \/ (\E sp \in Spaces : Change(sp)) \/ UNCHANGED vars
      PROVE  stage' = stage
  BY <1>6 DEF ServeFetch, WriterTake, WriterWrites, WriterFails, ServeLate, Change, vars, sessionVars
<1> QED BY <1>1, <1>3, <1>4, <1>5, <1>6 DEF Next

\* An undisturbed turn has not come upon the slot of a disturbed one.
LEMMA SlotsSoundKept ==
    ASSUME TypeOK, TypeOK', TurnsSound, TurnsSound', SlotsSound, [Next]_vars PROVE SlotsSound'
<1>0. Len(turns) \in Nat /\ Len(turns') \in Nat /\ hurt \in Nat
  BY TurnsTyped DEF TypeOK
<1> SUFFICES ASSUME NEW r \in Sessions, InTurn(r)', stage'[r] # "stable", TurnOf(r)' > hurt',
                    Matches(slot[r], TurnOf(r))'
             PROVE  slot'[r].key > hurt'
  BY DEF SlotsSound
<1>1. hurt' = hurt /\ TurnOf(r)' \in Nat
  <2>1. TurnOf(r)' \in 0..Len(turns')
    BY DEF TurnsSound
  <2>2. hurt' # Len(turns')
    BY <1>0, <2>1
  <2> QED BY <1>0, <2>1, <2>2, HurtStep
<1>2. slot'[r] # None /\ slot'[r].text = turns'[TurnOf(r)'].text
  BY DEF Matches
<1>3. CASE Prefetch(r)
  <2> DEFINE t == TurnOf(r)
  <2>1. turns' = turns /\ TurnOf(r)' = t
    BY <1>3, TurnOfSame DEF Prefetch
  <2>2. (Matches(slot[r], t) /\ slot[r].key <= hurt) => hurt' = Len(turns)
    BY <1>3 DEF Prefetch
  <2>3. hurt' # Len(turns)
    <3>1. t \in 0..Len(turns)
      BY DEF TurnsSound
    <3> QED BY <1>0, <2>1, <3>1
  <2>4. CASE slot' = slot
    <3>1. Matches(slot[r], t)
      BY <1>2, <2>1, <2>4 DEF Matches
    <3>2. slot[r].key \in Nat
      <4>1. slot[r].key \in DOMAIN turns
        BY <3>1 DEF TypeOK, Matches
      <4> QED BY <4>1, TurnsTyped
    <3> QED BY <1>0, <1>1, <2>2, <2>3, <2>4, <3>1, <3>2
  <2>5. CASE slot' = [slot EXCEPT ![r] = FreshSlot(t)]
    <3>1. slot'[r].key = t
      BY <2>5 DEF TypeOK, FreshSlot
    <3> QED BY <2>1, <3>1
  <2> QED BY <1>3, <2>4, <2>5 DEF Prefetch
<1>4. CASE ~ Prefetch(r)
  <2>1. slot[r] # None /\ slot'[r].key = slot[r].key /\ slot'[r].text = slot[r].text
    BY <1>2, <1>4, SlotKept
  <2>2. stage[r] # "stable"
    BY <1>4, StableStep
  <2>3. InTurn(r) /\ TurnOf(r)' = TurnOf(r) /\ turns'[TurnOf(r)'].text = turns[TurnOf(r)].text
    <3>1. ASSUME NEW s \in Sessions, PreCall(s)
          PROVE  InTurn(r) /\ TurnOf(r)' = TurnOf(r) /\ turns'[TurnOf(r)'].text = turns[TurnOf(r)].text
      <4>1. stage' = [stage EXCEPT ![s] = "stable"]
        BY <3>1 DEF PreCall
      <4>2. r # s /\ stage'[r] = stage[r]
        BY <4>1 DEF TypeOK
      <4>3. PICK x : turns' = Append(turns, [session |-> s, text |-> x])
        BY <3>1 DEF PreCall
      <4>4. TurnOf(r)' = TurnOf(r) /\ \A t \in DOMAIN turns : turns'[t] = turns[t]
        BY <4>2, <4>3, TurnOfBegun
      <4>5. InTurn(r)
        BY <4>2 DEF InTurn
      <4>6. TurnOf(r) \in DOMAIN turns
        BY <4>5, TurnIs
      <4> QED BY <4>4, <4>5, <4>6
    <3>2. CASE \A s \in Sessions : ~ PreCall(s)
      <4>1. InTurn(r) /\ turns' = turns
        BY <3>2, StageStep
      <4> QED BY <4>1, TurnOfSame
    <3> QED BY <3>1, <3>2
  <2>4. Matches(slot[r], TurnOf(r)) /\ TurnOf(r) > hurt
    BY <1>1, <1>2, <2>1, <2>3 DEF Matches
  <2> QED BY <1>1, <2>1, <2>2, <2>3, <2>4 DEF SlotsSound
<1> QED BY <1>3, <1>4

\* A step that takes turn t's thread from one phase to the next.
LEMMA FetchStep ==
    ASSUME TypeOK, FetchesSound, NEW t \in DOMAIN turns, NEW g,
           fetches' = [fetches EXCEPT ![t] = g], turns' = turns,
           g.phase # "none", Asked(t) => g.phase \in {"sent", "served", "ended"},
           g.phase = "wait" => Asked(g.on) /\ g.on # t,
           g.phase \in {"sent", "served"} => g.space \in Spaces,
           g.phase \in {"sent", "wait"} => g.now = None /\ g.update = None,
           g.phase = "served" /\ g.now # None => Shown(g) = g.now,
           g.phase = "ended" /\ g.now # None => g.update = g.now,
           \A s \in Sessions : stage'[s] = "stable" => stage[s] = "stable" /\ TurnOf(s) # t,
           \A s \in Sessions : slot'[s] # None =>
             \/ /\ slot[s] # None /\ slot'[s].key = slot[s].key /\ slot'[s].text = slot[s].text
             \/ /\ slot'[s].key = t /\ g.phase = "sent"
                /\ turns[t] = [session |-> s, text |-> slot'[s].text]
    PROVE  FetchesSound'
<1>0. t \in Turns /\ DOMAIN turns \subseteq Turns
  BY TurnsTyped
<1>1. /\ fetches'[t] = g /\ \A u \in Turns \ {t} : fetches'[u] = fetches[u]
  BY <1>0 DEF TypeOK
<1>2. \A u \in Turns : Asked(u) => Asked(u)'
  BY <1>0, <1>1 DEF Asked
<1>3. \A u \in Turns \ DOMAIN turns' : fetches'[u].phase = "none"
  BY <1>1 DEF FetchesSound
<1>4. ASSUME NEW s \in Sessions, stage'[s] = "stable" PROVE fetches'[TurnOf(s)'].phase = "none"
  <2>1. TurnOf(s)' = TurnOf(s) /\ stage[s] = "stable" /\ TurnOf(s) # t
    BY <1>4, TurnOfSame
  <2>2. fetches' = [fetches EXCEPT ![t] = g] /\ fetches[TurnOf(s)].phase = "none"
    BY <2>1 DEF FetchesSound
  <2>3. fetches'[TurnOf(s)] = fetches[TurnOf(s)]
    BY <2>1, <2>2 DEF TypeOK
  <2> QED BY <2>1, <2>2, <2>3
<1>5. ASSUME NEW s \in Sessions, slot'[s] # None
      PROVE  Asked(slot[s].key)' /\ turns'[slot'[s].key] = [session |-> s, text |-> slot'[s].text]
  <2>1. CASE slot[s] # None /\ slot'[s].key = slot[s].key /\ slot'[s].text = slot[s].text
    <3>1. Asked(slot[s].key) /\ turns[slot[s].key] = [session |-> s, text |-> slot[s].text]
      BY <2>1 DEF FetchesSound
    <3>2. slot[s].key \in Turns
      BY <1>0, <3>1 DEF Asked
    <3> QED BY <1>2, <2>1, <3>1, <3>2
  <2>2. CASE /\ slot'[s].key = t /\ g.phase = "sent" /\ turns[t] = [session |-> s, text |-> slot'[s].text]
    BY <1>1, <2>2 DEF Asked
  <2> QED BY <1>5, <2>1, <2>2
<1>6. ASSUME NEW u \in Turns
      PROVE  /\ fetches'[u].phase = "wait" => Asked(fetches[u].on)'
             /\ fetches'[u].phase \in {"sent", "served"} => fetches'[u].space \in Spaces
             /\ fetches'[u].phase \in {"none", "sent", "wait"} =>
                  fetches'[u].now = None /\ fetches'[u].update = None
             /\ fetches'[u].phase = "served" /\ fetches'[u].now # None =>
                  Shown(fetches'[u]) = fetches'[u].now
             /\ fetches'[u].phase = "ended" /\ fetches'[u].now # None =>
                  fetches'[u].update = fetches'[u].now
  <2>1. ASSUME NEW k, Asked(k) PROVE Asked(k)'
    BY <1>0, <1>2, <2>1 DEF Asked
  <2>2. CASE u = t
    BY <1>1, <2>1, <2>2
  <2>3. CASE u # t
    BY <1>1, <2>1, <2>3 DEF FetchesSound
  <2> QED BY <2>2, <2>3
<1> QED BY <1>3, <1>4, <1>5, <1>6 DEF FetchesSound, Shown

\* What a request brings is what the server had when it answered.
LEMMA FetchesSoundKept ==
    ASSUME TypeOK, TurnsSound, FetchesSound, [Next]_vars PROVE FetchesSound'
<1>0. /\ Len(turns) \in Nat /\ DOMAIN turns = 1..Len(turns) /\ DOMAIN turns \subseteq Turns
      /\ \A b \in Bundles : b # None
  BY TurnsTyped, Kinds
<1>1. ASSUME fetches' = fetches, turns' = turns,
             \A r \in Sessions : stage'[r] = "stable" => stage[r] = "stable",
             \A r \in Sessions : slot'[r] # None => slot'[r] = slot[r]
      PROVE  FetchesSound'
  <2>1. \A r : TurnOf(r)' = TurnOf(r)
    BY <1>1, TurnOfSame
  <2>2. \A r \in Sessions : stage'[r] = "stable" => fetches'[TurnOf(r)'].phase = "none"
    BY <1>1, <2>1 DEF FetchesSound
  <2>3. \A r \in Sessions : slot'[r] # None =>
           /\ Asked(slot[r].key)'
           /\ turns'[slot'[r].key] = [session |-> r, text |-> slot'[r].text]
    BY <1>1 DEF FetchesSound, Asked
  <2>4. \A t \in Turns :
           /\ fetches'[t].phase = "wait" => Asked(fetches[t].on)'
           /\ Shown(fetches[t])' = Shown(fetches[t])
    BY <1>1 DEF FetchesSound, Asked, Shown
  <2>5. /\ \A t \in Turns \ DOMAIN turns' : fetches'[t].phase = "none"
    BY <1>1 DEF FetchesSound
  <2> QED BY <1>1, <2>2, <2>3, <2>4, <2>5 DEF FetchesSound
<1>2. ASSUME NEW s \in Sessions, PreCall(s) PROVE FetchesSound'
  <2>1. PICK x : turns' = Append(turns, [session |-> s, text |-> x])
    BY <1>2 DEF PreCall
  <2>2. /\ DOMAIN turns' = 1..(Len(turns) + 1) /\ Len(turns') = Len(turns) + 1
        /\ \A t \in DOMAIN turns : turns'[t] = turns[t]
        /\ \A r \in Sessions \ {s} : TurnOf(r)' = TurnOf(r)
        /\ TurnOf(s)' = Len(turns) + 1
    BY <2>1, TurnOfBegun
  <2>3. /\ fetches' = fetches /\ stage' = [stage EXCEPT ![s] = "stable"] /\ Len(turns) + 1 \in Turns
        /\ \A r \in Sessions : slot'[r] # None => slot'[r] = slot[r]
    BY <1>0, <1>2, Kinds DEF PreCall, Turns
  <2>4. fetches[Len(turns) + 1].phase = "none"
    BY <1>0, <2>3 DEF FetchesSound
  <2>5. \A r \in Sessions : stage'[r] = "stable" => fetches'[TurnOf(r)'].phase = "none"
    <3>1. ASSUME NEW r \in Sessions, r # s, stage'[r] = "stable" PROVE fetches'[TurnOf(r)'].phase = "none"
      <4>1. TurnOf(r)' = TurnOf(r) /\ stage[r] = "stable"
        BY <2>2, <2>3, <3>1 DEF TypeOK
      <4> QED BY <2>3, <4>1 DEF FetchesSound
    <3>2. fetches'[TurnOf(s)'].phase = "none"
      BY <2>2, <2>3, <2>4
    <3> QED BY <3>1, <3>2
  <2>6. DOMAIN turns \subseteq DOMAIN turns'
    BY <1>0, <2>2
  <2>7. \A r \in Sessions : slot'[r] # None =>
           /\ Asked(slot[r].key)'
           /\ turns'[slot'[r].key] = [session |-> r, text |-> slot'[r].text]
    BY <2>2, <2>3, <2>6 DEF FetchesSound, Asked
  <2>8. \A t \in Turns :
           /\ fetches'[t].phase = "wait" => Asked(fetches[t].on)'
           /\ Shown(fetches[t])' = Shown(fetches[t])
    BY <2>3, <2>6 DEF FetchesSound, Asked, Shown
  <2>9. \A t \in Turns \ DOMAIN turns' : fetches'[t].phase = "none"
    BY <2>3, <2>6 DEF FetchesSound
  <2> QED BY <2>3, <2>5, <2>7, <2>8, <2>9 DEF FetchesSound
<1>3. ASSUME NEW s \in Sessions, Prefetch(s) PROVE FetchesSound'
  <2> DEFINE t == TurnOf(s)
             wait == [NoFetch EXCEPT !.phase = "wait", !.on = slot[s].key, !.gen = clients]
             sent == [NoFetch EXCEPT !.phase = "sent", !.space = client, !.gen = clients, !.cached = bundle']
  <2>1. /\ stage[s] = "stable" /\ InTurn(s) /\ turns' = turns
        /\ stage' \in {[stage EXCEPT ![s] = "asked"], [stage EXCEPT ![s] = "join"]}
    BY <1>3 DEF Prefetch, InTurn
  <2>2. t \in DOMAIN turns /\ turns[t].session = s /\ \A r \in Sessions \ {s} : TurnOf(r) # t
    BY <2>1, TurnIs
  <2>3. \A r \in Sessions : stage'[r] = "stable" => stage[r] = "stable" /\ TurnOf(r) # t
    BY <2>1, <2>2 DEF TypeOK
  <2>4. fetches[t].phase = "none" /\ ~ Asked(t)
    BY <2>1 DEF FetchesSound, Asked
  <2>5. CASE UNCHANGED <<slot, fetches>>
    BY <1>1, <2>1, <2>3, <2>5
  <2>6. CASE Matches(slot[s], t) /\ fetches' = [fetches EXCEPT ![t] = wait] /\ UNCHANGED slot
    <3>1. Asked(slot[s].key) /\ slot[s].key # t
      BY <2>4, <2>6 DEF FetchesSound, Matches
    <3>2. /\ wait.phase = "wait" /\ wait.on = slot[s].key /\ wait.now = None /\ wait.update = None
      BY DEF NoFetch
    <3> HIDE DEF t, wait
    <3> QED BY <2>1, <2>2, <2>3, <2>4, <2>6, <3>1, <3>2, FetchStep
  <2>7. CASE /\ client # None /\ slot' = [slot EXCEPT ![s] = FreshSlot(t)]
             /\ fetches' = [fetches EXCEPT ![t] = sent]
    <3>1. /\ sent.phase = "sent" /\ sent.space = client /\ sent.now = None /\ sent.update = None
          /\ client \in Spaces
      BY <2>7 DEF NoFetch, TypeOK
    <3>2. FreshSlot(t).key = t /\ turns[t] = [session |-> s, text |-> FreshSlot(t).text]
      <4>1. turns[t] \in [session : Sessions, text : Turns]
        BY <2>2, TurnsTyped
      <4> QED BY <2>2, <4>1 DEF FreshSlot
    <3>3. slot' = [r \in Sessions |-> IF r = s THEN FreshSlot(t) ELSE slot[r]]
      BY <2>7 DEF TypeOK
    <3> HIDE DEF t, sent
    <3>4. \A r \in Sessions : slot'[r] # None =>
             \/ /\ slot[r] # None /\ slot'[r].key = slot[r].key /\ slot'[r].text = slot[r].text
             \/ /\ slot'[r].key = t /\ sent.phase = "sent"
                /\ turns[t] = [session |-> r, text |-> slot'[r].text]
      BY <3>1, <3>2, <3>3
    <3> QED BY <2>1, <2>2, <2>3, <2>4, <2>7, <3>1, <3>4, FetchStep
  <2> QED BY <1>3, <2>5, <2>6, <2>7 DEF Prefetch
<1>4. ASSUME NEW t \in DOMAIN turns, turns' = turns, fetches[t].phase # "none", NEW g,
             fetches' = [fetches EXCEPT ![t] = g],
             g.phase \in {"served", "ended"},
             g.phase = "served" => g.space \in Spaces,
             g.phase = "served" /\ g.now # None => Shown(g) = g.now,
             g.phase = "ended" /\ g.now # None => g.update = g.now,
             \A r \in Sessions : stage'[r] = "stable" => stage[r] = "stable",
             \A r \in Sessions : slot'[r] # None =>
                slot[r] # None /\ slot'[r].key = slot[r].key /\ slot'[r].text = slot[r].text
      PROVE  FetchesSound'
  <2>1. \A r \in Sessions : stage'[r] = "stable" => stage[r] = "stable" /\ TurnOf(r) # t
    BY <1>4 DEF FetchesSound
  <2> QED BY <1>4, <2>1, FetchStep
<1>5. ASSUME NEW t \in DOMAIN turns, ServeFetch(t) PROVE FetchesSound'
  <2> DEFINE f == fetches[t]
             full == [f EXCEPT !.phase = "served", !.now = Current(f.space), !.update = Update(f)]
             bare == [f EXCEPT !.phase = "served"]
  <2>1. f.phase = "sent" /\ UNCHANGED <<stage, turns, slot>>
    BY <1>5 DEF ServeFetch, sessionVars
  <2>2. f.space \in Spaces /\ f.now = None /\ t \in Turns /\ f \in Fetches
    BY <1>0, <2>1, FetchIs DEF FetchesSound
  <2>3. CASE fetches' = [fetches EXCEPT ![t].phase = "served", ![t].now = Current(f.space), ![t].update = Update(f)]
    <3>1. fetches' = [fetches EXCEPT ![t] = full]
      BY <2>2, <2>3 DEF TypeOK
    <3>2. /\ full.phase = "served" /\ full.space = f.space /\ full.now = Current(f.space)
          /\ full.update = Update(f) /\ full.cached = f.cached
      BY <2>2 DEF Fetches
    <3>3. Shown(full) = full.now
      <4>1. Current(f.space) # None
        BY <1>0, <2>2, CurrentIs
      <4> HIDE DEF full, f
      <4> QED BY <3>2, <4>1 DEF Shown, Update
    <3>4. fetches[t].phase # "none"
      BY <2>1
    <3> HIDE DEF full, f
    <3> QED BY <1>4, <2>1, <3>4, <2>2, <3>1, <3>2, <3>3
  <2>4. CASE fetches' = [fetches EXCEPT ![t].phase = "served"]
    <3>1. fetches' = [fetches EXCEPT ![t] = bare]
      BY <2>4
    <3>2. bare.phase = "served" /\ bare.space = f.space /\ bare.now = f.now
      BY <2>2 DEF Fetches
    <3> HIDE DEF bare
    <3> QED BY <1>4, <2>1, <2>2, <3>1, <3>2
  <2> QED BY <1>5, <2>3, <2>4 DEF ServeFetch
<1>6. ASSUME NEW t \in DOMAIN turns, NEW b, NEW c, fetches' = Ended(t, b, c), c # None => b = c, turns' = turns,
             fetches[t].phase # "none",
             \A r \in Sessions : stage'[r] = "stable" => stage[r] = "stable",
             \A r \in Sessions : slot'[r] # None =>
                slot[r] # None /\ slot'[r].key = slot[r].key /\ slot'[r].text = slot[r].text
      PROVE  FetchesSound'
  <2> DEFINE g == [NoFetch EXCEPT !.phase = "ended", !.update = b, !.now = c]
  <2>1. g.phase = "ended" /\ g.update = b /\ g.now = c
    BY DEF NoFetch
  <2>2. fetches' = [fetches EXCEPT ![t] = g]
    BY <1>6 DEF Ended
  <2> HIDE DEF g
  <2> QED BY <1>4, <1>6, <2>1, <2>2
<1>7. ASSUME NEW t \in DOMAIN turns, FetchEnd(t) \/ FetchFails(t) \/ WaitEnd(t) PROVE FetchesSound'
  <2> DEFINE f == fetches[t]
  <2>1. t \in Turns /\ \A s \in Sessions : ~ PreCall(s)
    <3>1. turns' = turns
      BY <1>7 DEF FetchEnd, FetchFails, WaitEnd
    <3>2. ASSUME NEW s \in Sessions, PreCall(s) PROVE FALSE
      <4>1. PICK x : turns' = Append(turns, [session |-> s, text |-> x])
        BY <3>2 DEF PreCall
      <4>2. Len(turns') = Len(turns) + 1
        BY <4>1, TurnOfBegun
      <4> QED BY <1>0, <3>1, <4>2
    <3> QED BY <1>0, <3>2
  <2>2. turns' = turns /\ \A r \in Sessions : stage'[r] = "stable" => stage[r] = "stable"
    BY <2>1, StageStep
  <2>3. CASE FetchEnd(t)
    <3>1. f.phase = "served" /\ fetches' = Ended(t, Shown(f), f.now) /\ slot' = Settled(t)
      BY <2>3 DEF FetchEnd
    <3>2. f.now # None => Shown(f) = f.now
      BY <2>1, <3>1 DEF FetchesSound
    <3>3. \A r \in Sessions : slot'[r] # None =>
             slot[r] # None /\ slot'[r].key = slot[r].key /\ slot'[r].text = slot[r].text
      <4>1. \A r \in Sessions : slot[r] \in Slots \cup {None}
        BY DEF TypeOK
      <4> QED BY <3>1, <4>1 DEF Settled, Slots
    <3> QED BY <1>6, <2>2, <3>1, <3>2, <3>3
  <2>4. CASE FetchFails(t)
    <3>1. f.phase # "none" /\ fetches' = Ended(t, None, None) /\ slot' = slot
      BY <2>4 DEF FetchFails
    <3> QED BY <1>6, <2>2, <3>1
  <2>5. CASE WaitEnd(t)
    <3> DEFINE on == fetches[f.on]
               b == IF on.phase = "ended" THEN on.update ELSE None
               c == IF on.phase = "ended" THEN on.now ELSE None
    <3>1. f.phase = "wait" /\ fetches' = Ended(t, b, c) /\ slot' = slot
      BY <2>5 DEF WaitEnd
    <3>2. f.on \in Turns
      BY <1>0, <2>1, <3>1 DEF FetchesSound, Asked
    <3>3. c # None => b = c
      BY <3>2 DEF FetchesSound
    <3> HIDE DEF b, c
    <3> QED BY <1>6, <2>2, <3>1, <3>3
  <2> QED BY <1>7, <2>3, <2>4, <2>5
<1>8. CASE /\ ~ \E s \in Sessions : PreCall(s) \/ Prefetch(s)
           /\ ~ \E t \in DOMAIN turns : ServeFetch(t) \/ FetchEnd(t) \/ FetchFails(t) \/ WaitEnd(t)
  <2>1. turns' = turns /\ \A r \in Sessions : stage'[r] = "stable" => stage[r] = "stable"
    BY <1>8, StageStep
  <2>2. fetches' = fetches
    BY <1>8 DEF Next, vars, SessionStart, EnsureInitialized, Clear, MakeClient, MakeQueue,
                SessionStarted,
                FinalizeBegin, FinalizeEnd, JoinTimeout, PostCall, Abort, WriterTake, WriterWrites,
                WriterFails, ServeLate, Change
  <2>3. \A r \in Sessions : slot'[r] # None => slot'[r] = slot[r]
    <3>1. CASE slot' = [r \in Sessions |-> None]
      BY <3>1
    <3>2. ASSUME NEW s \in Sessions, slot' = [slot EXCEPT ![s] = None]
          PROVE  \A r \in Sessions : slot'[r] # None => slot'[r] = slot[r]
      BY <3>2 DEF TypeOK
    <3>3. \/ slot' = slot \/ slot' = [r \in Sessions |-> None]
          \/ \E s \in Sessions : slot' = [slot EXCEPT ![s] = None]
      BY <1>8 DEF Next, vars, SessionStart, EnsureInitialized, Clear, MakeClient, MakeQueue,
                  SessionStarted,
                  FinalizeBegin, FinalizeEnd, JoinTimeout, PostCall, Abort, WriterTake,
                  WriterWrites, WriterFails, ServeLate, Change
    <3> QED BY <3>1, <3>2, <3>3
  <2> QED BY <1>1, <1>8, <2>1, <2>2, <2>3
<1> QED BY <1>2, <1>3, <1>5, <1>7, <1>8

-----------------------------------------------------------------------------
(* Where messages come from and go. *)

\* The batch of a turn that ends.
Written(s) == Batch(TurnOf(s), TurnMessages(TurnOf(s), slot[s]))

\* A queue changes at its head, or at its end by a turn's batch or a close.
LEMMA QueuesStep ==
    ASSUME TypeOK, Budget, [Next]_vars
    PROVE  \/ queues' = queues
           \/ \E w \in Writers :
                /\ WriterTake(w) /\ writers[w].queue \in Writers /\ queues[writers[w].queue] # <<>>
                /\ queues' = [queues EXCEPT ![writers[w].queue] = Tail(queues[writers[w].queue])]
           \/ \E s \in Sessions :
                /\ FinalizeBegin(s) /\ queue \in Writers
                /\ queues' = [queues EXCEPT ![queue] = Append(queues[queue], Stop)]
           \/ \E s \in Sessions :
                /\ PostCall(s) /\ queue' \in Writers /\ InTurn(s) /\ slot'[s] = None
                /\ client # None /\ UNCHANGED <<client, hurt, turns, queue>>
                /\ queues' = [queues EXCEPT ![queue'] = Append(queues[queue'], Written(s))]
<1>1. ASSUME NEW s \in Sessions, PostCall(s), queues' # queues
      PROVE  /\ queue' \in Writers /\ InTurn(s) /\ slot'[s] = None
             /\ client # None /\ UNCHANGED <<client, hurt, turns, queue>>
             /\ queues' = [queues EXCEPT ![queue'] = Append(queues[queue'], Written(s))]
  <2>1. InTurn(s) /\ UNCHANGED <<client, hurt, turns, queue>>
    BY <1>1 DEF PostCall, InTurn, clientVars, histories
  <2>2. /\ client # None /\ queue # 0 /\ slot' = [slot EXCEPT ![s] = None]
        /\ queues' = [queues EXCEPT ![queue] =
                Append(@, Batch(TurnOf(s), TurnMessages(TurnOf(s), slot[s])))]
    BY <1>1 DEF PostCall
  <2>3. queue \in Writers /\ slot'[s] = None
    BY <2>2 DEF TypeOK
  <2>4. queues' = [queues EXCEPT ![queue] = Append(queues[queue], Written(s))]
    BY <2>2 DEF Written
  <2> QED BY <2>1, <2>2, <2>3, <2>4
<1>2. ASSUME NEW s \in Sessions, FinalizeBegin(s), queues' # queues
      PROVE  queue \in Writers /\ queues' = [queues EXCEPT ![queue] = Append(queues[queue], Stop)]
  BY <1>2 DEF FinalizeBegin, TypeOK
<1>3. ASSUME NEW w \in Writers, WriterTake(w)
      PROVE  /\ writers[w].queue \in Writers /\ queues[writers[w].queue] # <<>>
             /\ queues' = [queues EXCEPT ![writers[w].queue] = Tail(queues[writers[w].queue])]
  <2>1. writers[w] \in WriterStates /\ writers[w].phase = "get"
    BY <1>3 DEF TypeOK, WriterTake
  <2> QED BY <1>3, <2>1, WriterStatesAre DEF WriterTake, Taken
<1>4. \/ queues' = queues \/ (\E w \in Writers : WriterTake(w))
      \/ \E s \in Sessions : FinalizeBegin(s) \/ PostCall(s)
  BY DEF Next, vars, writerVars, SessionStart, EnsureInitialized, Clear, MakeClient, MakeQueue,
         SessionStarted, FinalizeEnd, PreCall, Prefetch, JoinTimeout, Abort, ServeFetch,
         FetchEnd, FetchFails, WaitEnd, WriterWrites, WriterFails, ServeLate, Change
<1> QED BY <1>1, <1>2, <1>3, <1>4

\* What a write sends.
LEMMA WritingIs ==
    ASSUME TypeOK, NEW w \in Writers, writers[w].phase = "sent"
    PROVE  /\ writers[w].queue \in Writers /\ writers[w].space \in Spaces
           /\ writers[w].batch \in TurnBatches /\ writers[w].batch.turn \in Turns
           /\ writers[w].batch.items \in Answers(writers[w].batch.turn)
<1>1. writers[w] \in WriterStates
  BY DEF TypeOK
<1> QED BY <1>1, WriterStatesAre, BatchesAre

\* What is recorded was sent.
LEMMA LogStep ==
    ASSUME TypeOK, FetchesSound, [Next]_vars
    PROVE  \/ log' = log
           \/ \E sp \in Spaces : \E t \in Turns : \E items \in {<<PrefetchKey(t)>>} \cup Answers(t) :
                /\ log' = [log EXCEPT ![sp] = Recorded(@, items)]
                /\ \/ /\ ServeFetch(t) /\ items = <<PrefetchKey(t)>>
                      /\ fetches[t].phase = "sent" /\ fetches[t].space = sp
                   \/ ServeLate /\ \E r \in wire : r.space = sp /\ r.items = items
                   \/ \E w \in Writers :
                        /\ writers[w].phase = "sent" /\ writers[w].space = sp
                        /\ writers[w].batch.turn = t /\ writers[w].batch.items = items
                        /\ WriterWrites(w) \/ WriterFails(w)
<1> DEFINE Source(sp, t, items) ==
                /\ log' = [log EXCEPT ![sp] = Recorded(@, items)]
                /\ \/ /\ ServeFetch(t) /\ items = <<PrefetchKey(t)>>
                      /\ fetches[t].phase = "sent" /\ fetches[t].space = sp
                   \/ ServeLate /\ \E r \in wire : r.space = sp /\ r.items = items
                   \/ \E w \in Writers :
                        /\ writers[w].phase = "sent" /\ writers[w].space = sp
                        /\ writers[w].batch.turn = t /\ writers[w].batch.items = items
                        /\ WriterWrites(w) \/ WriterFails(w)
<1>1. ASSUME NEW t \in DOMAIN turns, ServeFetch(t)
      PROVE  t \in Turns /\ fetches[t].space \in Spaces /\ Source(fetches[t].space, t, <<PrefetchKey(t)>>)
  <2>1. t \in Turns /\ fetches[t].phase = "sent"
    BY <1>1, TurnsTyped DEF ServeFetch
  <2>2. fetches[t].space \in Spaces
    BY <2>1 DEF FetchesSound
  <2>3. log' = [log EXCEPT ![fetches[t].space] = Recorded(@, <<PrefetchKey(t)>>)]
    BY <1>1 DEF ServeFetch
  <2> QED BY <1>1, <2>1, <2>2, <2>3
<1>2. ASSUME ServeLate
      PROVE  \E sp \in Spaces : \E t \in Turns : \E items \in {<<PrefetchKey(t)>>} \cup Answers(t) :
                Source(sp, t, items)
  <2>1. PICK r \in wire : log' = [log EXCEPT ![r.space] = Recorded(@, r.items)]
    BY <1>2 DEF ServeLate
  <2>2. PICK t \in Turns : r.items \in {<<PrefetchKey(t)>>} \cup Answers(t)
    BY WireIs
  <2>3. r.space \in Spaces /\ Source(r.space, t, r.items)
    BY <1>2, <2>1, WireIs
  <2> HIDE DEF Source
  <2> QED BY <2>2, <2>3
<1>3. ASSUME NEW w \in Writers, WriterWrites(w) \/ WriterFails(w), log' # log
      PROVE  \E sp \in Spaces : \E t \in Turns : \E items \in {<<PrefetchKey(t)>>} \cup Answers(t) :
                Source(sp, t, items)
  <2> DEFINE v == writers[w]
  <2>1. v.phase = "sent" /\ log' = [log EXCEPT ![v.space] = Recorded(@, v.batch.items)]
    BY <1>3 DEF WriterWrites, WriterFails
  <2>2. v.space \in Spaces /\ v.batch.turn \in Turns /\ v.batch.items \in Answers(v.batch.turn)
    BY <2>1, WritingIs
  <2>3. Source(v.space, v.batch.turn, v.batch.items)
    BY <1>3, <2>1
  <2> HIDE DEF Source, v
  <2> QED BY <2>2, <2>3
<1>4. \/ log' = log \/ ServeLate \/ (\E t \in DOMAIN turns : ServeFetch(t))
      \/ \E w \in Writers : WriterWrites(w) \/ WriterFails(w)
  BY DEF Next, vars, serverVars, SessionStart, EnsureInitialized, Clear, MakeClient, MakeQueue,
         SessionStarted, FinalizeBegin, FinalizeEnd, PreCall, Prefetch, JoinTimeout, PostCall,
         Abort, FetchEnd, FetchFails, WaitEnd, WriterTake, Change
<1> HIDE DEF Source
<1>5. \/ log' = log
      \/ \E sp \in Spaces : \E t \in Turns : \E items \in {<<PrefetchKey(t)>>} \cup Answers(t) :
            Source(sp, t, items)
  BY <1>1, <1>2, <1>3, <1>4
<1> QED BY <1>5 DEF Source

\* What is given up was sent.
LEMMA WireStep ==
    ASSUME TypeOK, [Next]_vars, NEW r \in wire', r \notin wire
    PROVE  \/ \E t \in Turns : /\ fetches[t].phase = "sent" /\ r.space = fetches[t].space
                              /\ r.items = <<PrefetchKey(t)>>
           \/ \E w \in Writers : /\ writers[w].phase = "sent" /\ r.space = writers[w].space
                                /\ r.items = writers[w].batch.items
                                /\ failed' = failed \cup {writers[w].batch.turn}
<1>1. CASE \E t \in DOMAIN turns : FetchFails(t)
  <2>1. PICK t \in DOMAIN turns : FetchFails(t)
    BY <1>1
  <2>2. fetches[t].phase = "sent" /\ r = [space |-> fetches[t].space, items |-> <<PrefetchKey(t)>>]
    BY <2>1 DEF FetchFails
  <2>3. t \in Turns
    BY TurnsTyped
  <2> QED BY <2>2, <2>3
<1>2. CASE \E w \in Writers : WriterFails(w)
  BY <1>2 DEF WriterFails
<1>3. (\E t \in DOMAIN turns : FetchFails(t)) \/ \E w \in Writers : WriterFails(w)
  BY DEF Next, vars, serverVars, SessionStart, EnsureInitialized, Clear, MakeClient, MakeQueue,
         SessionStarted, FinalizeBegin, FinalizeEnd, PreCall, Prefetch, JoinTimeout, PostCall,
         Abort, ServeFetch, FetchEnd, WaitEnd, WriterTake, WriterWrites, ServeLate, Change
<1> QED BY <1>1, <1>2, <1>3

\* A writer sends what it took from its queue, to the client it finds.
LEMMA WritersStep ==
    ASSUME TypeOK, Budget, [Next]_vars, NEW w \in Writers, writers'[w].phase = "sent", writers'[w] # writers[w]
    PROVE  /\ WriterTake(w) /\ UNCHANGED <<client, hurt, turns, queue>> /\ client # None
           /\ writers[w].queue \in Writers /\ queues[writers[w].queue] # <<>>
           /\ writers'[w] = [phase |-> "sent", queue |-> writers[w].queue, space |-> client,
                             batch |-> Head(queues[writers[w].queue])]
           /\ Head(queues[writers[w].queue]) # Stop
<1>1. ASSUME NEW v \in Writers, NEW new, writers' = [writers EXCEPT ![v] = new], new.phase # "sent" PROVE FALSE
  BY <1>1 DEF TypeOK
<1>2. NoWriter.phase # "sent" /\ \A q : [NoWriter EXCEPT !.phase = "get", !.queue = q].phase # "sent"
  BY DEF NoWriter
<1>3. ASSUME NEW v \in Writers, WriterWrites(v) \/ WriterFails(v) PROVE FALSE
  <2>1. writers' = [writers EXCEPT ![v] = Loop(v)]
    BY <1>3 DEF WriterWrites, WriterFails
  <2> QED BY <1>1, <1>2, <2>1 DEF Loop
<1>4. ASSUME NEW s \in Sessions, MakeQueue(s) PROVE FALSE
  <2>1. /\ writers' = [writers EXCEPT ![inits + 1] = [NoWriter EXCEPT !.phase = "get", !.queue = inits + 1]]
        /\ making[s] # "none"
    BY <1>4 DEF MakeQueue
  <2>2. inits + 1 \in Writers
    BY <2>1, InitsBounded
  <2> QED BY <1>1, <1>2, <2>1, <2>2
<1>6. PICK v \in Writers : WriterTake(v)
  <2>1. (\E v \in Writers : WriterTake(v) \/ WriterWrites(v) \/ WriterFails(v))
        \/ \E s \in Sessions : MakeQueue(s)
    BY DEF Next, vars, writerVars, SessionStart, EnsureInitialized, Clear, MakeClient, SessionStarted,
           FinalizeBegin, FinalizeEnd, PreCall, Prefetch, JoinTimeout, PostCall, Abort, ServeFetch,
           FetchEnd,
           FetchFails, WaitEnd, ServeLate, Change
  <2> QED BY <1>3, <1>4, <2>1
<1>7. UNCHANGED <<client, hurt, turns, queue>>
  BY <1>6 DEF WriterTake, sessionVars, clientVars
<1>8. /\ v = w /\ client # None /\ queues[writers[w].queue] # <<>> /\ Head(queues[writers[w].queue]) # Stop
      /\ writers'[w] = [phase |-> "sent", queue |-> writers[w].queue, space |-> client,
                        batch |-> Head(queues[writers[w].queue])]
  <2> DEFINE new == [phase |-> "sent", queue |-> writers[v].queue, space |-> client,
                     batch |-> Head(queues[writers[v].queue])]
  <2>1. /\ queues[writers[v].queue] # <<>>
        /\ \/ writers' = [writers EXCEPT ![v] = NoWriter]
           \/ writers' = [writers EXCEPT ![v] = Loop(v)]
           \/ /\ client # None /\ Head(queues[writers[v].queue]) # Stop
              /\ writers' = [writers EXCEPT ![v] = new]
    BY <1>6 DEF WriterTake, Taken
  <2>2. /\ client # None /\ Head(queues[writers[v].queue]) # Stop
        /\ writers' = [writers EXCEPT ![v] = new]
    BY <1>1, <1>2, <2>1 DEF Loop
  <2>3. v = w /\ writers'[v] = new
    BY <2>2 DEF TypeOK
  <2> QED BY <2>1, <2>2, <2>3
<1>9. writers[w].queue \in Writers
  <2>1. writers[w] \in WriterStates /\ writers[w].phase = "get"
    BY <1>6, <1>8 DEF TypeOK, WriterTake
  <2> QED BY <2>1, WriterStatesAre
<1> QED BY <1>6, <1>7, <1>8, <1>9

\* A request that is served keeps whom it was sent to, and when, and what it named.
LEMMA ServedIs ==
    ASSUME TypeOK, NEW u \in DOMAIN turns, ServeFetch(u)
    PROVE  /\ u \in Turns /\ fetches[u].phase = "sent"
           /\ fetches' = [fetches EXCEPT ![u] = fetches'[u]]
           /\ \A v \in Turns \ {u} : fetches'[v] = fetches[v]
           /\ fetches'[u].phase = "served" /\ fetches'[u].space = fetches[u].space
           /\ fetches'[u].gen = fetches[u].gen /\ fetches'[u].cached = fetches[u].cached
           /\ fetches'[u].update \in {fetches[u].update, Update(fetches[u])}
<1> DEFINE f == fetches[u]
           full == [f EXCEPT !.phase = "served", !.now = Current(f.space), !.update = Update(f)]
           bare == [f EXCEPT !.phase = "served"]
<1>1. u \in Turns /\ f \in Fetches /\ f.phase = "sent"
  BY TurnsTyped, FetchIs DEF ServeFetch
<1>2. /\ full.phase = "served" /\ full.space = f.space /\ full.gen = f.gen /\ full.cached = f.cached
      /\ full.update = Update(f)
  BY <1>1 DEF Fetches
<1>3. /\ bare.phase = "served" /\ bare.space = f.space /\ bare.gen = f.gen /\ bare.cached = f.cached
      /\ bare.update = f.update
  BY <1>1 DEF Fetches
<1>4. fetches' = [fetches EXCEPT ![u] = full] \/ fetches' = [fetches EXCEPT ![u] = bare]
  <2>1. CASE fetches' = [fetches EXCEPT ![u].phase = "served", ![u].now = Current(f.space),
                                        ![u].update = Update(f)]
    BY <1>1, <2>1 DEF TypeOK
  <2>2. CASE fetches' = [fetches EXCEPT ![u].phase = "served"]
    BY <2>2
  <2> QED BY <2>1, <2>2 DEF ServeFetch
<1>5. ASSUME NEW g, fetches' = [fetches EXCEPT ![u] = g]
      PROVE  /\ fetches'[u] = g /\ \A v \in Turns \ {u} : fetches'[v] = fetches[v]
             /\ fetches' = [fetches EXCEPT ![u] = fetches'[u]]
  <2>1. fetches'[u] = g /\ \A v \in Turns \ {u} : fetches'[v] = fetches[v]
    BY <1>1, <1>5 DEF TypeOK
  <2> QED BY <1>5, <2>1
<1> HIDE DEF full, bare
<1> QED BY <1>1, <1>2, <1>3, <1>4, <1>5

\* A prefetch sends its message to the client, and the slot is of its text.
LEMMA SentStep ==
    ASSUME TypeOK, TurnsSound, FetchesSound, [Next]_vars, NEW t \in Turns, fetches'[t].phase = "sent",
           ~ (fetches[t].phase = "sent" /\ fetches'[t].space = fetches[t].space)
    PROVE  \E s \in Sessions :
             /\ Prefetch(s) /\ InTurn(s) /\ t = TurnOf(s) /\ ~ Matches(slot[s], t) /\ client # None
             /\ fetches'[t].space = client /\ UNCHANGED <<client, hurt, turns>>
             /\ slot' = [slot EXCEPT ![s] = FreshSlot(t)] /\ stage'[s] = "join"
<1>1. ASSUME NEW u \in DOMAIN turns, FetchEnd(u) \/ FetchFails(u) \/ WaitEnd(u) PROVE FALSE
  <2>1. \E b, c : fetches' = Ended(u, b, c)
    BY <1>1 DEF FetchEnd, FetchFails, WaitEnd
  <2>2. \A b, c : [NoFetch EXCEPT !.phase = "ended", !.update = b, !.now = c].phase # "sent"
    BY DEF NoFetch
  <2> QED BY <2>1, <2>2 DEF Ended, TypeOK
<1>2. ASSUME NEW u \in DOMAIN turns, ServeFetch(u) PROVE FALSE
  BY <1>2, ServedIs
<1>3. PICK s \in Sessions : Prefetch(s)
  <2>1. \/ fetches' = fetches \/ (\E s \in Sessions : Prefetch(s))
        \/ \E u \in DOMAIN turns : ServeFetch(u) \/ FetchEnd(u) \/ FetchFails(u) \/ WaitEnd(u)
    BY DEF Next, vars, SessionStart, EnsureInitialized, Clear, MakeClient, MakeQueue,
           SessionStarted, FinalizeBegin, FinalizeEnd, PreCall, JoinTimeout, PostCall, Abort,
           WriterTake, WriterWrites, WriterFails, ServeLate, Change
  <2> QED BY <1>1, <1>2, <2>1
<1> DEFINE sent == [NoFetch EXCEPT !.phase = "sent", !.space = client, !.gen = clients, !.cached = bundle']
<1>4. UNCHANGED <<client, turns>> /\ InTurn(s)
  BY <1>3 DEF Prefetch, InTurn, clientVars
<1>5. /\ ~ Matches(slot[s], TurnOf(s)) /\ client # None /\ stage' = [stage EXCEPT ![s] = "join"]
      /\ slot' = [slot EXCEPT ![s] = FreshSlot(TurnOf(s))]
      /\ fetches' = [fetches EXCEPT ![TurnOf(s)] = sent]
  <2>1. ASSUME NEW g, fetches' = [fetches EXCEPT ![TurnOf(s)] = [NoFetch EXCEPT !.phase = "wait", !.on = g,
                                                                         !.gen = clients]]
        PROVE  FALSE
    BY <2>1 DEF TypeOK, NoFetch
  <2> QED BY <1>3, <2>1 DEF Prefetch
<1>6. hurt' = hurt
  BY <1>3, <1>5 DEF Prefetch
<1>7. t = TurnOf(s)
  BY <1>5 DEF TypeOK
<1>8. fetches'[t].space = client /\ stage'[s] = "join"
  BY <1>5, <1>7 DEF NoFetch, TypeOK
<1> QED BY <1>3, <1>4, <1>5, <1>6, <1>7, <1>8

-----------------------------------------------------------------------------
(* Keys. *)

\* A message that is newly written was at the head of the writer's queue.
LEMMA WritingStep ==
    ASSUME TypeOK, Budget, [Next]_vars, NEW key, NEW w \in Writers, Writing(w, key)'
    PROVE  \/ writers'[w] = writers[w] /\ Writing(w, key)
           \/ /\ UNCHANGED <<client, hurt, turns, queue>> /\ writers'[w].space = client
              /\ writers[w].queue \in Writers /\ writers'[w].queue = writers[w].queue
              /\ Queued(writers[w].queue, key)
<1>1. writers'[w].phase = "sent" /\ \E i \in DOMAIN writers'[w].batch.items : writers'[w].batch.items[i] = key
  BY DEF Writing
<1>2. CASE writers'[w] = writers[w]
  BY <1>1, <1>2 DEF Writing
<1>3. CASE writers'[w] # writers[w]
  <2> DEFINE g == writers[w].queue
  <2>1. /\ UNCHANGED <<client, hurt, turns, queue>> /\ g \in Writers /\ queues[g] # <<>>
        /\ writers'[w] = [phase |-> "sent", queue |-> g, space |-> client, batch |-> Head(queues[g])]
    BY <1>1, <1>3, WritersStep
  <2>2. \E i \in DOMAIN Head(queues[g]).items : Head(queues[g]).items[i] = key
    BY <1>1, <2>1
  <2>3. 1 \in DOMAIN queues[g] /\ queues[g][1] = Head(queues[g])
    <3>1. queues[g] \in Seq(TurnBatches \cup {Stop})
      BY <2>1 DEF TypeOK
    <3> HIDE DEF g
    <3> QED BY <2>1, <3>1
  <2>4. Queued(g, key)
    BY <2>2, <2>3 DEF Queued
  <2>5. writers'[w].space = client /\ writers'[w].queue = g
    BY <2>1
  <2> QED BY <2>1, <2>4, <2>5
<1> QED BY <1>2, <1>3

\* A message that is newly bound for a space comes from a queue or a prefetch.
LEMMA BoundStep ==
    ASSUME TypeOK, Budget, TurnsSound, FetchesSound, [Next]_vars, NEW key, NEW sp \in Spaces, Bound(sp, key)'
    PROVE  \/ Bound(sp, key)
           \/ \E g \in Writers : /\ Queued(g, key) /\ sp = client
                                /\ UNCHANGED <<client, hurt, turns, queue>>
           \/ \E s \in Sessions :
                /\ Prefetch(s) /\ InTurn(s) /\ key = PrefetchKey(TurnOf(s)) /\ ~ Matches(slot[s], TurnOf(s))
                /\ sp = client /\ UNCHANGED <<client, hurt, turns>>
                /\ slot' = [slot EXCEPT ![s] = FreshSlot(TurnOf(s))] /\ stage'[s] = "join"
<1>1. CASE Logged(sp, key)'
  <2>1. PICK i \in DOMAIN log'[sp] : log'[sp][i] = key
    BY <1>1 DEF Logged
  <2>2. CASE log' = log
    BY <2>1, <2>2 DEF Bound, Logged
  <2>3. CASE log' # log
    <3> DEFINE From(q, t, items) ==
                 /\ log' = [log EXCEPT ![q] = Recorded(@, items)]
                 /\ \/ items = <<PrefetchKey(t)>> /\ fetches[t].phase = "sent" /\ fetches[t].space = q
                    \/ \E r \in wire : r.space = q /\ r.items = items
                    \/ \E w \in Writers : /\ writers[w].phase = "sent" /\ writers[w].space = q
                                         /\ writers[w].batch.items = items
    <3>0. PICK q \in Spaces, t \in Turns : \E items \in {<<PrefetchKey(t)>>} \cup Answers(t) : From(q, t, items)
      BY <2>3, LogStep
    <3>1. PICK items \in {<<PrefetchKey(t)>>} \cup Answers(t) : From(q, t, items)
      BY <3>0
    <3>2. IsRecorded(log[q], items, log'[q]) /\ \A p \in Spaces \ {q} : log'[p] = log[p]
      BY <3>1, LogTyped
    <3>3. CASE q # sp
      <4>1. Logged(sp, key)
        BY <2>1, <3>2, <3>3 DEF Logged
      <4> QED BY <4>1 DEF Bound
    <3>4. CASE q = sp
      <4>1. log[sp] \in Seq(Keys) /\ log'[sp] \in Seq(Keys)
        BY <3>2, <3>4 DEF TypeOK, IsRecorded
      <4>2. i \in 1..Len(log'[sp]) /\ Len(log[sp]) \in Nat /\ DOMAIN log[sp] = 1..Len(log[sp])
        BY <2>1, <4>1
      <4>3. DOMAIN items = 1..Len(items)
        BY RequestsAre
      <4>4. CASE i <= Len(log[sp])
        <5>1. i \in DOMAIN log[sp] /\ log[sp][i] = key
          BY <2>1, <3>2, <3>4, <4>2, <4>4 DEF IsRecorded
        <5> QED BY <5>1 DEF Bound, Logged
      <4>5. CASE ~ i <= Len(log[sp])
        <5>1. i \in (Len(log[sp]) + 1)..Len(log'[sp])
          BY <4>2, <4>5
        <5>2. PICK j \in DOMAIN items : items[j] = key
          <6>1. IsRecorded(log[sp], items, log'[sp])
            BY <3>2, <3>4
          <6>2. \E j \in 1..Len(items) : log'[sp][i] = items[j]
            BY <5>1, <6>1 DEF IsRecorded
          <6> QED BY <2>1, <4>3, <6>2
        <5>3. CASE items = <<PrefetchKey(t)>> /\ fetches[t].phase = "sent" /\ fetches[t].space = q
          <6>1. key = PrefetchKey(t)
            BY <5>2, <5>3
          <6> QED BY <3>4, <5>3, <6>1 DEF Bound
        <5>4. CASE \E r \in wire : r.space = q /\ r.items = items
          BY <3>4, <5>2, <5>4 DEF Bound
        <5>5. CASE \E w \in Writers : /\ writers[w].phase = "sent" /\ writers[w].space = q
                                     /\ writers[w].batch.items = items
          BY <3>4, <5>2, <5>5 DEF Bound, Writing
        <5> QED BY <3>1, <5>3, <5>4, <5>5
      <4> QED BY <4>4, <4>5
    <3> QED BY <3>3, <3>4
  <2> QED BY <2>2, <2>3
<1>2. CASE \E r \in wire' : r.space = sp /\ \E i \in DOMAIN r.items : r.items[i] = key
  <2>0. PICK r \in wire' : r.space = sp /\ \E i \in DOMAIN r.items : r.items[i] = key
    BY <1>2
  <2>1. PICK i \in DOMAIN r.items : r.space = sp /\ r.items[i] = key
    BY <2>0
  <2>2. CASE r \in wire
    BY <2>1, <2>2 DEF Bound
  <2>3. ASSUME NEW t \in Turns, fetches[t].phase = "sent", r.space = fetches[t].space,
               r.items = <<PrefetchKey(t)>>
        PROVE  Bound(sp, key)
    <3>1. key = PrefetchKey(t)
      BY <2>1, <2>3
    <3> QED BY <2>1, <2>3, <3>1 DEF Bound
  <2>4. ASSUME NEW w \in Writers, writers[w].phase = "sent", r.space = writers[w].space,
               r.items = writers[w].batch.items
        PROVE  Bound(sp, key)
    BY <2>1, <2>4 DEF Bound, Writing
  <2> QED BY <2>2, <2>3, <2>4, WireStep
<1>3. CASE \E w \in Writers : writers'[w].space = sp /\ Writing(w, key)'
  <2>1. PICK w \in Writers : writers'[w].space = sp /\ Writing(w, key)'
    BY <1>3
  <2>2. CASE writers'[w] = writers[w] /\ Writing(w, key)
    BY <2>1, <2>2 DEF Bound
  <2> QED BY <2>1, <2>2, WritingStep
<1>4. CASE \E t \in Turns : fetches'[t].phase = "sent" /\ fetches'[t].space = sp /\ key = PrefetchKey(t)
  <2>1. PICK t \in Turns : fetches'[t].phase = "sent" /\ fetches'[t].space = sp /\ key = PrefetchKey(t)
    BY <1>4
  <2>2. CASE fetches[t].phase = "sent" /\ fetches'[t].space = fetches[t].space
    BY <2>1, <2>2 DEF Bound
  <2>3. CASE ~ (fetches[t].phase = "sent" /\ fetches'[t].space = fetches[t].space)
    BY <2>1, <2>3, SentStep
  <2> QED BY <2>2, <2>3
<1> QED BY <1>1, <1>2, <1>3, <1>4 DEF Bound

\* A message that is newly queued is of a turn that ends.
LEMMA QueuedStep ==
    ASSUME TypeOK, Budget, [Next]_vars, NEW key, NEW g \in Writers, Queued(g, key)'
    PROVE  \/ Queued(g, key)
           \/ \E s \in Sessions :
                /\ PostCall(s) /\ InTurn(s) /\ slot'[s] = None /\ g = queue'
                /\ client # None /\ UNCHANGED <<client, hurt, turns, queue>>
                /\ \E j \in DOMAIN Written(s).items : Written(s).items[j] = key
<1>1. PICK i \in DOMAIN queues'[g] : \E j \in DOMAIN queues'[g][i].items : queues'[g][i].items[j] = key
  BY DEF Queued
<1>2. queues[g] \in Seq(TurnBatches \cup {Stop}) /\ Len(queues[g]) \in Nat /\ DOMAIN queues[g] = 1..Len(queues[g])
  BY DEF TypeOK
<1>3. CASE queues'[g] = queues[g]
  BY <1>1, <1>3 DEF Queued
<1>4. CASE queues[g] # <<>> /\ queues'[g] = Tail(queues[g])
  <2>1. i + 1 \in DOMAIN queues[g] /\ queues'[g][i] = queues[g][i + 1]
    BY <1>1, <1>2, <1>4
  <2> QED BY <1>1, <2>1 DEF Queued
<1>5. ASSUME NEW b, queues'[g] = Append(queues[g], b)
      PROVE  Queued(g, key) \/ \E j \in DOMAIN b.items : b.items[j] = key
  <2>1. DOMAIN queues'[g] = 1..(Len(queues[g]) + 1)
    BY <1>2, <1>5
  <2>2. CASE i = Len(queues[g]) + 1
    <3>1. queues'[g][i] = b
      BY <1>2, <1>5, <2>2
    <3> QED BY <1>1, <3>1
  <2>3. CASE i # Len(queues[g]) + 1
    <3>1. i \in DOMAIN queues[g] /\ queues'[g][i] = queues[g][i]
      BY <1>1, <1>2, <1>5, <2>1, <2>3
    <3> QED BY <1>1, <3>1 DEF Queued
  <2> QED BY <2>2, <2>3
<1>6. ASSUME NEW s \in Sessions, PostCall(s), queue' \in Writers, InTurn(s), slot'[s] = None,
             client # None /\ UNCHANGED <<client, hurt, turns, queue>>,
             queues' = [queues EXCEPT ![queue'] = Append(queues[queue'], Written(s))], g = queue'
      PROVE  \/ Queued(g, key)
             \/ \E j \in DOMAIN Written(s).items : Written(s).items[j] = key
  <2>1. queues'[g] = Append(queues[g], Written(s))
    BY <1>6 DEF TypeOK
  <2> QED BY <1>5, <2>1
<1>7. ASSUME queue \in Writers, g = queue, queues' = [queues EXCEPT ![queue] = Append(queues[queue], Stop)]
      PROVE  Queued(g, key)
  <2>1. queues'[g] = Append(queues[g], Stop)
    BY <1>7 DEF TypeOK
  <2>2. Stop.items = <<>>
    BY BatchesAre
  <2>3. ~ \E j \in DOMAIN Stop.items : Stop.items[j] = key
    BY <2>2
  <2> QED BY <1>5, <2>1, <2>3
<1>8. \A q \in Writers : \A new : queues' = [queues EXCEPT ![q] = new] =>
         (q = g => queues'[g] = new) /\ (q # g => queues'[g] = queues[g])
  BY DEF TypeOK
<1> QED BY <1>3, <1>4, <1>6, <1>7, <1>8, QueuesStep

\* The keys of a turn that ends.
OfTurn(s, key) ==
    LET t == TurnOf(s)
        e == slot[s]
    IN  \/ key = AnswerKey(t)
        \/ ~ Matches(e, t) /\ key = FreshKey(t)
        \/ Matches(e, t) /\ key = PrefetchKey(e.key)

\* A batch that is queued holds the answer of its turn, and the user message under the
\* key of its turn or of the slot.
LEMMA WrittenKeys ==
    ASSUME NEW s \in Sessions, NEW j \in DOMAIN Written(s).items
    PROVE  OfTurn(s, Written(s).items[j])
<1> DEFINE t == TurnOf(s)
           e == slot[s]
           Known(key) == \/ key = AnswerKey(t)
                         \/ ~ Matches(e, t) /\ key = FreshKey(t)
                         \/ Matches(e, t) /\ key = PrefetchKey(e.key)
<1>1. Written(s).items = TurnMessages(t, e)
  BY DEF Written, Batch
<1> HIDE DEF t, e
<1>2. Known(AnswerKey(t)) /\ Known(UserKey(t, e))
  BY DEF UserKey
<1> HIDE DEF Known
<1>3. CASE Written(s).items = <<AnswerKey(t)>>
  <2>1. Written(s).items[j] = AnswerKey(t)
    BY <1>3
  <2>2. Known(Written(s).items[j])
    BY <1>2, <2>1
  <2> QED BY <2>2 DEF Known, OfTurn, t, e
<1>4. CASE Written(s).items = <<UserKey(t, e), AnswerKey(t)>>
  <2>1. Written(s).items[j] \in {UserKey(t, e), AnswerKey(t)}
    BY <1>4
  <2>2. Known(Written(s).items[j])
    BY <1>2, <2>1
  <2> QED BY <2>2 DEF Known, OfTurn, t, e
<1> QED BY <1>1, <1>3, <1>4 DEF TurnMessages

\* A key that is newly issued is that of a prefetch or of a turn that ends.
LEMMA IssuedStep ==
    ASSUME TypeOK, Budget, TurnsSound, FetchesSound, [Next]_vars, NEW key, Issued(key)'
    PROVE  \/ Issued(key)
           \/ \E s \in Sessions :
                /\ Prefetch(s) /\ InTurn(s) /\ key = PrefetchKey(TurnOf(s)) /\ ~ Matches(slot[s], TurnOf(s))
                /\ UNCHANGED <<client, hurt, turns>>
                /\ slot' = [slot EXCEPT ![s] = FreshSlot(TurnOf(s))] /\ stage'[s] = "join"
           \/ \E s \in Sessions :
                /\ PostCall(s) /\ InTurn(s) /\ OfTurn(s, key) /\ slot'[s] = None
                /\ client # None /\ UNCHANGED <<client, hurt, turns, queue>>
<1>1. CASE \E sp \in Spaces : Bound(sp, key)'
  BY <1>1, BoundStep DEF Issued
<1>2. CASE \E g \in Writers : Queued(g, key)'
  <2>1. PICK g \in Writers : Queued(g, key)'
    BY <1>2
  <2>2. \/ Queued(g, key)
        \/ \E s \in Sessions :
             /\ PostCall(s) /\ InTurn(s) /\ slot'[s] = None /\ g = queue'
             /\ client # None /\ UNCHANGED <<client, hurt, turns, queue>>
             /\ \E j \in DOMAIN Written(s).items : Written(s).items[j] = key
    BY <2>1, QueuedStep
  <2> QED BY <2>2, WrittenKeys DEF Issued
<1> QED BY <1>1, <1>2 DEF Issued

\* A turn that has begun does not change.
LEMMA TurnsGrow ==
    ASSUME TypeOK, [Next]_vars
    PROVE  /\ DOMAIN turns \subseteq DOMAIN turns' /\ Len(turns) <= Len(turns')
           /\ \A t \in DOMAIN turns : turns'[t] = turns[t]
<1>0. Len(turns) \in Nat /\ DOMAIN turns = 1..Len(turns)
  BY TurnsTyped
<1>1. CASE \A s \in Sessions : ~ PreCall(s)
  BY <1>0, <1>1, StageStep
<1>2. ASSUME NEW s \in Sessions, PreCall(s)
      PROVE  /\ DOMAIN turns \subseteq DOMAIN turns' /\ Len(turns) <= Len(turns')
             /\ \A t \in DOMAIN turns : turns'[t] = turns[t]
  <2>1. PICK x : turns' = Append(turns, [session |-> s, text |-> x])
    BY <1>2 DEF PreCall
  <2>2. /\ DOMAIN turns' = 1..(Len(turns) + 1) /\ Len(turns') = Len(turns) + 1
        /\ \A t \in DOMAIN turns : turns'[t] = turns[t]
    BY <2>1, TurnOfBegun
  <2> QED BY <1>0, <2>2
<1> QED BY <1>1, <1>2

\* The slot of a turn that ends was made by a turn of its conversation.
LEMMA WrittenSlot ==
    ASSUME TypeOK, FetchesSound, NEW s \in Sessions, NEW t, Matches(slot[s], t)
    PROVE  /\ slot[s] # None /\ slot[s].key \in DOMAIN turns
           /\ turns[slot[s].key].session = s
<1>1. slot[s] # None
  BY DEF Matches
<1>2. slot[s].key \in DOMAIN turns /\ turns[slot[s].key] = [session |-> s, text |-> slot[s].text]
  BY <1>1 DEF FetchesSound, Asked
<1> QED BY <1>1, <1>2

\* A step issues messages of turns that had begun before it.
LEMMA IssuedBegun ==
    ASSUME TypeOK, Budget, TurnsSound, FetchesSound, KeysBegun, [Next]_vars, NEW key \in Keys, Issued(key)'
    PROVE  key[2] \in DOMAIN turns
<1>1. CASE Issued(key)
  BY <1>1 DEF KeysBegun
<1>2. ASSUME NEW s \in Sessions, InTurn(s), key = PrefetchKey(TurnOf(s)) PROVE key[2] \in DOMAIN turns
  BY <1>2, TurnIs, KeysDistinct
<1>3. ASSUME NEW s \in Sessions, InTurn(s), OfTurn(s, key) PROVE key[2] \in DOMAIN turns
  <2>1. TurnOf(s) \in DOMAIN turns
    BY <1>3, TurnIs
  <2>2. CASE key = AnswerKey(TurnOf(s)) \/ key = FreshKey(TurnOf(s))
    BY <2>1, <2>2, KeysDistinct
  <2>3. CASE Matches(slot[s], TurnOf(s)) /\ key = PrefetchKey(slot[s].key)
    BY <2>3, WrittenSlot, KeysDistinct
  <2> QED BY <1>3, <2>2, <2>3 DEF OfTurn
<1> QED BY <1>1, <1>2, <1>3, IssuedStep

\* What becomes of a slot.
LEMMA SlotStep ==
    ASSUME TypeOK, TurnsSound, FetchesSound, [Next]_vars, NEW s \in Sessions
    PROVE  \/ slot'[s] = slot[s]
           \/ slot'[s] = None /\ (hurt' = Len(turns') \/ PostCall(s))
           \/ /\ slot[s] # None /\ slot[s].key \in DOMAIN turns /\ FetchEnd(slot[s].key)
              /\ slot'[s] = [slot[s] EXCEPT !.persisted = TRUE]
           \/ Prefetch(s) /\ InTurn(s) /\ slot'[s] = FreshSlot(TurnOf(s))
<1>1. ASSUME NEW r \in Sessions, SessionStart(r) \/ EnsureInitialized(r)
      PROVE  slot'[s] = None /\ hurt' = Len(turns')
  BY <1>1 DEF SessionStart, EnsureInitialized, Clear
<1>2. ASSUME NEW r \in Sessions, PostCall(r)
      PROVE  slot'[s] = slot[s] \/ (slot'[s] = None /\ PostCall(s))
  <2>1. CASE slot' = slot
    BY <2>1
  <2>2. CASE slot' = [slot EXCEPT ![r] = None] /\ r = s
    BY <1>2, <2>2 DEF TypeOK
  <2>3. CASE slot' = [slot EXCEPT ![r] = None] /\ r # s
    BY <2>3 DEF TypeOK
  <2> QED BY <1>2, <2>1, <2>2, <2>3 DEF PostCall
<1>3. ASSUME NEW r \in Sessions, Prefetch(r)
      PROVE  slot'[s] = slot[s] \/ (r = s /\ InTurn(s) /\ slot'[s] = FreshSlot(TurnOf(s)))
  <2>1. InTurn(r) /\ (slot' = slot \/ slot' = [slot EXCEPT ![r] = FreshSlot(TurnOf(r))])
    BY <1>3 DEF Prefetch, InTurn
  <2>2. CASE slot' = slot
    BY <2>2
  <2>3. CASE slot' = [slot EXCEPT ![r] = FreshSlot(TurnOf(r))] /\ r = s
    BY <2>1, <2>3 DEF TypeOK
  <2>4. CASE slot' = [slot EXCEPT ![r] = FreshSlot(TurnOf(r))] /\ r # s
    BY <2>4 DEF TypeOK
  <2> QED BY <2>1, <2>2, <2>3, <2>4
<1>4. ASSUME NEW t \in DOMAIN turns, FetchEnd(t)
      PROVE  \/ slot'[s] = slot[s]
             \/ slot[s] # None /\ slot[s].key = t /\ slot'[s] = [slot[s] EXCEPT !.persisted = TRUE]
  BY <1>4 DEF FetchEnd, Settled
<1>5. \/ slot' = slot
      \/ \E r \in Sessions : SessionStart(r) \/ EnsureInitialized(r) \/ PostCall(r) \/ Prefetch(r)
      \/ \E t \in DOMAIN turns : FetchEnd(t)
  BY DEF Next, vars, MakeClient, MakeQueue, SessionStarted, FinalizeBegin, FinalizeEnd, PreCall,
         JoinTimeout,
         Abort, ServeFetch, FetchFails, WaitEnd,
         WriterTake, WriterWrites, WriterFails, ServeLate, Change
<1> QED BY <1>1, <1>2, <1>3, <1>4, <1>5

\* A user message keeps its one key.
LEMMA KeysOnceKept ==
    ASSUME TypeOK, Budget, TurnsSound, FetchesSound, KeysOnce, [Next]_vars PROVE KeysOnce'
<1>0. /\ Len(turns) \in Nat /\ DOMAIN turns = 1..Len(turns) /\ DOMAIN turns \subseteq Turns
      /\ KeysBegun /\ \A t \in Turns : t \in Nat
  BY TurnsTyped, Kinds DEF KeysOnce, Turns
\* A key that is issued by now is of a turn that had begun.
<1>1. \A key \in Keys : Issued(key)' => key[2] \in DOMAIN turns
  BY <1>0, IssuedBegun
<1>2. KeysBegun'
  BY <1>1, TurnsGrow DEF KeysBegun
<1>3. ASSUME NEW s \in Sessions, InTurn(s)', ~ PreCall(s)
      PROVE  InTurn(s) /\ TurnOf(s)' = TurnOf(s) /\ (stage'[s] = "stable" => stage[s] = "stable")
  <2>1. CASE \A r \in Sessions : ~ PreCall(r)
    BY <1>3, <2>1, StageStep, TurnOfSame
  <2>2. ASSUME NEW r \in Sessions, PreCall(r)
        PROVE  InTurn(s) /\ TurnOf(s)' = TurnOf(s) /\ (stage'[s] = "stable" => stage[s] = "stable")
    <3>1. r # s /\ stage' = [stage EXCEPT ![r] = "stable"]
      BY <1>3, <2>2 DEF PreCall
    <3>2. PICK x : turns' = Append(turns, [session |-> r, text |-> x])
      BY <2>2 DEF PreCall
    <3>3. TurnOf(s)' = TurnOf(s)
      BY <3>1, <3>2, TurnOfBegun
    <3>4. stage'[s] = stage[s]
      BY <3>1 DEF TypeOK
    <3> QED BY <1>3, <3>3, <3>4 DEF InTurn
  <2> QED BY <2>1, <2>2
<1>4. ASSUME NEW r \in Sessions, PostCall(r) PROVE ~ InTurn(r)' /\ stage[r] # "stable" /\ ~ PreCall(r)
  BY <1>4 DEF PostCall, PreCall, InTurn, TypeOK
\* The keys of a turn its conversation is in.
<1>5. ASSUME NEW s \in Sessions, NEW t \in Turns, InTurn(s)', t = TurnOf(s)'
      PROVE  /\ ~ Issued(AnswerKey(t))' /\ ~ Issued(FreshKey(t))'
             /\ stage'[s] = "stable" => ~ Issued(PrefetchKey(t))'
             /\ (t > hurt' /\ ~ Matches(slot[s], t)') => ~ Issued(PrefetchKey(t))'
  <2>1. CASE PreCall(s)
    <3>1. t = Len(turns) + 1
      BY <1>5, <2>1, TurnOfBegun DEF PreCall
    <3>2. t \notin DOMAIN turns
      BY <1>0, <3>1
    <3> QED BY <1>1, <3>2, KeysDistinct
  <2>2. CASE ~ PreCall(s)
    <3>1. InTurn(s) /\ TurnOf(s) = t /\ (stage'[s] = "stable" => stage[s] = "stable")
      BY <1>3, <1>5, <2>2
    <3>2. t \in DOMAIN turns /\ turns[t].session = s /\ \A r \in Sessions \ {s} : TurnOf(r) # t
      BY <3>1, TurnIs
    <3>3. ASSUME NEW r \in Sessions, NEW key, PostCall(r), OfTurn(r, key)
          PROVE  key # AnswerKey(t) /\ key # FreshKey(t) /\ key # PrefetchKey(t)
      <4>1. r # s /\ TurnOf(r) # t
        BY <1>4, <1>5, <3>2, <3>3
      <4>2. Matches(slot[r], TurnOf(r)) => slot[r].key # t
        BY <3>2, <4>1, WrittenSlot
      <4> QED BY <3>3, <4>1, <4>2, KeysDistinct DEF OfTurn
    <3>4. ~ Issued(AnswerKey(t)) /\ ~ Issued(FreshKey(t)) /\ (stage[s] = "stable" => ~ Issued(PrefetchKey(t)))
      BY <3>1 DEF KeysOnce
    <3>5. ~ Issued(AnswerKey(t))' /\ ~ Issued(FreshKey(t))'
      BY <3>3, <3>4, IssuedStep, KeysDistinct
    <3>6. ASSUME Issued(PrefetchKey(t))', ~ Issued(PrefetchKey(t))
          PROVE  stage'[s] = "join" /\ slot' = [slot EXCEPT ![s] = FreshSlot(t)] /\ UNCHANGED turns
      <4>1. PICK r \in Sessions :
               /\ PrefetchKey(t) = PrefetchKey(TurnOf(r)) /\ UNCHANGED turns
               /\ slot' = [slot EXCEPT ![r] = FreshSlot(TurnOf(r))] /\ stage'[r] = "join"
        BY <3>3, <3>6, IssuedStep
      <4>2. TurnOf(r) = t
        BY <4>1, KeysDistinct
      <4>3. r = s
        BY <3>2, <4>2
      <4> QED BY <4>1, <4>2, <4>3
    <3>7. ASSUME t > hurt', ~ Matches(slot[s], t)' PROVE ~ Issued(PrefetchKey(t))'
      <4>1. hurt' # Len(turns') /\ hurt' = hurt
        BY <1>0, <3>2, <3>7, HurtStep
      <4>2. turns'[t] = turns[t]
        BY <3>2, TurnsGrow
      <4>3. ASSUME Issued(PrefetchKey(t))', ~ Issued(PrefetchKey(t)) PROVE FALSE
        <5>1. slot'[s] = FreshSlot(t)
          BY <3>6, <4>3 DEF TypeOK
        <5>2. slot'[s] # None /\ slot'[s].text = turns[t].text
          BY <3>2, <5>1, SlotsAre DEF FreshSlot
        <5> QED BY <3>7, <4>2, <5>2 DEF Matches
      <4>4. ~ Matches(slot[s], t)
        <5>1. ASSUME Matches(slot[s], t) PROVE slot'[s] # None /\ slot'[s].text = turns[t].text
          <6>1. slot[s] # None /\ slot[s].text = turns[t].text /\ slot[s] \in Slots
            BY <5>1 DEF Matches, TypeOK
          <6>2. ~ PostCall(s)
            BY <1>4, <1>5
          <6>3. [slot[s] EXCEPT !.persisted = TRUE] \in Slots /\ [slot[s] EXCEPT !.persisted = TRUE].text = slot[s].text
            BY <6>1 DEF Slots
          <6>4. FreshSlot(t) # None /\ FreshSlot(t).text = turns[t].text
            BY <3>2, SlotsAre DEF FreshSlot
          <6>5. \/ slot'[s] = slot[s]
                \/ slot'[s] = [slot[s] EXCEPT !.persisted = TRUE]
                \/ slot'[s] = FreshSlot(t)
            BY <3>1, <4>1, <6>2, SlotStep
          <6> QED BY <6>1, <6>3, <6>4, <6>5, Kinds
        <5> QED BY <3>7, <4>2, <5>1 DEF Matches
      <4>5. ~ Issued(PrefetchKey(t))
        BY <3>1, <3>7, <4>1, <4>4 DEF KeysOnce
      <4> QED BY <4>3, <4>5
    <3>8. stage'[s] = "stable" => ~ Issued(PrefetchKey(t))'
      BY <3>1, <3>4, <3>6
    <3> QED BY <3>5, <3>7, <3>8
  <2> QED BY <2>1, <2>2
\* The key of a slot.
<1>6. ASSUME NEW s \in Sessions, NEW t \in Turns, slot'[s] # None, slot'[s].key = t PROVE ~ Issued(FreshKey(t))'
  <2>1. /\ ~ Issued(FreshKey(t)) /\ t \in DOMAIN turns /\ turns[t].session = s
    <3>1. CASE Prefetch(s) /\ InTurn(s) /\ slot'[s] = FreshSlot(TurnOf(s))
      <4>1. t = TurnOf(s)
        BY <1>6, <3>1 DEF FreshSlot
      <4> QED BY <3>1, <4>1, TurnIs DEF KeysOnce
    <3>2. CASE slot[s] # None /\ slot'[s].key = slot[s].key
      <4>1. Asked(t) /\ turns[t] = [session |-> s, text |-> slot[s].text]
        BY <1>6, <3>2 DEF FetchesSound
      <4> QED BY <1>6, <3>2, <4>1 DEF KeysOnce, Asked
    <3>3. slot[s] # None => [slot[s] EXCEPT !.persisted = TRUE].key = slot[s].key
      BY DEF TypeOK, Slots
    <3> QED BY <1>6, <3>1, <3>2, <3>3, SlotStep
  <2>2. ASSUME NEW r \in Sessions, InTurn(r), OfTurn(r, FreshKey(t)), slot'[r] = None PROVE FALSE
    <3>1. TurnOf(r) = t
      BY <2>2, KeysDistinct DEF OfTurn
    <3>2. r = s
      BY <2>1, <2>2, <3>1, TurnIs
    <3> QED BY <1>6, <2>2, <3>2
  <2> QED BY <2>1, <2>2, IssuedStep, KeysDistinct
\* The two keys of a turn.
<1>7. ASSUME NEW t \in Turns, t > hurt', Issued(PrefetchKey(t))', Issued(FreshKey(t))' PROVE FALSE
  <2>1. t \in DOMAIN turns
    BY <1>1, <1>7, KeysDistinct
  <2>2. hurt' = hurt
    BY <1>0, <1>7, <2>1, HurtStep
  <2>3. CASE ~ Issued(FreshKey(t))
    <3>1. PICK s \in Sessions : PostCall(s) /\ InTurn(s) /\ OfTurn(s, FreshKey(t)) /\ client # None
      BY <1>7, <2>2, <2>3, IssuedStep, KeysDistinct
    <3>2. t = TurnOf(s) /\ ~ Matches(slot[s], t)
      BY <3>1, KeysDistinct DEF OfTurn
    <3>3. ~ Issued(PrefetchKey(t)) /\ turns[t].session = s
      BY <1>7, <2>2, <3>1, <3>2, TurnIs DEF KeysOnce
    <3>4. ASSUME NEW r \in Sessions, Prefetch(r), InTurn(r), PrefetchKey(t) = PrefetchKey(TurnOf(r)) PROVE FALSE
      <4>1. TurnOf(r) = t
        BY <3>4, KeysDistinct
      <4>2. r = s
        BY <3>3, <3>4, <4>1, TurnIs
      <4> QED BY <3>1, <3>4, <4>2 DEF Prefetch, PostCall
    <3>5. ASSUME NEW r \in Sessions, OfTurn(r, PrefetchKey(t)) PROVE FALSE
      <4>1. Matches(slot[r], TurnOf(r)) /\ t = slot[r].key
        BY <3>5, KeysDistinct DEF OfTurn
      <4>2. r = s
        BY <3>3, <4>1, WrittenSlot
      <4> QED BY <3>2, <4>1, <4>2
    <3> QED BY <1>7, <3>3, <3>4, <3>5, IssuedStep
  <2>4. CASE ~ Issued(PrefetchKey(t)) /\ Issued(FreshKey(t))
    <3>1. ASSUME NEW r \in Sessions, InTurn(r), PrefetchKey(t) = PrefetchKey(TurnOf(r)) PROVE FALSE
      <4>1. TurnOf(r) = t
        BY <3>1, KeysDistinct
      <4> QED BY <2>4, <3>1, <4>1 DEF KeysOnce
    <3>2. ASSUME NEW r \in Sessions, OfTurn(r, PrefetchKey(t)) PROVE FALSE
      <4>1. Matches(slot[r], TurnOf(r)) /\ t = slot[r].key
        BY <3>2, KeysDistinct DEF OfTurn
      <4>2. slot[r] # None /\ slot[r].key = t
        BY <4>1, WrittenSlot
      <4> QED BY <2>4, <4>2 DEF KeysOnce
    <3> QED BY <1>7, <2>4, <3>1, <3>2, IssuedStep
  <2>5. ~ (Issued(PrefetchKey(t)) /\ Issued(FreshKey(t)))
    BY <1>7, <2>2 DEF KeysOnce
  <2> QED BY <2>3, <2>4, <2>5
<1> QED BY <1>2, <1>5, <1>6, <1>7 DEF KeysOnce

\* The messages of undisturbed turns stay on their way to the client's space.
LEMMA KeysLocatedKept ==
    ASSUME TypeOK, Budget, TurnsSound, FetchesSound, KeysOnce, KeysLocated, [Next]_vars PROVE KeysLocated'
<1>0. Len(turns) \in Nat /\ DOMAIN turns = 1..Len(turns) /\ KeysBegun
  BY TurnsTyped DEF KeysOnce
<1> SUFFICES ASSUME NEW key \in Keys, key[2] > hurt'
             PROVE  /\ \A sp \in Spaces : Bound(sp, key)' => sp = client'
                    /\ \A g \in Writers : Queued(g, key)' => g = queue'
                    /\ \A w \in Writers : Writing(w, key)' => writers'[w].queue = queue'
  BY DEF KeysLocated
<1>1. CASE hurt' = Len(turns')
  <2>1. ~ Issued(key)'
    BY <1>0, <1>1, IssuedBegun, HurtStep
  <2>2. \A w \in Writers : Writing(w, key)' => writers'[w].space \in Spaces
    <3>1. ASSUME NEW w \in Writers, Writing(w, key)' PROVE writers'[w].space \in Spaces
      <4>1. CASE writers'[w] = writers[w] /\ Writing(w, key)
        BY <4>1, WritingIs DEF Writing
      <4>2. CASE /\ UNCHANGED queue /\ writers'[w].space = client /\ UNCHANGED client
                 /\ Queued(writers[w].queue, key) /\ writers[w].queue \in Writers
        <5>1. Issued(key)
          BY <4>2 DEF Issued
        <5> QED BY <1>0, <1>1, <5>1, HurtStep DEF KeysBegun
      <4> QED BY <3>1, <4>1, <4>2, WritingStep
    <3> QED BY <3>1
  <2> QED BY <2>1, <2>2 DEF Issued, Bound
<1>2. CASE UNCHANGED <<hurt, client, queue>>
  <2>1. /\ \A sp \in Spaces : Bound(sp, key) => sp = client
        /\ \A g \in Writers : Queued(g, key) => g = queue
        /\ \A w \in Writers : Writing(w, key) => writers[w].queue = queue
    BY <1>2 DEF KeysLocated
  <2>2. ASSUME NEW sp \in Spaces, Bound(sp, key)' PROVE sp = client'
    BY <1>2, <2>1, <2>2, BoundStep
  <2>3. ASSUME NEW g \in Writers, Queued(g, key)' PROVE g = queue'
    BY <1>2, <2>1, <2>3, QueuedStep
  <2>4. ASSUME NEW w \in Writers, Writing(w, key)' PROVE writers'[w].queue = queue'
    <3>1. CASE writers'[w] = writers[w] /\ Writing(w, key)
      BY <1>2, <2>1, <3>1
    <3>2. CASE writers[w].queue \in Writers /\ writers'[w].queue = writers[w].queue /\ Queued(writers[w].queue, key)
      BY <1>2, <2>1, <3>2
    <3> QED BY <2>4, <3>1, <3>2, WritingStep
  <2> QED BY <2>2, <2>3, <2>4
<1> QED BY <1>1, <1>2, HurtStep

\* No message is recorded twice under one key.
LEMMA LogOnceKept ==
    ASSUME TypeOK, FetchesSound, LogOnce, [Next]_vars PROVE LogOnce'
<1>1. CASE log' = log
  BY <1>1 DEF LogOnce
<1>2. CASE log' # log
  <2>1. PICK q \in Spaces, t \in Turns :
           \E items \in {<<PrefetchKey(t)>>} \cup Answers(t) : log' = [log EXCEPT ![q] = Recorded(@, items)]
    BY <1>2, LogStep
  <2>2. PICK items \in {<<PrefetchKey(t)>>} \cup Answers(t) : log' = [log EXCEPT ![q] = Recorded(@, items)]
    BY <2>1
  <2>3. IsRecorded(log[q], items, log'[q]) /\ \A sp \in Spaces \ {q} : log'[sp] = log[sp]
    BY <2>2, LogTyped
  <2> DEFINE old == log[q]
             new == log'[q]
  <2>4. /\ old \in Seq(Keys) /\ new \in Seq(Keys) /\ Len(old) \in Nat /\ Len(new) \in Nat
        /\ DOMAIN old = 1..Len(old) /\ DOMAIN new = 1..Len(new)
    BY <2>3 DEF TypeOK, IsRecorded
  <2>5. /\ \A i \in 1..Len(old) : new[i] = old[i]
        /\ \A i \in (Len(old) + 1)..Len(new) : \A j \in 1..(i - 1) : new[j] # new[i]
    BY <2>3 DEF IsRecorded
  <2>6. \A i, j \in 1..Len(old) : old[i] = old[j] => i = j
    BY <2>4 DEF LogOnce
  <2> HIDE DEF old, new
  <2>7. ASSUME NEW i \in DOMAIN new, NEW j \in DOMAIN new, i < j, new[i] = new[j] PROVE FALSE
    <3>1. CASE j <= Len(old)
      <4>1. i \in 1..Len(old) /\ j \in 1..Len(old)
        BY <2>4, <2>7, <3>1
      <4> QED BY <2>5, <2>6, <2>7, <4>1
    <3>2. CASE ~ j <= Len(old)
      <4>1. j \in (Len(old) + 1)..Len(new) /\ i \in 1..(j - 1)
        BY <2>4, <2>7, <3>2
      <4> QED BY <2>5, <2>7, <4>1
    <3> QED BY <3>1, <3>2
  <2>8. \A i, j \in DOMAIN new : new[i] = new[j] => i = j
    <3>1. ASSUME NEW i \in DOMAIN new, NEW j \in DOMAIN new, new[i] = new[j] PROVE i = j
      <4>1. i \in Nat /\ j \in Nat
        BY <2>4
      <4> QED BY <2>7, <3>1, <4>1
    <3> QED BY <3>1
  <2> QED BY <2>3, <2>8 DEF LogOnce, new
<1> QED BY <1>1, <1>2

\* A user message that has one key and one space is recorded once.
LEMMA RecordedOnce ==
    ASSUME TypeOK, KeysOnce, KeysLocated, LogOnce PROVE RecordedTwiceOnlyIfDisturbed
<1> SUFFICES ASSUME NEW t \in Turns, t > hurt
             PROVE  Cardinality({p \in Spaces \X (1..(3 * MaxTurns)) :
                                   /\ p[2] \in DOMAIN log[p[1]]
                                   /\ log[p[1]][p[2]] \in {PrefetchKey(t), FreshKey(t)}}) <= 1
  BY DEF RecordedTwiceOnlyIfDisturbed
<1> DEFINE S == {p \in Spaces \X (1..(3 * MaxTurns)) :
                   /\ p[2] \in DOMAIN log[p[1]]
                   /\ log[p[1]][p[2]] \in {PrefetchKey(t), FreshKey(t)}}
<1>1. ASSUME NEW p \in S
      PROVE  /\ p[1] \in Spaces /\ p[1] = client /\ p = <<p[1], p[2]>> /\ p[2] \in DOMAIN log[client]
             /\ Issued(log[client][p[2]]) /\ log[client][p[2]] \in {PrefetchKey(t), FreshKey(t)}
  <2> DEFINE key == log[p[1]][p[2]]
  <2>1. p[1] \in Spaces /\ p = <<p[1], p[2]>> /\ p[2] \in DOMAIN log[p[1]] /\ key \in {PrefetchKey(t), FreshKey(t)}
    OBVIOUS
  <2>2. key \in Keys /\ key[2] = t
    BY <2>1, KeysDistinct
  <2>3. Bound(p[1], key)
    BY <2>1 DEF Bound, Logged
  <2>4. p[1] = client
    BY <2>1, <2>2, <2>3 DEF KeysLocated
  <2>5. Issued(key)
    BY <2>1, <2>3 DEF Issued
  <2> QED BY <2>1, <2>4, <2>5
<1>2. ASSUME NEW p \in S, NEW q \in S PROVE p = q
  <2>1. client \in Spaces /\ p[2] \in DOMAIN log[client] /\ q[2] \in DOMAIN log[client]
    BY <1>1
  <2>2. log[client][p[2]] = log[client][q[2]]
    BY <1>1 DEF KeysOnce
  <2>3. p[2] = q[2]
    BY <2>1, <2>2 DEF LogOnce
  <2> HIDE DEF S
  <2> QED BY <1>1, <2>3
<1> HIDE DEF S
<1>3. CASE S = {}
  <2>1. Cardinality(S) = 0
    BY <1>3, FS_EmptySet
  <2> QED BY <2>1 DEF S
<1>4. CASE S # {}
  <2>1. PICK p : p \in S
    BY <1>4
  <2>2. S = {p}
    BY <1>2, <2>1
  <2>3. Cardinality(S) = 1
    BY <2>2, FS_Singleton
  <2> QED BY <2>3 DEF S
<1> QED BY <1>3, <1>4

-----------------------------------------------------------------------------
(* Answers and their user messages. *)

\* The log only grows.
LEMMA LogGrows ==
    ASSUME TypeOK, FetchesSound, [Next]_vars, NEW sp \in Spaces
    PROVE  /\ Len(log[sp]) \in Nat /\ Len(log'[sp]) \in Nat /\ Len(log[sp]) <= Len(log'[sp])
           /\ DOMAIN log[sp] = 1..Len(log[sp]) /\ DOMAIN log'[sp] = 1..Len(log'[sp])
           /\ \A i \in DOMAIN log[sp] : i \in DOMAIN log'[sp] /\ log'[sp][i] = log[sp][i]
<1>1. log[sp] \in Seq(Keys) /\ Len(log[sp]) \in Nat /\ DOMAIN log[sp] = 1..Len(log[sp])
  BY DEF TypeOK
<1>2. CASE log' = log
  BY <1>1, <1>2
<1>3. CASE log' # log
  <2>1. PICK q \in Spaces, t \in Turns :
           \E items \in {<<PrefetchKey(t)>>} \cup Answers(t) : log' = [log EXCEPT ![q] = Recorded(@, items)]
    BY <1>3, LogStep
  <2>2. PICK items \in {<<PrefetchKey(t)>>} \cup Answers(t) : log' = [log EXCEPT ![q] = Recorded(@, items)]
    BY <2>1
  <2>3. IsRecorded(log[q], items, log'[q]) /\ \A p \in Spaces \ {q} : log'[p] = log[p]
    BY <2>2, LogTyped
  <2>4. CASE q # sp
    BY <1>1, <2>3, <2>4
  <2>5. CASE q = sp
    <3>1. /\ log'[sp] \in Seq(Keys) /\ Len(log[sp]) <= Len(log'[sp])
          /\ \A i \in 1..Len(log[sp]) : log'[sp][i] = log[sp][i]
      BY <2>3, <2>5 DEF IsRecorded
    <3> QED BY <1>1, <3>1
  <2> QED BY <2>4, <2>5
<1> QED BY <1>2, <1>3

\* A message that is recorded stays.
LEMMA LoggedKept ==
    ASSUME TypeOK, FetchesSound, [Next]_vars, NEW sp \in Spaces, NEW key, Logged(sp, key) PROVE Logged(sp, key)'
  BY LogGrows DEF Logged

\* The key of a turn's user message stays its key.
LEMMA UserKeyOfKept ==
    ASSUME TypeOK, [Next]_vars, NEW key, NEW t \in DOMAIN turns, UserKeyOf(key, t)
    PROVE  UserKeyOf(key, t)' /\ UserKeyOf(key, t) = UserKeyOf(key, t)'
<1>1. DOMAIN turns = 1..Len(turns) /\ Len(turns) \in Nat
  BY TurnsTyped
<1>2. \A u \in 1..t : turns'[u] = turns[u]
  BY <1>1, TurnsGrow
<1>3. turns'[t] = turns[t]
  BY TurnsGrow
<1> QED BY <1>2, <1>3 DEF UserKeyOf

\* The messages of a turn that has begun stay accompanied.
LEMMA AccompaniedKept ==
    ASSUME TypeOK, FetchesSound, [Next]_vars, NEW items, NEW t \in DOMAIN turns, Accompanied(items, t)
    PROVE  Accompanied(items, t)'
<1>1. Len(items) = 2 => UserKeyOf(items[1], t)'
  BY UserKeyOfKept DEF Accompanied
<1>2. ASSUME items[1] = AnswerKey(t), t > hurt'
      PROVE  \E sp \in Spaces, key \in UserKeys : sp = client' /\ UserKeyOf(key, t)' /\ Logged(sp, key)'
  <2>1. hurt' # Len(turns')
    BY <1>2, TurnsTyped, HurtStep
  <2>2. hurt' = hurt /\ client' = client
    BY <2>1, HurtStep
  <2>3. PICK sp \in Spaces, key \in UserKeys : sp = client /\ UserKeyOf(key, t) /\ Logged(sp, key)
    BY <1>2, <2>2 DEF Accompanied
  <2>4. UserKeyOf(key, t)' /\ Logged(sp, key)'
    BY <2>3, UserKeyOfKept, LoggedKept
  <2> QED BY <2>2, <2>3, <2>4
<1> QED BY <1>1, <1>2 DEF Accompanied

\* A batch that is newly pending is that of a turn that ends.
LEMMA PendingStep ==
    ASSUME TypeOK, Budget, [Next]_vars, NEW b \in TurnBatches, Pending(b)'
    PROVE  \/ Pending(b)
           \/ \E s \in Sessions :
                /\ PostCall(s) /\ InTurn(s) /\ b = Written(s) /\ queue' \in Writers
                /\ client # None /\ UNCHANGED <<client, hurt, turns, queue>>
<1>1. CASE \E w \in Writers : writers'[w].phase = "sent" /\ writers'[w].batch = b
  <2>1. PICK w \in Writers : writers'[w].phase = "sent" /\ writers'[w].batch = b
    BY <1>1
  <2>2. CASE writers'[w] = writers[w]
    BY <2>1, <2>2 DEF Pending
  <2>3. CASE writers'[w] # writers[w]
    <3> DEFINE g == writers[w].queue
    <3>1. g \in Writers /\ queues[g] # <<>> /\ b = Head(queues[g])
      <4>1. /\ g \in Writers /\ queues[g] # <<>>
            /\ writers'[w] = [phase |-> "sent", queue |-> g, space |-> client, batch |-> Head(queues[g])]
        BY <2>1, <2>3, WritersStep
      <4> HIDE DEF g
      <4> QED BY <2>1, <4>1
    <3>2. queues[g] \in Seq(TurnBatches \cup {Stop})
      BY <3>1 DEF TypeOK
    <3> HIDE DEF g
    <3>3. 1 \in DOMAIN queues[g] /\ queues[g][1] = b
      BY <3>1, <3>2
    <3> QED BY <3>1, <3>3 DEF Pending
  <2> QED BY <2>2, <2>3
<1>2. CASE \E g \in Writers : \E i \in DOMAIN queues'[g] : queues'[g][i] = b
  <2>0. PICK g \in Writers : \E i \in DOMAIN queues'[g] : queues'[g][i] = b
    BY <1>2
  <2>1. PICK i \in DOMAIN queues'[g] : queues'[g][i] = b
    BY <2>0
  <2>2. queues[g] \in Seq(TurnBatches \cup {Stop}) /\ Len(queues[g]) \in Nat /\ DOMAIN queues[g] = 1..Len(queues[g])
    BY DEF TypeOK
  <2>3. ASSUME queues'[g] = queues[g] PROVE Pending(b)
    BY <2>1, <2>3 DEF Pending
  <2>4. ASSUME queues[g] # <<>>, queues'[g] = Tail(queues[g]) PROVE Pending(b)
    <3>1. i + 1 \in DOMAIN queues[g] /\ queues'[g][i] = queues[g][i + 1]
      BY <2>1, <2>2, <2>4
    <3> QED BY <2>1, <3>1 DEF Pending
  <2>5. ASSUME NEW c, queues'[g] = Append(queues[g], c) PROVE b = c \/ Pending(b)
    <3>1. DOMAIN queues'[g] = 1..(Len(queues[g]) + 1)
      BY <2>2, <2>5
    <3>2. CASE i = Len(queues[g]) + 1
      BY <2>1, <2>2, <2>5, <3>2
    <3>3. CASE i # Len(queues[g]) + 1
      <4>1. i \in DOMAIN queues[g] /\ queues'[g][i] = queues[g][i]
        BY <2>1, <2>2, <2>5, <3>1, <3>3
      <4> QED BY <2>1, <4>1 DEF Pending
    <3> QED BY <3>2, <3>3
  <2>6. b # Stop
    BY BatchesAre
  <2>7. ASSUME NEW q \in Writers, NEW new, queues' = [queues EXCEPT ![q] = new]
        PROVE  (q = g => queues'[g] = new) /\ (q # g => queues'[g] = queues[g])
    BY <2>7 DEF TypeOK
  <2>8. ASSUME NEW w \in Writers, writers[w].queue \in Writers, queues[writers[w].queue] # <<>>,
               queues' = [queues EXCEPT ![writers[w].queue] = Tail(queues[writers[w].queue])]
        PROVE  Pending(b)
    <3>1. PICK q \in Writers : q = writers[w].queue
      BY <2>8
    <3>2. PICK new : new = Tail(queues[q])
      OBVIOUS
    <3>3. queues[q] # <<>> /\ queues' = [queues EXCEPT ![q] = new]
      BY <2>8, <3>1, <3>2
    <3>4. (q = g => queues'[g] = new) /\ (q # g => queues'[g] = queues[g])
      BY <2>7, <3>3
    <3> QED BY <2>3, <2>4, <3>2, <3>3, <3>4
  <2>9. ASSUME NEW q \in Writers, NEW c, queues' = [queues EXCEPT ![q] = Append(queues[q], c)]
        PROVE  b = c \/ Pending(b)
    <3>1. PICK new : new = Append(queues[q], c)
      OBVIOUS
    <3>2. queues' = [queues EXCEPT ![q] = new]
      BY <2>9, <3>1
    <3>3. (q = g => queues'[g] = new) /\ (q # g => queues'[g] = queues[g])
      BY <2>7, <3>2
    <3> QED BY <2>3, <2>5, <3>1, <3>3
  <2> QED BY <2>3, <2>6, <2>8, <2>9, QueuesStep
<1> QED BY <1>1, <1>2 DEF Pending

\* A batch under way is of a turn that has begun, and its answer is issued.
LEMMA PendingBegun ==
    ASSUME TypeOK, KeysBegun, NEW b \in TurnBatches, Pending(b) PROVE b.turn \in DOMAIN turns /\ Issued(AnswerKey(b.turn))
<1>1. b.turn \in Turns /\ b.items \in Answers(b.turn)
  BY BatchesAre
<1>2. /\ Len(b.items) \in {1, 2} /\ DOMAIN b.items = 1..Len(b.items) /\ b.items[Len(b.items)] = AnswerKey(b.turn)
  BY <1>1, AnswersAre
<1>3. \A n \in {1, 2} : n \in 1..n
  OBVIOUS
<1>4. \E j \in DOMAIN b.items : b.items[j] = AnswerKey(b.turn)
  BY <1>2, <1>3
<1>5. ASSUME NEW g \in Writers, NEW i \in DOMAIN queues[g], queues[g][i] = b PROVE Issued(AnswerKey(b.turn))
  <2>1. Queued(g, AnswerKey(b.turn))
    BY <1>4, <1>5 DEF Queued
  <2> QED BY <2>1 DEF Issued
<1>6. ASSUME NEW w \in Writers, writers[w].phase = "sent", writers[w].batch = b PROVE Issued(AnswerKey(b.turn))
  <2>1. writers[w].space \in Spaces
    BY <1>6, WritingIs
  <2>2. Writing(w, AnswerKey(b.turn))
    BY <1>4, <1>6 DEF Writing
  <2>3. Bound(writers[w].space, AnswerKey(b.turn))
    BY <2>2 DEF Bound
  <2> QED BY <2>1, <2>3 DEF Issued
<1>7. Issued(AnswerKey(b.turn))
  BY <1>5, <1>6 DEF Pending
<1> QED BY <1>1, <1>7, KeysDistinct DEF KeysBegun

\* An answer goes alone when the slot says that the user message is stored.
LEMMA WrittenAccompanied ==
    ASSUME TypeOK, TurnsSound, SlotsSound, FetchesSound, MessagesProven, [Next]_vars,
           NEW s \in Sessions, InTurn(s), stage[s] # "stable", NEW b, b = Written(s), client # None /\ UNCHANGED <<client, hurt, turns, queue>>
    PROVE  Accompanied(b.items, b.turn)'
<1>0. PICK t \in Turns, e \in {slot[s]} : t = TurnOf(s)
  BY TurnIs
<1>1. /\ t \in DOMAIN turns /\ turns[t].session = s /\ Len(turns) \in Nat /\ DOMAIN turns = 1..Len(turns)
      /\ \A u \in DOMAIN turns : turns[u].session = s => u \in 1..t
  BY <1>0, TurnIs, TurnsTyped
<1>2. b.turn = t /\ b.items = TurnMessages(t, e)
  BY <1>0 DEF Written, Batch
<1>3. ASSUME Matches(e, t)
      PROVE  /\ e = slot[s] /\ slot[s] # None /\ client # None /\ slot[s].key \in DOMAIN turns /\ slot[s].key \in Turns
             /\ \A u : u = slot[s].key => UserKeyOf(PrefetchKey(u), t)
  <2>1. e = slot[s] /\ slot[s] # None /\ client # None /\ slot[s].text = turns[t].text
    BY <1>0, <1>3 DEF Matches
  <2>2. slot[s].key \in DOMAIN turns /\ turns[slot[s].key] = [session |-> s, text |-> slot[s].text]
    BY <2>1 DEF FetchesSound, Asked
  <2>3. turns[t] \in [session : Sessions, text : Turns]
    BY <1>1, TurnsTyped
  <2>4. turns[t] = [session |-> s, text |-> slot[s].text]
    BY <1>1, <2>1, <2>3
  <2>5. turns[slot[s].key].session = s
    BY <2>2
  <2>6. slot[s].key \in 1..t
    BY <1>1, <2>2, <2>5
  <2>7. slot[s].key \in Turns
    BY <2>2, TurnsTyped
  <2> QED BY <2>1, <2>2, <2>4, <2>6, <2>7 DEF UserKeyOf
<1>4. UserKeyOf(FreshKey(t), t)
  BY <1>1 DEF UserKeyOf
<1>5. CASE Matches(e, t) /\ e.persisted
  <2>1. b.items = <<AnswerKey(t)>>
    BY <1>2, <1>5 DEF TurnMessages
  <2>2. Len(b.items) # 2
    BY <2>1
  <2>3. ASSUME t > hurt'
        PROVE  \E sp \in Spaces, key \in UserKeys : sp = client' /\ UserKeyOf(key, t)' /\ Logged(sp, key)'
    <3>1. e = slot[s] /\ slot[s].key > hurt
      BY <1>0, <1>5, <2>3 DEF SlotsSound
    <3>2. client' = client /\ client \in Spaces
      BY <1>3, <1>5 DEF TypeOK
    <3>3. PICK u \in Turns : u = slot[s].key
      BY <1>3, <1>5
    <3>4. PICK sp \in Spaces : sp = client
      BY <3>2
    <3>5. Logged(sp, PrefetchKey(u))' /\ UserKeyOf(PrefetchKey(u), t)'
      <4>1. Logged(sp, PrefetchKey(u))
        BY <1>3, <1>5, <3>1, <3>3, <3>4 DEF MessagesProven
      <4>2. UserKeyOf(PrefetchKey(u), t)
        BY <1>3, <1>5, <3>3
      <4> QED BY <1>1, <4>1, <4>2, LoggedKept, UserKeyOfKept
    <3>6. PrefetchKey(u) \in UserKeys
      BY KeysDistinct
    <3> QED BY <3>2, <3>4, <3>5, <3>6
  <2> QED BY <1>2, <2>2, <2>3 DEF Accompanied
<1>6. CASE ~ (Matches(e, t) /\ e.persisted)
  <2>1. b.items = <<UserKey(t, e), AnswerKey(t)>>
    BY <1>2, <1>6 DEF TurnMessages
  <2>2. b.items[1] = UserKey(t, e)
    BY <2>1
  <2>3. PICK u \in Turns : b.items[1] \in {PrefetchKey(u), FreshKey(u)} /\ UserKeyOf(b.items[1], t)
    <3>1. CASE Matches(e, t)
      <4>1. PICK u \in Turns : u = slot[s].key
        BY <1>3, <3>1
      <4>2. b.items[1] = PrefetchKey(u) /\ UserKeyOf(PrefetchKey(u), t)
        BY <1>3, <2>2, <3>1, <4>1 DEF UserKey
      <4> QED BY <4>2
    <3>2. CASE ~ Matches(e, t)
      <4>1. b.items[1] = FreshKey(t)
        BY <2>2, <3>2 DEF UserKey
      <4> QED BY <1>1, <1>4, <4>1
    <3> QED BY <3>1, <3>2
  <2>4. b.items[1] # AnswerKey(t) /\ UserKeyOf(b.items[1], t)'
    BY <1>1, <2>3, KeysDistinct, UserKeyOfKept
  <2> QED BY <1>2, <2>4 DEF Accompanied
<1> QED BY <1>5, <1>6

\* A request under way was, or is a prefetch's that is sent now.
LEMMA FetchingStep ==
    ASSUME TypeOK, TurnsSound, FetchesSound, [Next]_vars, NEW t \in Turns, fetches'[t].phase \in {"sent", "served"}
    PROVE  \/ /\ fetches[t].phase \in {"sent", "served"} /\ fetches'[t].space = fetches[t].space
              /\ fetches'[t].phase = "served" /\ fetches[t].phase = "sent" => ServeFetch(t)
           \/ fetches'[t].phase = "sent" /\ fetches'[t].space = client /\ UNCHANGED client
<1>1. CASE fetches'[t].phase = "sent"
  BY <1>1, SentStep
<1>2. CASE fetches'[t].phase = "served" /\ fetches' # fetches
  <2>1. ASSUME NEW u \in DOMAIN turns, FetchEnd(u) \/ FetchFails(u) \/ WaitEnd(u)
        PROVE  fetches'[t] = fetches[t]
    <3>1. \E b, c : fetches' = Ended(u, b, c)
      BY <2>1 DEF FetchEnd, FetchFails, WaitEnd
    <3>2. \A b, c : [NoFetch EXCEPT !.phase = "ended", !.update = b, !.now = c].phase # "served"
      BY DEF NoFetch
    <3> QED BY <1>2, <3>1, <3>2 DEF Ended, TypeOK
  <2>2. ASSUME NEW u \in DOMAIN turns, ServeFetch(u)
        PROVE  \/ fetches'[t] = fetches[t]
               \/ u = t /\ fetches[t].phase = "sent" /\ fetches'[t].space = fetches[t].space
    BY <2>2, ServedIs
  <2>3. ASSUME NEW s \in Sessions, Prefetch(s) PROVE fetches'[t] = fetches[t]
    <3> DEFINE wait == [NoFetch EXCEPT !.phase = "wait", !.on = slot[s].key, !.gen = clients]
               sent == [NoFetch EXCEPT !.phase = "sent", !.space = client, !.gen = clients, !.cached = bundle']
    <3>1. wait.phase # "served" /\ sent.phase # "served"
      BY DEF NoFetch
    <3>2. \/ fetches' = [fetches EXCEPT ![TurnOf(s)] = wait]
          \/ fetches' = [fetches EXCEPT ![TurnOf(s)] = sent]
      BY <1>2, <2>3 DEF Prefetch
    <3> HIDE DEF wait, sent
    <3> QED BY <1>2, <3>1, <3>2 DEF TypeOK
  <2>4. \/ \E s \in Sessions : Prefetch(s)
        \/ \E u \in DOMAIN turns : ServeFetch(u) \/ FetchEnd(u) \/ FetchFails(u) \/ WaitEnd(u)
    BY <1>2 DEF Next, vars, SessionStart, EnsureInitialized, Clear, MakeClient, MakeQueue,
                SessionStarted, FinalizeBegin, FinalizeEnd, PreCall, JoinTimeout, PostCall, Abort,
                WriterTake, WriterWrites, WriterFails, ServeLate, Change
  <2> QED BY <1>2, <2>1, <2>2, <2>3, <2>4
<1>3. CASE fetches' = fetches
  BY <1>3
<1> QED BY <1>1, <1>2, <1>3

\* An answer that is recorded now was accompanied.
LEMMA AnswersProven ==
    ASSUME TypeOK, TurnsSound, FetchesSound, KeysBegun, MessagesProven, Budget, KeysOnce, KeysLocated', [Next]_vars
    PROVE  AnswerAloneOnlyIfDisturbed'
<1>0. Len(turns) \in Nat /\ DOMAIN turns = 1..Len(turns) /\ DOMAIN turns \subseteq Turns
  BY TurnsTyped
<1> SUFFICES ASSUME NEW sp \in Spaces, NEW i \in DOMAIN log'[sp], NEW t \in DOMAIN turns',
                    log'[sp][i] = AnswerKey(t), t > hurt'
             PROVE  \E j \in 1..(i - 1) : \E u \in 1..t :
                       log'[sp][j] \in {PrefetchKey(u), FreshKey(u)} /\ turns'[u] = turns'[t]
  BY DEF AnswerAloneOnlyIfDisturbed
<1>1. Len(turns') <= MaxTurns /\ DOMAIN turns' = 1..Len(turns') /\ Len(turns') \in Nat
  <2>1. \/ turns' = turns \/ \E s \in Sessions : PreCall(s)
    BY StageStep
  <2>2. ASSUME NEW s \in Sessions, PreCall(s) PROVE Len(turns') <= MaxTurns /\ DOMAIN turns' = 1..Len(turns') /\ Len(turns') \in Nat
    <3>1. PICK x : turns' = Append(turns, [session |-> s, text |-> x])
      BY <2>2 DEF PreCall
    <3>2. DOMAIN turns' = 1..(Len(turns) + 1) /\ Len(turns') = Len(turns) + 1 /\ Len(turns) < MaxTurns
      BY <2>2, <3>1, TurnOfBegun DEF PreCall
    <3> QED BY <1>0, <3>2, Kinds
  <2> QED BY <1>0, <2>1, <2>2 DEF TypeOK
<1>2. t \in Turns
  BY <1>1, Kinds DEF Turns
<1>3. Bound(sp, AnswerKey(t))' /\ AnswerKey(t) \in Keys /\ AnswerKey(t)[2] = t
  BY <1>2, KeysDistinct DEF Bound, Logged
<1>4. Issued(AnswerKey(t))'
  BY <1>3 DEF Issued
<1>5. t \in DOMAIN turns /\ sp = client'
  BY <1>3, <1>4, IssuedBegun DEF KeysLocated
<1>6. hurt' = hurt /\ client' = client /\ turns'[t] = turns[t] /\ \A u \in 1..t : turns'[u] = turns[u]
  <2>1. hurt' # Len(turns')
    BY <1>0, <1>5, HurtStep
  <2>2. \A u \in 1..t : u \in DOMAIN turns
    BY <1>0, <1>5
  <2> QED BY <1>5, <2>1, <2>2, HurtStep, TurnsGrow
<1>7. /\ Len(log[sp]) \in Nat /\ DOMAIN log[sp] = 1..Len(log[sp]) /\ DOMAIN log'[sp] = 1..Len(log'[sp])
      /\ Len(log'[sp]) \in Nat /\ i \in Nat
      /\ \A j \in DOMAIN log[sp] : j \in DOMAIN log'[sp] /\ log'[sp][j] = log[sp][j]
  BY LogGrows
<1>8. CASE i \in DOMAIN log[sp]
  <2>1. log[sp][i] = AnswerKey(t) /\ t > hurt
    BY <1>6, <1>7, <1>8
  <2>2. PICK j \in 1..(i - 1) : \E u \in 1..t : log[sp][j] \in {PrefetchKey(u), FreshKey(u)} /\ turns[u] = turns[t]
    BY <1>5, <1>8, <2>1 DEF MessagesProven, AnswerAloneOnlyIfDisturbed
  <2>3. j \in DOMAIN log[sp]
    BY <1>7, <1>8
  <2> QED BY <1>6, <1>7, <2>2, <2>3
<1>9. CASE i \notin DOMAIN log[sp]
  <2> DEFINE Source(q, w, items) ==
                /\ log' = [log EXCEPT ![q] = Recorded(@, items)]
                /\ \/ items = <<PrefetchKey(w)>>
                   \/ \E r \in wire : r.space = q /\ r.items = items
                   \/ \E v \in Writers : /\ writers[v].phase = "sent" /\ writers[v].batch.turn = w
                                        /\ writers[v].batch.items = items
  <2>1. PICK q \in Spaces, w \in Turns : \E items \in {<<PrefetchKey(w)>>} \cup Answers(w) : Source(q, w, items)
    <3>1. log' # log
      BY <1>9
    <3> QED BY <3>1, LogStep
  <2>2. PICK items \in {<<PrefetchKey(w)>>} \cup Answers(w) : Source(q, w, items)
    BY <2>1
  <2>3. IsRecorded(log[q], items, log'[q]) /\ \A p \in Spaces \ {q} : log'[p] = log[p]
    BY <2>2, LogTyped
  <2>4. q = sp
    BY <1>9, <2>3
  <2> DEFINE new == log'[sp]
  <2>5. IsRecorded(log[sp], items, new)
    BY <2>3, <2>4
  <2>6. i \in (Len(log[sp]) + 1)..Len(new)
    BY <1>7, <1>9
  <2>7. /\ \E j \in 1..Len(items) : new[i] = items[j]
        /\ Len(items) = 2 /\ new[i] # items[1] => \E j \in 1..(i - 1) : new[j] = items[1]
    BY <2>5, <2>6 DEF IsRecorded
  \* The answer is that of the request.
  <2>8. items \in Answers(t) /\ Accompanied(items, t)
    <3>1. items # <<PrefetchKey(w)>>
      <4>1. ASSUME items = <<PrefetchKey(w)>> PROVE FALSE
        <5>1. AnswerKey(t) = PrefetchKey(w)
          BY <2>7, <4>1
        <5> QED BY <5>1, KeysDistinct
      <4> QED BY <4>1
    <3>2. items \in Answers(w)
      BY <3>1
    <3>3. /\ Len(items) \in {1, 2} /\ items[Len(items)] = AnswerKey(w) /\ (Len(items) = 2 => items[1] \in UserKeys)
      BY <3>2, AnswersAre
    <3>4. w = t
      <4>1. CASE Len(items) = 1
        <5>1. AnswerKey(t) = AnswerKey(w)
          BY <2>7, <3>3, <4>1
        <5> QED BY <5>1, KeysDistinct
      <4>2. CASE Len(items) = 2
        <5>1. AnswerKey(t) = AnswerKey(w) \/ AnswerKey(t) \in UserKeys
          BY <2>7, <3>3, <4>2
        <5> QED BY <1>2, <5>1, KeysDistinct
      <4> QED BY <3>3, <4>1, <4>2
    <3>5. CASE \E r \in wire : r.items = items
      BY <3>2, <3>4, <3>5 DEF MessagesProven
    <3>6. ASSUME NEW v \in Writers, writers[v].phase = "sent", writers[v].batch.turn = w, writers[v].batch.items = items
          PROVE  Accompanied(items, t)
      <4>1. writers[v].batch \in TurnBatches /\ Pending(writers[v].batch)
        BY <3>6, WritingIs DEF Pending
      <4>2. PICK b \in TurnBatches : b = writers[v].batch
        BY <4>1
      <4>3. Pending(b)
        BY <3>6, <4>2 DEF Pending
      <4>4. Accompanied(b.items, b.turn)
        BY <4>3 DEF MessagesProven
      <4> QED BY <3>4, <3>6, <4>2, <4>4
    <3> QED BY <2>2, <3>1, <3>2, <3>4, <3>5, <3>6
  <2>9. Len(items) \in {1, 2} /\ items[Len(items)] = AnswerKey(t) /\ (Len(items) = 2 => items[1] \in UserKeys)
    BY <1>2, <2>8, AnswersAre
  <2>10. CASE Len(items) = 2
    <3>1. items[1] # AnswerKey(t) /\ UserKeyOf(items[1], t)
      BY <1>2, <2>8, <2>9, <2>10, KeysDistinct DEF Accompanied
    <3>2. PICK j \in 1..(i - 1) : new[j] = items[1]
      BY <2>7, <2>10, <3>1
    <3>3. PICK u \in 1..t : items[1] \in {PrefetchKey(u), FreshKey(u)} /\ turns[u] = turns[t]
      BY <3>1 DEF UserKeyOf
    <3> QED BY <1>6, <3>2, <3>3
  <2>11. CASE Len(items) = 1
    <3>1. items[1] = AnswerKey(t)
      BY <2>9, <2>11
    <3>2. PICK p \in Spaces, key \in UserKeys : p = client /\ UserKeyOf(key, t) /\ Logged(p, key)
      BY <1>6, <2>8, <3>1 DEF Accompanied
    <3>3. p = sp
      BY <1>5, <1>6, <3>2
    <3>4. PICK j \in DOMAIN log[sp] : log[sp][j] = key
      BY <3>2, <3>3 DEF Logged
    <3>5. j \in 1..(i - 1) /\ new[j] = key
      BY <1>7, <2>6, <3>4
    <3>6. PICK u \in 1..t : key \in {PrefetchKey(u), FreshKey(u)} /\ turns[u] = turns[t]
      BY <3>2 DEF UserKeyOf
    <3> QED BY <1>6, <3>5, <3>6
  <2> QED BY <2>9, <2>10, <2>11
<1> QED BY <1>8, <1>9

\* What a slot says is stored is stored, so that answers go accompanied.
LEMMA MessagesProvenKept ==
    ASSUME TypeOK, TypeOK', Budget, TurnsSound, SlotsSound, FetchesSound, KeysOnce, KeysOnce',
           KeysLocated', MessagesProven, [Next]_vars
    PROVE  MessagesProven'
<1>0. KeysBegun
  BY DEF KeysOnce
\* The message of a prefetch that is served is in the log.
<1>1. ASSUME NEW t \in Turns, NEW sp \in Spaces, fetches'[t].phase = "served", fetches'[t].space = sp
      PROVE  Logged(sp, PrefetchKey(t))'
  <2>1. CASE fetches[t].phase = "served" /\ fetches[t].space = sp
    <3>1. Logged(sp, PrefetchKey(t))
      BY <2>1 DEF MessagesProven
    <3> QED BY <3>1, LoggedKept
  <2>2. CASE fetches[t].phase = "sent" /\ fetches[t].space = sp /\ ServeFetch(t)
    <3>1. log' = [log EXCEPT ![sp] = Recorded(@, <<PrefetchKey(t)>>)]
      BY <2>2 DEF ServeFetch
    <3>2. IsRecorded(log[sp], <<PrefetchKey(t)>>, log'[sp])
      BY <3>1, LogTyped
    <3>3. \E i \in 1..Len(log'[sp]) : log'[sp][i] = PrefetchKey(t)
      BY <3>2 DEF IsRecorded
    <3> QED BY <3>3, LogGrows DEF Logged
  <2> QED BY <1>1, <2>1, <2>2, FetchingStep
\* What a slot says of its message.
<1>2. ASSUME NEW s \in Sessions, NEW t \in Turns, slot'[s] # None, slot'[s].key = t, t > hurt'
      PROVE  /\ fetches'[t].phase \in {"sent", "served"} => fetches'[t].space = client'
             /\ \A sp \in Spaces : slot'[s].persisted /\ sp = client' => Logged(sp, PrefetchKey(t))'
  <2>1. client' = client /\ hurt' = hurt
    <3>1. slot'[s].key \in DOMAIN turns' /\ hurt' \in 0..Len(turns')
      BY <1>2 DEF TypeOK
    <3>2. DOMAIN turns' = 1..Len(turns')
      BY DEF TypeOK
    <3>3. hurt' # Len(turns')
      BY <1>2, <3>1, <3>2
    <3> QED BY <3>3, HurtStep
  <2>2. CASE slot[s] # None /\ slot[s].key = t
    <3>1. fetches[t].phase \in {"sent", "served"} => fetches[t].space = client
      BY <1>2, <2>1, <2>2 DEF MessagesProven
    <3>2. fetches'[t].phase \in {"sent", "served"} => fetches'[t].space = client'
      BY <2>1, <3>1, FetchingStep
    <3>3. ASSUME NEW sp \in Spaces, slot'[s].persisted, sp = client PROVE Logged(sp, PrefetchKey(t))
      <4>1. CASE slot[s].persisted
        BY <1>2, <2>1, <2>2, <3>3, <4>1 DEF MessagesProven
      <4>2. CASE FetchEnd(t)
        <5>1. fetches[t].phase = "served"
          BY <4>2 DEF FetchEnd
        <5> QED BY <3>1, <3>3, <5>1 DEF MessagesProven
      <4>3. Prefetch(s) /\ InTurn(s) /\ slot'[s] = FreshSlot(TurnOf(s)) => ~ slot'[s].persisted
        BY DEF FreshSlot
      <4> QED BY <1>2, <2>2, <3>3, <4>1, <4>2, <4>3, SlotStep
    <3> QED BY <2>1, <3>2, <3>3, LoggedKept
  <2>3. CASE Prefetch(s) /\ InTurn(s) /\ slot'[s] = FreshSlot(TurnOf(s))
    <3>1. t = TurnOf(s) /\ ~ slot'[s].persisted
      BY <1>2, <2>3 DEF FreshSlot
    <3>2. fetches[t].phase = "none"
      BY <2>3, <3>1 DEF Prefetch, FetchesSound
    <3> QED BY <2>1, <3>1, <3>2, FetchingStep
  <2>4. slot[s] # None => [slot[s] EXCEPT !.persisted = TRUE].key = slot[s].key
    BY DEF TypeOK, Slots
  <2> QED BY <1>2, <2>2, <2>3, <2>4, SlotStep
\* Batches and requests given up.
<1>3. ASSUME NEW b \in TurnBatches, Pending(b)' PROVE Accompanied(b.items, b.turn)'
  <2>1. CASE Pending(b)
    <3>1. Accompanied(b.items, b.turn) /\ b.turn \in DOMAIN turns
      BY <1>0, <2>1, PendingBegun DEF MessagesProven
    <3> QED BY <3>1, AccompaniedKept
  <2>2. \A s \in Sessions : PostCall(s) => stage[s] # "stable"
    BY DEF PostCall
  <2> QED BY <1>3, <2>1, <2>2, PendingStep, WrittenAccompanied
<1>4. ASSUME NEW r \in wire', NEW t \in Turns, r.items \in Answers(t) PROVE Accompanied(r.items, t)'
  <2>1. PICK items \in Answers(t) : items = r.items
    BY <1>4
  <2>2. Len(items) \in {1, 2} /\ DOMAIN items = 1..Len(items) /\ items[Len(items)] = AnswerKey(t)
    BY AnswersAre
  <2>3. \A n \in {1, 2} : n \in 1..n
    OBVIOUS
  <2>4. \E j \in DOMAIN items : items[j] = AnswerKey(t)
    BY <2>2, <2>3
  <2>5. CASE r \in wire
    <3>1. r.space \in Spaces /\ Accompanied(items, t)
      BY <2>1, <2>5, WireIs DEF MessagesProven
    <3>2. Bound(r.space, AnswerKey(t))
      BY <2>1, <2>4, <2>5 DEF Bound
    <3>3. t \in DOMAIN turns
      BY <1>0, <3>1, <3>2, KeysDistinct DEF KeysBegun, Issued
    <3> QED BY <2>1, <3>1, <3>3, AccompaniedKept
  <2>6. ASSUME NEW u \in Turns, items = <<PrefetchKey(u)>> PROVE FALSE
    <3>1. PrefetchKey(u) = AnswerKey(t)
      BY <2>2, <2>6
    <3> QED BY <3>1, KeysDistinct
  <2>7. ASSUME NEW w \in Writers, writers[w].phase = "sent", items = writers[w].batch.items PROVE Accompanied(items, t)'
    <3>1. PICK b \in TurnBatches : b = writers[w].batch
      BY <2>7, WritingIs
    <3>2. Pending(b) /\ b.items = items
      BY <2>7, <3>1 DEF Pending
    <3>3. b.items \in Answers(b.turn) /\ b.turn \in Turns
      BY BatchesAre
    <3>4. b.items[Len(b.items)] = AnswerKey(b.turn)
      BY <3>3, AnswersAre
    <3>5. b.turn = t
      <4>1. AnswerKey(b.turn) = AnswerKey(t)
        BY <2>2, <3>2, <3>4
      <4> QED BY <4>1, KeysDistinct
    <3>6. Accompanied(items, t) /\ t \in DOMAIN turns
      BY <1>0, <3>2, <3>5, PendingBegun DEF MessagesProven
    <3> QED BY <3>6, AccompaniedKept
  <2> QED BY <2>1, <2>5, <2>6, <2>7, WireStep
<1>5. AnswerAloneOnlyIfDisturbed'
  BY <1>0, AnswersProven
<1> QED BY <1>1, <1>2, <1>3, <1>4, <1>5 DEF MessagesProven

-----------------------------------------------------------------------------
(* Bundles and spaces. *)

\* A step that keeps the client and replaces one request.
LEMMA SpacesStep ==
    ASSUME TypeOK, FetchesSound, SpacesSound, UNCHANGED <<making, client, clients>>,
           NEW t \in Turns, NEW g,
           fetches' = [fetches EXCEPT ![t] = g], g.gen <= clients,
           \A s \in Sessions : stable'[s].gen <= clients,
           (~ crossed' /\ client # None) =>
             /\ ~ crossed
             /\ Of(bundle', client)
             /\ \A s \in Sessions : /\ Of(cache'[s], client)
                                    /\ stable'[s].gen = clients => Of(stable'[s].bundle, client)
             /\ \A s \in Sessions : slot'[s] # None =>
                  \/ slot[s] # None /\ slot'[s].key = slot[s].key
                  \/ slot'[s].key = t /\ AnswerOf(g, client, clients)
             /\ g.phase \in {"sent", "served"} => AnswerOf(g, client, clients)
             /\ (g.phase = "wait" /\ g.gen = clients) => /\ g.on \in Turns \ {t}
                                                         /\ AnswerOf(fetches[g.on], client, clients)
             /\ (Asked(t) /\ AnswerOf(fetches[t], client, clients)) => AnswerOf(g, client, clients),
           (~ crossed' /\ Replacing) =>
             /\ ~ crossed /\ bundle' = None
             /\ \A s \in Sessions : cache'[s] = None
             /\ \A s \in Sessions : slot'[s] # None =>
                  \/ slot[s] # None /\ slot'[s].key = slot[s].key
                  \/ slot'[s].key = t
             /\ g.phase = "ended" => g.update = None
    PROVE  SpacesSound'
<1>1. /\ fetches'[t] = g /\ \A u \in Turns \ {t} : fetches'[u] = fetches[u]
      /\ DOMAIN turns \subseteq Turns /\ (Replacing' <=> Replacing)
  BY TurnsTyped DEF TypeOK, Replacing
<1>2. (\A u \in Turns : fetches'[u].gen <= clients') /\ (\A s \in Sessions : stable'[s].gen <= clients')
  BY <1>1 DEF SpacesSound
<1>3. ASSUME ~ crossed', client # None
      PROVE  /\ Of(bundle', client)
             /\ \A s \in Sessions :
                  /\ Of(cache'[s], client)
                  /\ stable'[s].gen = clients => Of(stable'[s].bundle, client)
                  /\ slot'[s] # None => AnswerOf(fetches'[slot'[s].key], client, clients)
             /\ \A u \in Turns :
                  /\ fetches'[u].phase \in {"sent", "served"} => AnswerOf(fetches'[u], client, clients)
                  /\ (fetches'[u].phase = "wait" /\ fetches'[u].gen = clients) =>
                       AnswerOf(fetches'[fetches'[u].on], client, clients)
  \* A request that something goes back to stays one whose answer is accepted.
  <2>1. ASSUME NEW u \in Turns, Asked(u), AnswerOf(fetches[u], client, clients)
        PROVE  AnswerOf(fetches'[u], client, clients)
    BY <1>1, <1>3, <2>1
  <2>2. ASSUME NEW s \in Sessions, slot'[s] # None
        PROVE  AnswerOf(fetches'[slot'[s].key], client, clients)
    <3>1. CASE slot[s] # None /\ slot'[s].key = slot[s].key
      <4>1. Asked(slot[s].key) /\ slot[s].key \in Turns
        BY <1>1, <3>1 DEF FetchesSound, Asked
      <4>2. AnswerOf(fetches[slot[s].key], client, clients)
        BY <1>3, <3>1 DEF SpacesSound
      <4> QED BY <2>1, <3>1, <4>1, <4>2
    <3> QED BY <1>1, <1>3, <2>2, <3>1
  <2>3. ASSUME NEW u \in Turns
        PROVE  /\ fetches'[u].phase \in {"sent", "served"} => AnswerOf(fetches'[u], client, clients)
               /\ (fetches'[u].phase = "wait" /\ fetches'[u].gen = clients) =>
                    AnswerOf(fetches'[fetches'[u].on], client, clients)
    <3>1. CASE u = t
      BY <1>1, <1>3, <3>1
    <3>2. CASE u # t
      <4>1. fetches'[u] = fetches[u] /\ (fetches[u].phase \in {"sent", "served"} => AnswerOf(fetches[u], client, clients))
        BY <1>1, <1>3, <3>2 DEF SpacesSound
      <4>2. ASSUME fetches[u].phase = "wait", fetches[u].gen = clients
            PROVE  AnswerOf(fetches'[fetches[u].on], client, clients)
        <5>1. Asked(fetches[u].on) /\ fetches[u].on \in Turns
          BY <1>1, <4>2 DEF FetchesSound, Asked
        <5>2. AnswerOf(fetches[fetches[u].on], client, clients)
          BY <1>3, <4>2 DEF SpacesSound
        <5> QED BY <2>1, <5>1, <5>2
      <4> QED BY <4>1, <4>2
    <3> QED BY <3>1, <3>2
  <2> QED BY <1>3, <2>2, <2>3
<1>4. ASSUME ~ crossed', Replacing
      PROVE  /\ bundle' = None
             /\ \A s \in Sessions :
                  /\ cache'[s] = None
                  /\ (slot'[s] # None /\ fetches'[slot'[s].key].phase = "ended") =>
                       fetches'[slot'[s].key].update = None
  <2>1. ASSUME NEW s \in Sessions, slot[s] # None
        PROVE  slot[s].key \in Turns /\ (fetches[slot[s].key].phase = "ended" => fetches[slot[s].key].update = None)
    BY <1>1, <1>4, <2>1 DEF SpacesSound, FetchesSound, Asked
  <2>2. ASSUME NEW s \in Sessions, slot'[s] # None, fetches'[slot'[s].key].phase = "ended"
        PROVE  fetches'[slot'[s].key].update = None
    <3>1. CASE slot'[s].key # t
      BY <1>1, <1>4, <2>1, <2>2, <3>1
    <3>2. CASE slot'[s].key = t
      BY <1>1, <1>4, <2>2, <3>2
    <3> QED BY <3>1, <3>2
  <2> QED BY <1>4, <2>2
<1> QED BY <1>1, <1>2, <1>3, <1>4 DEF SpacesSound

\* Steps that leave bundles and requests alone, and do not begin to replace the client.
LEMMA SpacesStay ==
    ASSUME SpacesSound, UNCHANGED <<client, clients, stable, bundle, cache, slot, fetches, crossed>>,
           Replacing' => Replacing
    PROVE  SpacesSound'
  BY DEF SpacesSound

\* The first step of an initialisation drops what the provider had.
LEMMA SpacesCleared ==
    ASSUME SpacesSound, NEW s \in Sessions, Clear(s) PROVE SpacesSound'
<1>1. /\ bundle' = None /\ UNCHANGED <<client, clients, stable, fetches, crossed>>
      /\ \A r \in Sessions : cache'[r] = None /\ slot'[r] = None
  BY DEF Clear, BundleAfterInit, clientVars
<1>2. Of(bundle', client) /\ \A r \in Sessions : Of(cache'[r], client)
  BY <1>1 DEF Of
<1> QED BY <1>1, <1>2 DEF SpacesSound

\* The second gives it a client no request was made with.
LEMMA SpacesReplaced ==
    ASSUME TypeOK, FetchesSound, SpacesSound, NEW s \in Sessions, MakeClient(s) PROVE SpacesSound'
<1>1. /\ clients' = clients + 1 /\ UNCHANGED <<stable, bundle, cache, slot, fetches, crossed>>
      /\ Replacing
  BY DEF MakeClient, Replacing
<1>2. /\ clients \in Nat
      /\ \A r \in Sessions : stable[r].gen \in Nat /\ stable[r].gen <= clients
      /\ \A t \in Turns : fetches[t].gen \in Nat /\ fetches[t].gen <= clients
  BY FetchIs DEF TypeOK, SpacesSound
<1>3. /\ \A r \in Sessions : stable[r].gen <= clients' /\ stable[r].gen # clients'
      /\ \A t \in Turns : fetches[t].gen <= clients' /\ fetches[t].gen # clients'
  BY <1>1, <1>2
<1>4. ASSUME ~ crossed
      PROVE  /\ bundle = None
             /\ \A r \in Sessions :
                  /\ cache[r] = None
                  /\ (slot[r] # None /\ fetches[slot[r].key].phase = "ended") =>
                       fetches[slot[r].key].update = None
  BY <1>1, <1>4 DEF SpacesSound
<1>5. \A r \in Sessions : slot[r] # None => slot[r].key \in Turns
  BY TurnsTyped DEF FetchesSound, Asked
<1>6. \A c : Of(None, c)
  BY DEF Of
<1>7. \A t \in Turns : \A c : (fetches[t].phase = "ended" => fetches[t].update = None) => AnswerOf(fetches[t], c, clients')
  BY <1>3, <1>6 DEF AnswerOf
<1>8. \A r \in Sessions : (~ crossed /\ slot[r] # None) => AnswerOf(fetches[slot[r].key], client', clients')
  BY <1>4, <1>5, <1>7
<1>9. \A t \in Turns : fetches[t].phase \in {"sent", "served"} => AnswerOf(fetches[t], client', clients')
  BY <1>7
<1> QED BY <1>1, <1>3, <1>4, <1>6, <1>8, <1>9 DEF SpacesSound

\* The end of a prefetch thread leaves its context in one conversation's cache, or none.
LEMMA DeliverCache ==
    ASSUME TypeOK, NEW t, NEW b, Deliver(t, b), NEW s \in Sessions
    PROVE  cache'[s] \in {cache[s], None, b}
  BY DEF Deliver, TypeOK

\* The provider holds and accepts only what is of its client's space, unless an answer
\* crosses an initialisation.
LEMMA SpacesSoundKept ==
    ASSUME TypeOK, TypeOK', TurnsSound, FetchesSound, SpacesSound, [Next]_vars PROVE SpacesSound'
<1>0. /\ DOMAIN turns \subseteq Turns /\ clients \in Nat
      /\ \A s \in Sessions : InTurn(s) => TurnOf(s) \in DOMAIN turns
      /\ NoFetch.gen = 0
  <2>1. DOMAIN turns = 1..Len(turns) /\ Len(turns) \in Nat /\ DOMAIN turns \subseteq Turns
    BY TurnsTyped
  <2>2. \A s \in Sessions : InTurn(s) => TurnOf(s) \in DOMAIN turns
    BY <2>1 DEF TurnsSound
  <2> QED BY <2>1, <2>2 DEF TypeOK, NoFetch
<1>1. \A c : Of(None, c)
  BY DEF Of
<1>2. UNCHANGED making => (Replacing' <=> Replacing)
  BY DEF Replacing
<1>3. ASSUME NEW s \in Sessions, SessionStart(s) \/ EnsureInitialized(s) \/ MakeClient(s) PROVE SpacesSound'
  BY <1>3, SpacesCleared, SpacesReplaced DEF SessionStart, EnsureInitialized
<1>4. ASSUME NEW s \in Sessions, MakeQueue(s) PROVE SpacesSound'
  <2>1. Replacing' => Replacing
    BY <1>4 DEF MakeQueue, Replacing, TypeOK
  <2> QED BY <1>4, <2>1, SpacesStay DEF MakeQueue, clientVars
<1>5. ASSUME NEW s \in Sessions, FinalizeEnd(s) PROVE SpacesSound'
  <2>1. client' = None /\ UNCHANGED <<making, clients, stable, bundle, cache, slot, fetches, crossed>>
    BY <1>5 DEF FinalizeEnd
  <2> QED BY <1>2, <2>1 DEF SpacesSound
<1>6. ASSUME NEW s \in Sessions, PreCall(s) \/ PostCall(s) PROVE SpacesSound'
  <2>1. UNCHANGED <<making, client, clients, bundle, cache, fetches, crossed>>
    BY <1>6 DEF PreCall, PostCall, clientVars, histories
  <2>2. \A r \in Sessions : slot'[r] # None => slot'[r] = slot[r]
    BY <1>6 DEF PreCall, PostCall, TypeOK
  <2>3. ASSUME NEW r \in Sessions
        PROVE  stable'[r] = stable[r] \/ (stable'[r].gen = clients /\ Of(stable'[r].bundle, client))
    <3>1. PICK new : new = [bundle |-> Current(client), gen |-> clients]
      OBVIOUS
    <3>2. new.gen = clients /\ Of(new.bundle, client)
      BY <3>1 DEF Of, Current
    <3>3. stable' = stable \/ stable' = [stable EXCEPT ![s] = new]
      BY <1>6, <3>1 DEF PreCall, PostCall, StableFetch
    <3>4. DOMAIN stable = Sessions
      BY DEF TypeOK
    <3> QED BY <3>2, <3>3, <3>4
  <2> QED BY <1>0, <1>2, <2>1, <2>2, <2>3 DEF SpacesSound
<1>7. ASSUME NEW s \in Sessions, Prefetch(s) PROVE SpacesSound'
  <2> DEFINE t == TurnOf(s)
             late == stable[s].bundle # None /\ bundle = None
             wait == [NoFetch EXCEPT !.phase = "wait", !.on = slot[s].key, !.gen = clients]
             sent == [NoFetch EXCEPT !.phase = "sent", !.space = client, !.gen = clients, !.cached = bundle']
  <2>1. /\ stage[s] = "stable" /\ UNCHANGED <<turns, making, client, clients>>
        /\ bundle' = IF late THEN stable[s].bundle ELSE bundle
        /\ crossed' = (crossed \/ (late /\ (stable[s].gen # clients \/ Replacing)))
        /\ stable' = [stable EXCEPT ![s] = [bundle |-> None, gen |-> 0]]
    BY <1>7 DEF Prefetch, clientVars
  <2>2. t \in Turns /\ fetches[t].phase = "none" /\ ~ Asked(t)
    BY <1>0, <2>1 DEF FetchesSound, InTurn, Asked
  <2>3. \A r \in Sessions : /\ stable'[r].gen <= clients
                            /\ stable'[r] = stable[r] \/ stable'[r].bundle = None
    BY <1>0, <2>1 DEF SpacesSound, TypeOK
  <2>4. ASSUME ~ crossed', client # None
        PROVE  /\ ~ crossed /\ Of(bundle', client)
               /\ \A r \in Sessions : stable'[r].gen = clients => Of(stable'[r].bundle, client)
    <3>1. ~ crossed /\ (late => stable[s].gen = clients)
      BY <2>1, <2>4
    <3>2. Of(bundle, client) /\ \A r \in Sessions : stable[r].gen = clients => Of(stable[r].bundle, client)
      BY <2>4, <3>1 DEF SpacesSound
    <3> QED BY <1>1, <2>1, <2>3, <3>1, <3>2
  <2>5. ASSUME ~ crossed', client # None, cache' = cache \/ cache' = [cache EXCEPT ![s] = None]
        PROVE  \A r \in Sessions : Of(cache'[r], client)
    <3>1. \A r \in Sessions : Of(cache[r], client)
      BY <2>4, <2>5 DEF SpacesSound
    <3>2. \A r \in Sessions : cache'[r] \in {cache[r], None}
      BY <2>5 DEF TypeOK
    <3> QED BY <1>1, <3>1, <3>2
  <2>10. ASSUME ~ crossed', Replacing, cache' = cache \/ cache' = [cache EXCEPT ![s] = None]
         PROVE  ~ crossed /\ bundle' = None /\ \A r \in Sessions : cache'[r] = None
    <3>1. ~ crossed /\ ~ late
      BY <2>1, <2>10
    <3>2. bundle = None /\ \A r \in Sessions : cache[r] = None
      BY <2>10, <3>1 DEF SpacesSound
    <3>3. \A r \in Sessions : cache'[r] \in {cache[r], None}
      BY <2>10 DEF TypeOK
    <3> QED BY <2>1, <3>1, <3>2, <3>3
  <2>6. CASE cache' = [cache EXCEPT ![s] = None] /\ UNCHANGED <<slot, fetches>>
    <3>1. fetches' = [fetches EXCEPT ![t] = fetches[t]] /\ fetches[t].gen <= clients
      BY <2>2, <2>6 DEF TypeOK, SpacesSound
    <3> HIDE DEF t, late
    <3> QED BY <2>1, <2>2, <2>3, <2>4, <2>5, <2>6, <3>1, <2>10, SpacesStep
  <2>7. CASE cache' = cache /\ slot' = slot /\ Matches(slot[s], t) /\ fetches' = [fetches EXCEPT ![t] = wait]
    <3>1. wait.phase = "wait" /\ wait.gen = clients /\ wait.on = slot[s].key /\ clients <= clients
      BY <1>0 DEF NoFetch
    <3>2. slot[s] # None /\ Asked(slot[s].key)
      BY <2>7 DEF Matches, FetchesSound
    <3>3. slot[s].key \in Turns \ {t}
      BY <1>0, <2>2, <3>2 DEF Asked
    <3>4. (~ crossed' /\ client # None) => AnswerOf(fetches[slot[s].key], client, clients)
      BY <2>4, <3>2 DEF SpacesSound
    <3> HIDE DEF t, late, wait
    <3> QED BY <2>1, <2>2, <2>3, <2>4, <2>5, <2>7, <3>1, <3>3, <3>4, <2>10, SpacesStep
  <2>8. CASE cache' = cache /\ slot' = [slot EXCEPT ![s] = FreshSlot(t)] /\ fetches' = [fetches EXCEPT ![t] = sent]
    <3>1. /\ sent.phase = "sent" /\ sent.gen = clients /\ sent.space = client /\ sent.cached = bundle'
          /\ sent.update = None /\ clients <= clients
      BY <1>0 DEF NoFetch
    <3> HIDE DEF t, late, sent
    <3>2. (~ crossed' /\ client # None) => AnswerOf(sent, client, clients)
      BY <1>1, <2>4, <3>1 DEF AnswerOf, AnswerOf
    <3>3. \A r \in Sessions : slot'[r] # None => (slot[r] # None /\ slot'[r].key = slot[r].key) \/ slot'[r].key = t
      BY <2>8 DEF FreshSlot, TypeOK
    <3> QED BY <2>1, <2>2, <2>3, <2>4, <2>5, <2>8, <3>1, <3>2, <3>3, <2>10, SpacesStep
  <2> QED BY <1>7, <2>6, <2>7, <2>8 DEF Prefetch
<1>8. ASSUME NEW t \in DOMAIN turns, ServeFetch(t) PROVE SpacesSound'
  <2> DEFINE f == fetches[t]
             brought == [f EXCEPT !.phase = "served", !.now = Current(f.space), !.update = Update(f)]
             bare == [f EXCEPT !.phase = "served"]
  <2>1. f.phase = "sent" /\ UNCHANGED <<making, client, clients, stable, bundle, cache, slot, crossed>>
    BY <1>8 DEF ServeFetch, sessionVars, clientVars, histories
  <2>2. t \in Turns /\ f \in Fetches /\ f.update = None
    BY <1>0, <2>1, FetchIs DEF FetchesSound
  <2>3. fetches' = [fetches EXCEPT ![t] = brought] \/ fetches' = [fetches EXCEPT ![t] = bare]
    BY <1>8, <2>2 DEF ServeFetch, TypeOK
  <2>4. PICK g \in {brought, bare} : fetches' = [fetches EXCEPT ![t] = g]
    BY <2>3
  <2>5. /\ g.phase = "served" /\ g.gen = f.gen /\ g.space = f.space /\ g.cached = f.cached
        /\ g.update \in {None, Current(f.space)}
    BY <2>2 DEF Fetches, Update
  <2>6. f.gen <= clients /\ \A r \in Sessions : stable[r].gen <= clients
    BY <2>2 DEF SpacesSound
  <2>7. AnswerOf(f, client, clients) => AnswerOf(g, client, clients)
    BY <1>1, <2>1, <2>5 DEF AnswerOf, Of, Current
  <2>8. (~ crossed /\ Replacing) => bundle = None /\ \A r \in Sessions : cache[r] = None
    BY DEF SpacesSound
  <2>9. (~ crossed /\ client # None) =>
          /\ AnswerOf(f, client, clients) /\ Of(bundle, client)
          /\ \A r \in Sessions : Of(cache[r], client) /\ (stable[r].gen = clients => Of(stable[r].bundle, client))
    BY <2>1, <2>2 DEF SpacesSound
  <2> HIDE DEF brought, bare
  <2> QED BY <2>1, <2>2, <2>4, <2>5, <2>6, <2>7, <2>8, <2>9, SpacesStep
\* The end of a prefetch thread, with the context b.
<1>9. ASSUME NEW t \in DOMAIN turns, NEW b, NEW now,
             UNCHANGED <<making, client, clients, stable>>,
             fetches' = Ended(t, b, now), Deliver(t, b), fetches[t].phase # "none",
             \A s \in Sessions : slot'[s] # None => slot[s] # None /\ slot'[s].key = slot[s].key,
             (~ crossed' /\ client # None) =>
               /\ ~ crossed /\ Of(bundle', client)
               /\ Of(b, client),
             (~ crossed' /\ Replacing) => ~ crossed /\ bundle' = None /\ b = None
      PROVE  SpacesSound'
  <2> DEFINE g == [NoFetch EXCEPT !.phase = "ended", !.update = b, !.now = now]
  <2>1. g.phase = "ended" /\ g.gen = 0 /\ g.update = b
    BY DEF NoFetch
  <2>2. fetches' = [fetches EXCEPT ![t] = g] /\ t \in Turns
    BY <1>0, <1>9 DEF Ended
  <2> HIDE DEF g
  <2>3. (~ crossed' /\ client # None) => AnswerOf(g, client, clients)
    BY <1>9, <2>1 DEF AnswerOf, AnswerOf
  <2>4. (~ crossed' /\ client # None) =>
          \A s \in Sessions : Of(cache'[s], client) /\ (stable'[s].gen = clients => Of(stable'[s].bundle, client))
    BY <1>1, <1>9, DeliverCache DEF SpacesSound
  <2>5. g.gen <= clients /\ \A s \in Sessions : stable'[s].gen <= clients
    BY <1>0, <1>9, <2>1 DEF SpacesSound
  <2>6. (~ crossed' /\ Replacing) => \A s \in Sessions : cache'[s] = None
    BY <1>9, DeliverCache DEF SpacesSound
  <2> QED BY <1>9, <2>1, <2>2, <2>3, <2>4, <2>5, <2>6, SpacesStep
<1>10. ASSUME NEW t \in DOMAIN turns, FetchEnd(t) PROVE SpacesSound'
  <2> DEFINE f == fetches[t]
  <2>1. /\ f.phase = "served" /\ fetches' = Ended(t, Shown(f), f.now) /\ Deliver(t, Shown(f))
        /\ bundle' = IF f.update # None THEN f.update ELSE bundle
        /\ crossed' = (crossed \/ f.gen # clients \/ Replacing) /\ slot' = Settled(t)
        /\ UNCHANGED <<making, client, clients, stable>>
    BY <1>10 DEF FetchEnd, clientVars
  <2>2. \A s \in Sessions : slot'[s] # None => slot[s] # None /\ slot'[s].key = slot[s].key
    <3>1. \A s \in Sessions : slot[s] # None => [slot[s] EXCEPT !.persisted = TRUE].key = slot[s].key
      BY DEF TypeOK, Slots
    <3> QED BY <2>1, <3>1 DEF Settled
  <2>3. (~ crossed' /\ client # None) =>
          ~ crossed /\ f.gen = clients /\ Of(bundle', client) /\ Of(Shown(f), client)
    <3>1. (~ crossed /\ client # None) => AnswerOf(f, client, clients) /\ Of(bundle, client)
      BY <1>0, <2>1 DEF SpacesSound
    <3> QED BY <2>1, <3>1 DEF AnswerOf, Shown
  <2> HIDE DEF f
  <2>4. fetches[t].phase # "none" /\ f = fetches[t]
    BY <2>1 DEF f
  <2> QED BY <1>9, <2>1, <2>2, <2>3, <2>4
<1>11. ASSUME NEW t \in DOMAIN turns, FetchFails(t) PROVE SpacesSound'
  <2>1. /\ fetches[t].phase \in {"sent", "served"} /\ fetches' = Ended(t, None, None) /\ Deliver(t, None)
        /\ UNCHANGED <<making, client, clients, stable, bundle, slot, crossed>>
    BY <1>11 DEF FetchFails, clientVars, histories
  <2>2. /\ (~ crossed /\ client # None) => Of(bundle, client)
        /\ (~ crossed /\ Replacing) => bundle = None
    BY DEF SpacesSound
  <2> QED BY <1>1, <1>9, <2>1, <2>2
<1>12. ASSUME NEW t \in DOMAIN turns, WaitEnd(t) PROVE SpacesSound'
  <2> DEFINE on == fetches[fetches[t].on]
             b == IF on.phase = "ended" THEN on.update ELSE None
             now == IF on.phase = "ended" THEN on.now ELSE None
  <2>1. /\ fetches[t].phase = "wait" /\ fetches' = Ended(t, b, now) /\ Deliver(t, b)
        /\ crossed' = (crossed \/ fetches[t].gen # clients \/ Replacing)
        /\ UNCHANGED <<making, client, clients, stable, bundle, slot>>
    BY <1>12 DEF WaitEnd, clientVars
  <2>2. (~ crossed' /\ client # None) => ~ crossed /\ Of(bundle', client) /\ Of(b, client)
    <3>1. (~ crossed /\ fetches[t].gen = clients /\ client # None) =>
            AnswerOf(on, client, clients) /\ Of(bundle, client)
      BY <1>0, <2>1 DEF SpacesSound
    <3> QED BY <1>1, <2>1, <3>1 DEF AnswerOf, AnswerOf
  <2> HIDE DEF on, b, now
  <2> QED BY <1>9, <2>1, <2>2
<1>13. ASSUME NEW s \in Sessions, SessionStarted(s) \/ FinalizeBegin(s) \/ JoinTimeout(s) \/ Abort(s)
       PROVE  SpacesSound'
  BY <1>2, <1>13, SpacesStay DEF SessionStarted, FinalizeBegin, JoinTimeout, Abort, clientVars,
                                 histories
<1>14. ASSUME \/ ServeLate \/ \E sp \in Spaces : Change(sp)
              \/ \E w \in Writers : WriterTake(w) \/ WriterWrites(w) \/ WriterFails(w)
       PROVE  SpacesSound'
  BY <1>2, <1>14, SpacesStay
     DEF ServeLate, WriterTake, WriterWrites, WriterFails, Change, sessionVars, clientVars, histories
<1>15. CASE UNCHANGED vars
  BY <1>2, <1>15, SpacesStay DEF vars, sessionVars, clientVars, histories
<1> QED BY <1>3, <1>4, <1>5, <1>6, <1>7, <1>8, <1>10, <1>11, <1>12, <1>13, <1>14, <1>15 DEF Next

-----------------------------------------------------------------------------
(* The order of the answers. *)

\* A queue changes by its head, a close or the batch of a turn that ends.
LEMMA QueueStep ==
    ASSUME TypeOK, Budget, [Next]_vars, NEW g \in Writers
    PROVE  \/ queues'[g] = queues[g]
           \/ queues[g] # <<>> /\ queues'[g] = Tail(queues[g])
           \/ queues'[g] = Append(queues[g], Stop)
           \/ \E s \in Sessions : PostCall(s) /\ InTurn(s) /\ queues'[g] = Append(queues[g], Written(s))
<1>1. \A q \in Writers : \A new : queues' = [queues EXCEPT ![q] = new] =>
         (q = g => queues'[g] = new) /\ (q # g => queues'[g] = queues[g])
  BY DEF TypeOK
<1>2. ASSUME NEW w \in Writers, writers[w].queue \in Writers, queues[writers[w].queue] # <<>>,
             queues' = [queues EXCEPT ![writers[w].queue] = Tail(queues[writers[w].queue])]
      PROVE  queues'[g] = queues[g] \/ (queues[g] # <<>> /\ queues'[g] = Tail(queues[g]))
  <2>1. PICK q \in Writers : q = writers[w].queue
    BY <1>2
  <2>2. PICK new : new = Tail(queues[q])
    OBVIOUS
  <2>3. queues[q] # <<>> /\ queues' = [queues EXCEPT ![q] = new]
    BY <1>2, <2>1, <2>2
  <2> QED BY <1>1, <2>2, <2>3
<1>3. ASSUME NEW q \in Writers, NEW c, queues' = [queues EXCEPT ![q] = Append(queues[q], c)]
      PROVE  queues'[g] = queues[g] \/ queues'[g] = Append(queues[g], c)
  <2>1. PICK new : new = Append(queues[q], c)
    OBVIOUS
  <2>2. queues' = [queues EXCEPT ![q] = new]
    BY <1>3, <2>1
  <2> QED BY <1>1, <2>1, <2>2
<1> QED BY <1>2, <1>3, QueuesStep

\* A turn in a queue, or written, has its answer there.
LEMMA WaitsQueued ==
    ASSUME TypeOK, NEW g \in Writers, NEW t \in Turns, WaitsIn(g, t)
    PROVE  Queued(g, AnswerKey(t))
<1>1. PICK i \in DOMAIN queues[g] : queues[g][i].turn = t
  BY DEF WaitsIn
<1>2. queues[g][i] \in TurnBatches \cup {Stop}
  <2>1. queues[g] \in Seq(TurnBatches \cup {Stop})
    BY DEF TypeOK
  <2> QED BY <2>1
<1>3. queues[g][i].items \in Answers(t)
  BY <1>1, <1>2, BatchesAre, Kinds
<1>4. PICK items \in Answers(t) : items = queues[g][i].items
  BY <1>3
<1>5. Len(items) \in {1, 2} /\ DOMAIN items = 1..Len(items) /\ items[Len(items)] = AnswerKey(t)
  BY AnswersAre
<1>6. \A n \in {1, 2} : n \in 1..n
  OBVIOUS
<1>7. \E j \in DOMAIN items : items[j] = AnswerKey(t)
  BY <1>5, <1>6
<1> QED BY <1>4, <1>7 DEF Queued

\* The same of a batch that is written.
LEMMA WrittenWriting ==
    ASSUME TypeOK, NEW w \in Writers, NEW t \in Turns, WrittenBy(w, t)
    PROVE  Writing(w, AnswerKey(t))
<1>1. PICK items \in Answers(t) : items = writers[w].batch.items
  BY WritingIs DEF WrittenBy
<1>2. Len(items) \in {1, 2} /\ DOMAIN items = 1..Len(items) /\ items[Len(items)] = AnswerKey(t)
  BY AnswersAre
<1>3. \A n \in {1, 2} : n \in 1..n
  OBVIOUS
<1>4. \E j \in DOMAIN items : items[j] = AnswerKey(t)
  BY <1>2, <1>3
<1> QED BY <1>1, <1>4 DEF Writing, WrittenBy

\* A turn that waits, is written or answered has begun, and its answer is issued.
LEMMA PlacedIssued ==
    ASSUME TypeOK, KeysBegun, NEW t \in Turns, Waits(t) \/ IsWritten(t) \/ Answered(t)
    PROVE  Issued(AnswerKey(t)) /\ t \in DOMAIN turns
<1>1. ASSUME Waits(t) PROVE Issued(AnswerKey(t))
  <2>1. PICK g \in Writers : WaitsIn(g, t)
    BY <1>1 DEF Waits
  <2>2. Queued(g, AnswerKey(t))
    BY <2>1, WaitsQueued
  <2> QED BY <2>2 DEF Issued
<1>2. ASSUME IsWritten(t) PROVE Issued(AnswerKey(t))
  <2>1. PICK w \in Writers : WrittenBy(w, t)
    BY <1>2 DEF IsWritten
  <2>2. writers[w].space \in Spaces
    BY <2>1, WritingIs DEF WrittenBy
  <2>3. Writing(w, AnswerKey(t))
    BY <2>1, WrittenWriting
  <2>4. Bound(writers[w].space, AnswerKey(t))
    BY <2>3 DEF Bound
  <2> QED BY <2>2, <2>4 DEF Issued
<1>3. ASSUME Answered(t) PROVE Issued(AnswerKey(t))
  <2>1. PICK sp \in Spaces : Logged(sp, AnswerKey(t))
    BY <1>3 DEF Answered, Logged
  <2>2. Bound(sp, AnswerKey(t))
    BY <2>1 DEF Bound
  <2> QED BY <2>2 DEF Issued
<1>4. Issued(AnswerKey(t))
  BY <1>1, <1>2, <1>3
<1>5. AnswerKey(t) \in Keys /\ AnswerKey(t)[2] = t
  BY KeysDistinct
<1> QED BY <1>4, <1>5 DEF KeysBegun

\* What comes after a turn still does.
LEMMA LaterKept ==
    ASSUME TypeOK, [Next]_vars, NEW t \in DOMAIN turns, NEW u, Later(t, u), DOMAIN turns' \subseteq Nat
    PROVE  Later(t, u)'
<1>1. /\ Len(turns) \in Nat /\ DOMAIN turns = 1..Len(turns)
      /\ \A v \in DOMAIN turns : v \in DOMAIN turns' /\ turns'[v] = turns[v]
  BY TurnsTyped, TurnsGrow
<1> SUFFICES ASSUME u \in DOMAIN turns', turns'[t].session = turns'[u].session, t > hurt', u > hurt' PROVE t < u
  BY DEF Later
<1>2. hurt' = hurt
  BY <1>1, HurtStep
<1>3. CASE u \in DOMAIN turns
  BY <1>1, <1>2, <1>3 DEF Later
<1>4. CASE u \notin DOMAIN turns
  <2>1. u \in Nat /\ t \in Nat /\ hurt \in Nat /\ u > hurt
    BY <1>1, <1>2, TurnsTyped DEF TypeOK
  <2> QED BY <1>1, <1>4, <2>1
<1> QED BY <1>3, <1>4

\* The turn a conversation is in comes after those that are issued.
LEMMA TurnLast ==
    ASSUME TypeOK, TurnsSound, KeysOnce, NEW s \in Sessions, InTurn(s), NEW t \in Turns, Issued(AnswerKey(t))
    PROVE  Later(t, TurnOf(s))
<1>1. PICK u \in Turns : u = TurnOf(s) /\ turns[u].session = s /\ u \in DOMAIN turns
  BY TurnIs
<1>2. ~ Issued(AnswerKey(u))
  BY <1>1 DEF KeysOnce
<1>3. \A v \in DOMAIN turns : turns[v].session = s => v \in 1..u
  BY <1>1, TurnIs
<1>4. u # t /\ u \in Nat /\ t \in Nat
  BY <1>2, Kinds DEF Turns
<1>5. Later(t, u)
  BY <1>1, <1>3, <1>4 DEF Later
<1> QED BY <1>1, <1>5

\* What waits after a step waited, or is a turn that ends.
LEMMA WaitsStep ==
    ASSUME TypeOK, Budget, [Next]_vars, NEW g \in Writers, NEW t \in Turns, WaitsIn(g, t)'
    PROVE  \/ WaitsIn(g, t)
           \/ \E s \in Sessions : PostCall(s) /\ InTurn(s) /\ t = TurnOf(s)
<1>1. PICK i \in DOMAIN queues'[g] : queues'[g][i].turn = t
  BY DEF WaitsIn
<1>2. queues[g] \in Seq(TurnBatches \cup {Stop}) /\ Len(queues[g]) \in Nat /\ DOMAIN queues[g] = 1..Len(queues[g])
  BY DEF TypeOK
<1>3. CASE queues'[g] = queues[g]
  BY <1>1, <1>3 DEF WaitsIn
<1>4. CASE queues[g] # <<>> /\ queues'[g] = Tail(queues[g])
  <2>1. i + 1 \in DOMAIN queues[g] /\ queues'[g][i] = queues[g][i + 1]
    BY <1>1, <1>2, <1>4
  <2> QED BY <1>1, <2>1 DEF WaitsIn
<1>5. ASSUME NEW c, queues'[g] = Append(queues[g], c) PROVE c.turn = t \/ WaitsIn(g, t)
  <2>1. DOMAIN queues'[g] = 1..(Len(queues[g]) + 1)
    BY <1>2, <1>5
  <2>2. CASE i = Len(queues[g]) + 1
    BY <1>1, <1>2, <1>5, <2>2
  <2>3. CASE i # Len(queues[g]) + 1
    <3>1. i \in DOMAIN queues[g] /\ queues'[g][i] = queues[g][i]
      BY <1>1, <1>2, <1>5, <2>1, <2>3
    <3> QED BY <1>1, <3>1 DEF WaitsIn
  <2> QED BY <2>2, <2>3
<1>6. Stop.turn # t /\ \A s : Written(s).turn = TurnOf(s)
  BY BatchesAre, Kinds DEF Written, Batch
<1> QED BY <1>3, <1>4, <1>5, <1>6, QueueStep

\* What is written after a step was, or is taken from the head of a queue.
LEMMA IsWrittenStep ==
    ASSUME TypeOK, Budget, [Next]_vars, NEW w \in Writers, NEW t \in Turns, WrittenBy(w, t)'
    PROVE  \/ WrittenBy(w, t) /\ writers'[w] = writers[w]
           \/ \E q \in Writers :
                /\ queues[q] # <<>> /\ Head(queues[q]).turn = t /\ WaitsIn(q, t)
                /\ queues' = [queues EXCEPT ![q] = Tail(queues[q])]
<1>1. CASE writers'[w] = writers[w]
  BY <1>1 DEF WrittenBy
<1>2. CASE writers'[w] # writers[w]
  <2> DEFINE q == writers[w].queue
  <2>1. /\ WriterTake(w) /\ q \in Writers /\ queues[q] # <<>>
        /\ writers'[w] = [phase |-> "sent", queue |-> q, space |-> client, batch |-> Head(queues[q])]
    BY <1>2, WritersStep DEF WrittenBy
  <2>2. queues' = [queues EXCEPT ![q] = Tail(queues[q])]
    BY <2>1 DEF WriterTake, Taken
  <2>3. queues[q] \in Seq(TurnBatches \cup {Stop})
    BY <2>1 DEF TypeOK
  <2> HIDE DEF q
  <2>4. Head(queues[q]).turn = t
    BY <2>1 DEF WrittenBy
  <2>5. 1 \in DOMAIN queues[q] /\ queues[q][1] = Head(queues[q])
    BY <2>1, <2>3
  <2>6. WaitsIn(q, t)
    BY <2>4, <2>5 DEF WaitsIn
  <2> QED BY <2>1, <2>2, <2>4, <2>6
<1> QED BY <1>1, <1>2

\* The queues stay in order.
LEMMA QueueOrderKept ==
    ASSUME TypeOK, Budget, TurnsSound, KeysOnce, OrderSound, DOMAIN turns' \subseteq Nat, [Next]_vars,
           NEW t \in Turns, NEW u \in Turns, WaitsBefore(t, u)'
    PROVE  Later(t, u)'
<1>0. KeysBegun
  BY DEF KeysOnce
<1>1. PICK g \in Writers : \E i, j \in DOMAIN queues'[g] : i < j /\ queues'[g][i].turn = t /\ queues'[g][j].turn = u
  BY DEF WaitsBefore
<1>2. PICK i \in DOMAIN queues'[g], j \in DOMAIN queues'[g] : i < j /\ queues'[g][i].turn = t /\ queues'[g][j].turn = u
  BY <1>1
<1>3. queues[g] \in Seq(TurnBatches \cup {Stop}) /\ Len(queues[g]) \in Nat /\ DOMAIN queues[g] = 1..Len(queues[g])
  BY DEF TypeOK
<1>4. ASSUME WaitsBefore(t, u) PROVE Later(t, u) /\ t \in DOMAIN turns
  <2>1. Waits(t)
    BY <1>4 DEF WaitsBefore, Waits, WaitsIn
  <2> QED BY <1>0, <1>4, <2>1, PlacedIssued DEF OrderSound
<1>5. CASE queues'[g] = queues[g]
  <2>1. WaitsBefore(t, u)
    BY <1>2, <1>5 DEF WaitsBefore
  <2> QED BY <1>4, <2>1, LaterKept
<1>6. CASE queues[g] # <<>> /\ queues'[g] = Tail(queues[g])
  <2>1. /\ i + 1 \in DOMAIN queues[g] /\ queues'[g][i] = queues[g][i + 1]
        /\ j + 1 \in DOMAIN queues[g] /\ queues'[g][j] = queues[g][j + 1] /\ i + 1 < j + 1
    BY <1>2, <1>3, <1>6
  <2>2. WaitsBefore(t, u)
    BY <1>2, <2>1 DEF WaitsBefore
  <2> QED BY <1>4, <2>2, LaterKept
<1>7. ASSUME NEW c, queues'[g] = Append(queues[g], c) PROVE WaitsBefore(t, u) \/ (c.turn = u /\ Waits(t))
  <2>1. DOMAIN queues'[g] = 1..(Len(queues[g]) + 1)
    BY <1>3, <1>7
  <2>2. i \in DOMAIN queues[g] /\ queues'[g][i] = queues[g][i]
    BY <1>2, <1>3, <1>7, <2>1
  <2>3. CASE j = Len(queues[g]) + 1
    <3>1. queues'[g][j] = c
      BY <1>3, <1>7, <2>3
    <3> QED BY <1>2, <2>2, <3>1 DEF Waits, WaitsIn
  <2>4. CASE j # Len(queues[g]) + 1
    <3>1. j \in DOMAIN queues[g] /\ queues'[g][j] = queues[g][j]
      BY <1>2, <1>3, <1>7, <2>1, <2>4
    <3> QED BY <1>2, <2>2, <3>1 DEF WaitsBefore
  <2> QED BY <2>3, <2>4
<1>8. ASSUME NEW s \in Sessions, InTurn(s), u = TurnOf(s), Waits(t) PROVE Later(t, u) /\ t \in DOMAIN turns
  <2>1. Issued(AnswerKey(t)) /\ t \in DOMAIN turns
    BY <1>0, <1>8, PlacedIssued
  <2>2. Later(t, TurnOf(s))
    BY <1>8, <2>1, TurnLast
  <2> QED BY <1>8, <2>1, <2>2
<1>9. Stop.turn # u /\ \A s : Written(s).turn = TurnOf(s)
  BY BatchesAre, Kinds DEF Written, Batch
<1>10. ASSUME queues'[g] = Append(queues[g], Stop) PROVE Later(t, u)'
  BY <1>4, <1>7, <1>9, <1>10, LaterKept
<1>11. ASSUME NEW s \in Sessions, InTurn(s), queues'[g] = Append(queues[g], Written(s)) PROVE Later(t, u)'
  BY <1>4, <1>7, <1>8, <1>9, <1>11, LaterKept
<1> QED BY <1>5, <1>6, <1>10, <1>11, QueueStep

\* What a step does to the writers and the queue they turn to.
LEMMA WritersMove ==
    ASSUME TypeOK, Budget, [Next]_vars
    PROVE  \/ writers' = writers /\ queue' \in {queue, 0} /\ inits' = inits
           \/ /\ inits' = inits + 1 /\ queue' = inits + 1
              /\ writers' = [writers EXCEPT ![inits + 1] = [NoWriter EXCEPT !.phase = "get", !.queue = inits + 1]]
           \/ \E w \in Writers :
                /\ UNCHANGED <<queue, inits>>
                /\ \/ writers' = [writers EXCEPT ![w] = NoWriter]
                   \/ /\ writers' = [writers EXCEPT ![w] = Loop(w)]
                      /\ crowded' = (crowded \/ Crowds(w))
                   \/ \E b : /\ writers[w].phase = "get"
                             /\ writers' = [writers EXCEPT ![w] = [phase |-> "sent", queue |-> writers[w].queue,
                                                                  space |-> client, batch |-> b]]
<1>1. ASSUME NEW w \in Writers, WriterTake(w) \/ WriterWrites(w) \/ WriterFails(w)
      PROVE  /\ UNCHANGED <<queue, inits>>
             /\ \/ writers' = [writers EXCEPT ![w] = NoWriter]
                \/ /\ writers' = [writers EXCEPT ![w] = Loop(w)]
                   /\ crowded' = (crowded \/ Crowds(w))
                \/ \E b : /\ writers[w].phase = "get"
                          /\ writers' = [writers EXCEPT ![w] = [phase |-> "sent", queue |-> writers[w].queue,
                                                               space |-> client, batch |-> b]]
  BY <1>1 DEF WriterTake, WriterWrites, WriterFails
<1>2. ASSUME NEW s \in Sessions, MakeQueue(s)
      PROVE  /\ inits' = inits + 1 /\ queue' = inits + 1
             /\ writers' = [writers EXCEPT ![inits + 1] = [NoWriter EXCEPT !.phase = "get", !.queue = inits + 1]]
  BY <1>2 DEF MakeQueue
<1>3. ASSUME NEW s \in Sessions, PreCall(s) \/ PostCall(s)
      PROVE  writers' = writers /\ queue' = queue /\ inits' = inits
  BY <1>3 DEF PreCall, PostCall, writerVars
<1>4. ASSUME NEW s \in Sessions, SessionStart(s) \/ EnsureInitialized(s) \/ MakeClient(s) \/ SessionStarted(s)
      PROVE  writers' = writers /\ queue' = queue /\ inits' = inits
  BY <1>4 DEF SessionStart, EnsureInitialized, Clear, MakeClient, SessionStarted, writerVars
<1>5. ASSUME ~ \E w \in Writers : WriterTake(w) \/ WriterWrites(w) \/ WriterFails(w),
             ~ \E s \in Sessions : \/ MakeQueue(s) \/ PreCall(s) \/ PostCall(s) \/ SessionStart(s)
                                   \/ EnsureInitialized(s) \/ MakeClient(s) \/ SessionStarted(s)
      PROVE  writers' = writers /\ queue' \in {queue, 0} /\ inits' = inits
  BY <1>5 DEF Next, vars, writerVars, FinalizeBegin, FinalizeEnd, Prefetch, JoinTimeout, Abort,
              ServeFetch,
              FetchEnd, FetchFails, WaitEnd, ServeLate, Change
<1> QED BY <1>1, <1>2, <1>3, <1>4, <1>5

\* The present queue keeps one writer, unless another comes upon it.
LEMMA OneWriterKept ==
    ASSUME TypeOK, Budget, OrderSound, [Next]_vars
    PROVE  /\ \A w \in Writers : writers'[w].queue <= inits'
           /\ (crowded => crowded') /\ (~ crowded' => OneWriter')
<1>0. /\ inits \in Nat /\ queue \in {0, inits} /\ \A w \in Writers : writers[w].queue \in Nat
      /\ \A w \in Writers : writers[w].queue <= inits
  <2>1. {0} \cup Writers \subseteq Nat
    BY Kinds DEF Writers
  <2>2. inits \in {0} \cup Writers /\ queue \in {0, inits}
    BY DEF TypeOK
  <2>3. ASSUME NEW w \in Writers PROVE writers[w].queue \in {0} \cup Writers
    <3>1. writers[w] \in WriterStates
      BY DEF TypeOK
    <3> QED BY <3>1 DEF WriterStates
  <2> QED BY <2>1, <2>2, <2>3 DEF OrderSound
<1>1. crowded => crowded'
  BY DEF Next, vars, histories, SessionStart, EnsureInitialized, Clear, MakeClient, MakeQueue,
         SessionStarted, FinalizeBegin, FinalizeEnd, PreCall, Prefetch, JoinTimeout,
         PostCall, Abort, ServeFetch, FetchEnd, FetchFails, WaitEnd, WriterTake, WriterWrites,
         WriterFails,
         ServeLate, Change
<1>2. ~ crowded => OneWriter
  BY DEF OrderSound
<1>3. CASE writers' = writers /\ queue' \in {queue, 0} /\ inits' = inits
  <2>1. OneWriter => OneWriter'
    BY <1>3 DEF OneWriter
  <2> QED BY <1>0, <1>1, <1>2, <1>3, <2>1
<1>4. CASE /\ inits' = inits + 1 /\ queue' = inits + 1
           /\ writers' = [writers EXCEPT ![inits + 1] = [NoWriter EXCEPT !.phase = "get", !.queue = inits + 1]]
  <2>1. \A w \in Writers : \/ w = inits + 1 /\ writers'[w].queue = inits + 1
                           \/ w # inits + 1 /\ writers'[w].queue <= inits
    <3>1. [NoWriter EXCEPT !.phase = "get", !.queue = inits + 1].queue = inits + 1
      BY DEF NoWriter
    <3> QED BY <1>0, <1>4, <3>1 DEF TypeOK
  <2>2. ASSUME NEW w \in Writers PROVE writers'[w].queue <= inits'
    BY <1>0, <1>4, <2>1
  <2>3. ASSUME NEW v \in Writers, NEW w \in Writers, writers'[v].queue = queue', writers'[w].queue = queue'
        PROVE  v = w
    <3>1. ~ (queue' <= inits)
      BY <1>0, <1>4
    <3> QED BY <2>1, <2>3, <3>1
  <2>4. OneWriter'
    BY <2>3 DEF OneWriter
  <2> QED BY <1>1, <2>2, <2>4
<1>5. ASSUME NEW x \in Writers, NEW new, writers' = [writers EXCEPT ![x] = new], UNCHANGED <<queue,
                                                                                             inits>>,
             new.queue <= inits,
             (~ crowded' /\ new.phase # "gone" /\ new.queue = queue /\ queue # 0) =>
               \A v \in Writers \ {x} : ~ (writers[v].phase # "gone" /\ writers[v].queue = queue)
      PROVE  /\ \A w \in Writers : writers'[w].queue <= inits'
             /\ ~ crowded' => OneWriter'
  <2>1. writers'[x] = new /\ \A w \in Writers \ {x} : writers'[w] = writers[w]
    BY <1>5 DEF TypeOK
  <2>2. \A w \in Writers : writers'[w].queue <= inits'
    BY <1>0, <1>5, <2>1
  <2>3. ASSUME ~ crowded' PROVE OneWriter'
    BY <1>1, <1>2, <1>5, <2>1, <2>3 DEF OneWriter
  <2> QED BY <2>2, <2>3
<1>6. ASSUME NEW w \in Writers, UNCHANGED <<queue, inits>>, writers' = [writers EXCEPT ![w] = NoWriter]
      PROVE  /\ \A v \in Writers : writers'[v].queue <= inits'
             /\ ~ crowded' => OneWriter'
  <2>1. NoWriter.queue <= inits /\ NoWriter.phase = "gone"
    BY <1>0 DEF NoWriter
  <2> QED BY <1>5, <1>6, <2>1
<1>7. ASSUME NEW w \in Writers, UNCHANGED <<queue, inits>>, writers' = [writers EXCEPT ![w] = Loop(w)],
             crowded' = (crowded \/ Crowds(w))
      PROVE  /\ \A v \in Writers : writers'[v].queue <= inits'
             /\ ~ crowded' => OneWriter'
  <2>1. Loop(w).queue <= inits
    BY <1>0 DEF Loop, NoWriter
  <2>2. (~ crowded' /\ queue # 0) =>
          \A v \in Writers \ {w} : ~ (writers[v].phase # "gone" /\ writers[v].queue = queue)
    BY <1>7 DEF Crowds
  <2> QED BY <1>5, <1>7, <2>1, <2>2
<1>8. ASSUME NEW w \in Writers, UNCHANGED <<queue, inits>>, NEW b, writers[w].phase = "get",
             writers' = [writers EXCEPT ![w] = [phase |-> "sent", queue |-> writers[w].queue,
                                               space |-> client, batch |-> b]]
      PROVE  /\ \A v \in Writers : writers'[v].queue <= inits'
             /\ ~ crowded' => OneWriter'
  <2>1. (~ crowded' /\ writers[w].queue = queue /\ queue # 0) =>
          \A v \in Writers \ {w} : ~ (writers[v].phase # "gone" /\ writers[v].queue = queue)
    BY <1>1, <1>2, <1>8 DEF OneWriter
  <2>2. writers[w].queue <= inits
    BY <1>0
  <2> DEFINE new == [phase |-> "sent", queue |-> writers[w].queue, space |-> client, batch |-> b]
  <2>3. new.queue = writers[w].queue /\ writers' = [writers EXCEPT ![w] = new]
    BY <1>8
  <2> HIDE DEF new
  <2> QED BY <1>5, <1>8, <2>1, <2>2, <2>3
<1> QED BY <1>1, <1>3, <1>4, <1>6, <1>7, <1>8, WritersMove

\* A write that raised is not forgotten.
LEMMA FailedGrow ==
    ASSUME [Next]_vars PROVE failed \subseteq failed'
  BY DEF Next, vars, histories, SessionStart, EnsureInitialized, Clear, MakeClient, MakeQueue,
         SessionStarted, FinalizeBegin, FinalizeEnd, PreCall, Prefetch, JoinTimeout,
         PostCall, Abort, ServeFetch, FetchEnd, FetchFails, WaitEnd, WriterTake, WriterWrites,
         WriterFails,
         ServeLate, Change

\* A request given up that holds an answer was a write that raised.
LEMMA WireFailed ==
    ASSUME TypeOK, OrderSound, [Next]_vars, NEW r \in wire', NEW t \in Turns, r.items \in Answers(t)
    PROVE  t \in failed'
<1>1. PICK items \in Answers(t) : items = r.items
  OBVIOUS
<1>2. Len(items) \in {1, 2} /\ items[Len(items)] = AnswerKey(t)
  BY AnswersAre
<1>3. CASE r \in wire
  BY <1>3, FailedGrow DEF OrderSound
<1>4. ASSUME NEW u \in Turns, items = <<PrefetchKey(u)>> PROVE FALSE
  <2>1. PrefetchKey(u) = AnswerKey(t)
    BY <1>2, <1>4
  <2> QED BY <2>1, KeysDistinct
<1>5. ASSUME NEW w \in Writers, writers[w].phase = "sent", items = writers[w].batch.items,
             failed' = failed \cup {writers[w].batch.turn}
      PROVE  t \in failed'
  <2>1. PICK u \in Turns : u = writers[w].batch.turn /\ items \in Answers(u)
    BY <1>5, WritingIs
  <2>2. items[Len(items)] = AnswerKey(u)
    BY <2>1, AnswersAre
  <2>3. AnswerKey(u) = AnswerKey(t)
    BY <1>2, <2>2
  <2>4. u = t
    BY <2>3, KeysDistinct
  <2> QED BY <1>5, <2>1, <2>4
<1> QED BY <1>1, <1>3, <1>4, <1>5, WireStep

\* An answer that is recorded by a step is written by it, or its write has raised.
LEMMA AnswerStep ==
    ASSUME TypeOK, FetchesSound, OrderSound, [Next]_vars, NEW sp \in Spaces, NEW i \in DOMAIN log'[sp],
           i \notin DOMAIN log[sp], NEW t \in Turns \ failed', log'[sp][i] = AnswerKey(t)
    PROVE  \E w \in Writers : WriterWrites(w) /\ WrittenBy(w, t)
<1> DEFINE Source(q, u, items) ==
              /\ log' = [log EXCEPT ![q] = Recorded(@, items)]
              /\ \/ items = <<PrefetchKey(u)>>
                 \/ \E r \in wire : r.items = items
                 \/ \E w \in Writers : /\ writers[w].phase = "sent" /\ writers[w].batch.turn = u
                                       /\ writers[w].batch.items = items
                                       /\ WriterWrites(w) \/ WriterFails(w)
<1>1. PICK q \in Spaces, u \in Turns : \E items \in {<<PrefetchKey(u)>>} \cup Answers(u) : Source(q, u, items)
  <2>1. log' # log
    OBVIOUS
  <2> QED BY <2>1, LogStep
<1>2. PICK items \in {<<PrefetchKey(u)>>} \cup Answers(u) : Source(q, u, items)
  BY <1>1
<1>3. IsRecorded(log[q], items, log'[q]) /\ \A p \in Spaces \ {q} : log'[p] = log[p]
  BY <1>2, LogTyped
<1>4. q = sp
  BY <1>3
<1> DEFINE new == log'[sp]
<1>5. i \in (Len(log[sp]) + 1)..Len(new)
  BY LogGrows
<1>6. \E j \in 1..Len(items) : new[i] = items[j]
  <2>1. IsRecorded(log[sp], items, new)
    BY <1>3, <1>4
  <2> QED BY <1>5, <2>1 DEF IsRecorded
<1>7. items # <<PrefetchKey(u)>>
  <2>1. ASSUME items = <<PrefetchKey(u)>> PROVE FALSE
    <3>1. AnswerKey(t) = PrefetchKey(u)
      BY <1>6, <2>1
    <3> QED BY <3>1, KeysDistinct
  <2> QED BY <2>1
<1>8. items \in Answers(u)
  BY <1>7
<1>9. Len(items) \in {1, 2} /\ items[Len(items)] = AnswerKey(u) /\ (Len(items) = 2 => items[1] \in UserKeys)
  BY <1>8, AnswersAre
<1>10. u = t
  <2>1. AnswerKey(t) = AnswerKey(u) \/ AnswerKey(t) \in UserKeys
    BY <1>6, <1>9
  <2> QED BY <2>1, KeysDistinct
<1>11. ~ \E r \in wire : r.items = items
  BY <1>8, <1>10, FailedGrow DEF OrderSound
<1>12. \A w \in Writers : WriterFails(w) => writers[w].batch.turn \in failed'
  BY DEF WriterFails
<1> QED BY <1>2, <1>7, <1>10, <1>11, <1>12 DEF WrittenBy

\* A write that is under way comes before what waits.
LEMMA WriteOrderKept ==
    ASSUME TypeOK, Budget, TurnsSound, KeysOnce, KeysLocated, OrderSound, DOMAIN turns' \subseteq Nat, [Next]_vars,
           ~ crowded, NEW t \in Turns, NEW u \in Turns, IsWritten(t)', Waits(u)'
    PROVE  Later(t, u)'
<1>0. KeysBegun
  BY DEF KeysOnce
<1>1. PICK w \in Writers : WrittenBy(w, t)'
  BY DEF IsWritten
<1>2. PICK h \in Writers : WaitsIn(h, u)'
  BY DEF Waits
<1>3. IsWritten(t) \/ Waits(t)
  BY <1>1, IsWrittenStep DEF IsWritten, Waits
<1>4. Issued(AnswerKey(t)) /\ t \in DOMAIN turns
  BY <1>0, <1>3, PlacedIssued
<1>5. ASSUME NEW s \in Sessions, InTurn(s), u = TurnOf(s) PROVE Later(t, u)
  <2>1. Later(t, TurnOf(s))
    BY <1>4, <1>5, TurnLast
  <2> QED BY <1>5, <2>1
<1>6. ASSUME WaitsIn(h, u), IsWritten(t) PROVE Later(t, u)
  BY <1>6 DEF OrderSound, Waits
\* The batch is taken from the head of q.
<1>7. ASSUME WaitsIn(h, u), NEW q \in Writers, queues[q] # <<>>, Head(queues[q]).turn = t, WaitsIn(q, t),
             queues' = [queues EXCEPT ![q] = Tail(queues[q])]
      PROVE  Later(t, u)
  <2>1. CASE h = q
    <3>1. queues'[q] = Tail(queues[q])
      BY <1>7 DEF TypeOK
    <3>2. PICK i \in DOMAIN queues'[q] : queues'[q][i].turn = u
      BY <1>2, <2>1 DEF WaitsIn
    <3>3. queues[q] \in Seq(TurnBatches \cup {Stop}) /\ Len(queues[q]) \in Nat /\ DOMAIN queues[q] = 1..Len(queues[q])
      BY DEF TypeOK
    <3>4. /\ 1 \in DOMAIN queues[q] /\ queues[q][1].turn = t
          /\ i + 1 \in DOMAIN queues[q] /\ queues[q][i + 1].turn = u /\ 1 < i + 1
      <4>1. 1 \in DOMAIN queues[q] /\ queues[q][1] = Head(queues[q])
        BY <1>7, <3>3
      <4>2. queues[q] # <<>>
        BY <1>7
      <4>3. i + 1 \in DOMAIN queues[q] /\ queues'[q][i] = queues[q][i + 1]
        BY <3>1, <3>2, <3>3, <4>2
      <4>4. DOMAIN queues'[q] = 1..(Len(queues[q]) - 1)
        BY <3>1, <3>3, <4>2
      <4>5. 1 < i + 1
        BY <3>3, <4>4
      <4> QED BY <1>7, <3>2, <4>1, <4>3, <4>5
    <3>5. WaitsBefore(t, u)
      BY <3>4 DEF WaitsBefore
    <3> QED BY <3>5 DEF OrderSound
  <2>2. CASE h # q
    <3>1. Queued(q, AnswerKey(t)) /\ Queued(h, AnswerKey(u))
      BY <1>7, WaitsQueued
    <3>2. {AnswerKey(t), AnswerKey(u)} \subseteq Keys /\ AnswerKey(t)[2] = t /\ AnswerKey(u)[2] = u
      BY KeysDistinct
    <3>3. ~ (t > hurt /\ u > hurt)
      BY <2>2, <3>1, <3>2 DEF KeysLocated
    <3> QED BY <3>3 DEF Later
  <2> QED BY <2>1, <2>2
<1>8. Later(t, u)
  <2>1. WaitsIn(h, u) \/ \E s \in Sessions : InTurn(s) /\ u = TurnOf(s)
    BY <1>2, WaitsStep
  <2>2. IsWritten(t) \/ \E q \in Writers :
          /\ queues[q] # <<>> /\ Head(queues[q]).turn = t /\ WaitsIn(q, t)
          /\ queues' = [queues EXCEPT ![q] = Tail(queues[q])]
    BY <1>1, IsWrittenStep DEF IsWritten
  <2> QED BY <1>5, <1>6, <1>7, <2>1, <2>2
<1> QED BY <1>4, <1>8, LaterKept

\* What is recorded comes before what is written or waits.
LEMMA AnswerOrderKept ==
    ASSUME TypeOK, Budget, TurnsSound, FetchesSound, KeysOnce, KeysLocated, OrderSound, DOMAIN turns' \subseteq Nat,
           [Next]_vars, ~ crowded, NEW t \in Turns \ failed', NEW u \in Turns,
           Answered(t)', Waits(u)' \/ IsWritten(u)'
    PROVE  Later(t, u)'
<1>0. KeysBegun
  BY DEF KeysOnce
<1>1. Answered(t) \/ \E w \in Writers : WriterWrites(w) /\ WrittenBy(w, t)
  <2>1. PICK sp \in Spaces : \E i \in DOMAIN log'[sp] : log'[sp][i] = AnswerKey(t)
    BY DEF Answered
  <2>2. PICK i \in DOMAIN log'[sp] : log'[sp][i] = AnswerKey(t)
    BY <2>1
  <2>3. CASE i \in DOMAIN log[sp]
    <3>1. log[sp][i] = AnswerKey(t)
      BY <2>2, <2>3, LogGrows
    <3> QED BY <2>3, <3>1 DEF Answered
  <2> QED BY <2>2, <2>3, AnswerStep
<1>2. Issued(AnswerKey(t)) /\ t \in DOMAIN turns
  BY <1>0, <1>1, PlacedIssued DEF IsWritten
<1>3. Waits(u) \/ IsWritten(u) \/ \E s \in Sessions : InTurn(s) /\ u = TurnOf(s)
  <2>1. CASE Waits(u)'
    <3>1. PICK h \in Writers : WaitsIn(h, u)'
      BY <2>1 DEF Waits
    <3> QED BY <3>1, WaitsStep DEF Waits
  <2>2. CASE IsWritten(u)'
    <3>1. PICK w \in Writers : WrittenBy(w, u)'
      BY <2>2 DEF IsWritten
    <3> QED BY <3>1, IsWrittenStep DEF IsWritten, Waits
  <2> QED BY <2>1, <2>2
<1>4. ASSUME NEW s \in Sessions, InTurn(s), u = TurnOf(s) PROVE Later(t, u)
  <2>1. Later(t, TurnOf(s))
    BY <1>2, <1>4, TurnLast
  <2> QED BY <1>4, <2>1
<1>5. ASSUME Answered(t), Waits(u) \/ IsWritten(u) PROVE Later(t, u)
  BY <1>5, FailedGrow DEF OrderSound
<1>6. ASSUME NEW w \in Writers, WriterWrites(w), WrittenBy(w, t), Waits(u) PROVE Later(t, u)
  BY <1>6 DEF OrderSound, IsWritten
\* No other writer of the present queue is at work.
<1>7. ASSUME NEW w \in Writers, WriterWrites(w), WrittenBy(w, t), ~ Waits(u), IsWritten(u)' PROVE Later(t, u)
  <2>1. PICK v \in Writers : WrittenBy(v, u)'
    BY <1>7 DEF IsWritten
  <2>2. writers' = [writers EXCEPT ![w] = Loop(w)]
    BY <1>7 DEF WriterWrites
  <2>3. v # w
    <3>1. Loop(w).phase # "sent"
      BY DEF Loop, NoWriter
    <3>2. writers'[w] = Loop(w)
      BY <2>2 DEF TypeOK
    <3> QED BY <2>1, <3>1, <3>2 DEF WrittenBy
  <2>4. WrittenBy(v, u)
    <3>1. writers'[v] = writers[v]
      BY <2>2, <2>3 DEF TypeOK
    <3> QED BY <2>1, <3>1 DEF WrittenBy
  <2>5. Writing(w, AnswerKey(t)) /\ Writing(v, AnswerKey(u))
    BY <1>7, <2>4, WrittenWriting
  <2>6. {AnswerKey(t), AnswerKey(u)} \subseteq Keys /\ AnswerKey(t)[2] = t /\ AnswerKey(u)[2] = u
    BY KeysDistinct
  <2>7. ASSUME t > hurt, u > hurt PROVE FALSE
    <3>1. writers[w].queue = queue /\ writers[v].queue = queue
      BY <2>5, <2>6, <2>7 DEF KeysLocated
    <3>2. writers[w].phase # "gone" /\ writers[v].phase # "gone"
      BY <1>7, <2>4 DEF WrittenBy
    <3>3. writers[w].queue # 0
      BY <1>7, WritingIs, Kinds DEF WrittenBy
    <3> QED BY <2>3, <3>1, <3>2, <3>3 DEF OrderSound, OneWriter
  <2> QED BY <2>7 DEF Later
<1>8. ASSUME NEW w \in Writers, WriterWrites(w), ~ IsWritten(u)', Waits(u)' PROVE Waits(u)
  BY <1>8 DEF WriterWrites, Waits, WaitsIn
<1>9. Later(t, u)
  BY <1>1, <1>3, <1>4, <1>5, <1>6, <1>7, <1>8
<1> QED BY <1>2, <1>9, LaterKept

\* The log stays in order.
LEMMA LogOrderKept ==
    ASSUME TypeOK, Budget, TurnsSound, FetchesSound, KeysOnce, LogOnce', OrderSound, DOMAIN turns' \subseteq Turns,
           [Next]_vars, crowded => crowded'
    PROVE  InOrderUnlessDisturbed'
<1>0. KeysBegun /\ Turns \subseteq Nat
  BY DEF KeysOnce, Turns
<1> SUFFICES ASSUME ~ crowded', NEW sp \in Spaces, NEW i \in DOMAIN log'[sp], NEW j \in DOMAIN log'[sp],
                    NEW t \in DOMAIN turns' \ failed', NEW u \in DOMAIN turns' \ failed',
                    log'[sp][i] = AnswerKey(t), log'[sp][j] = AnswerKey(u),
                    turns'[t].session = turns'[u].session, t > hurt', u > hurt', i < j
             PROVE  t < u
  BY DEF InOrderUnlessDisturbed
<1>1. ~ crowded /\ t \in Turns \ failed' /\ u \in Turns \ failed'
  OBVIOUS
<1>2. /\ i \in Nat /\ j \in Nat /\ Len(log[sp]) \in Nat /\ DOMAIN log[sp] = 1..Len(log[sp])
      /\ DOMAIN log'[sp] = 1..Len(log'[sp])
      /\ \A k \in DOMAIN log[sp] : log'[sp][k] = log[sp][k]
  BY LogGrows
<1>3. ASSUME t \in DOMAIN turns, Later(t, u) PROVE t < u
  <2>1. Later(t, u)'
    BY <1>0, <1>3, LaterKept
  <2> QED BY <2>1 DEF Later
<1>4. ASSUME i \in DOMAIN log[sp] PROVE Answered(t) /\ t \in DOMAIN turns
  <2>1. Answered(t)
    BY <1>2, <1>4 DEF Answered
  <2> QED BY <1>0, <1>1, <2>1, PlacedIssued
<1>5. CASE j \in DOMAIN log[sp]
  <2>1. i \in DOMAIN log[sp]
    BY <1>2, <1>5
  <2>2. t \in DOMAIN turns /\ t \notin failed
    BY <1>4, <2>1, FailedGrow
  <2>3. u \notin failed /\ log[sp][i] = AnswerKey(t) /\ log[sp][j] = AnswerKey(u)
    BY <1>2, <1>5, <2>1, FailedGrow
  <2>4. Later(t, u)
    BY <1>1, <1>5, <2>1, <2>2, <2>3 DEF OrderSound, InOrderUnlessDisturbed, Later
  <2> QED BY <1>3, <2>2, <2>4
<1>6. CASE j \notin DOMAIN log[sp]
  <2>1. PICK w \in Writers : WriterWrites(w) /\ WrittenBy(w, u)
    BY <1>1, <1>6, AnswerStep
  <2>2. CASE i \in DOMAIN log[sp]
    <3>1. Later(t, u)
      BY <1>1, <1>4, <2>1, <2>2, FailedGrow DEF OrderSound, IsWritten
    <3> QED BY <1>3, <1>4, <2>2, <3>1
  <2>3. CASE i \notin DOMAIN log[sp]
    <3>1. PICK v \in Writers : WriterWrites(v) /\ WrittenBy(v, t)
      BY <1>1, <2>3, AnswerStep
    <3>2. v = w
      <4>1. ASSUME v # w PROVE FALSE
        <5>1. writers'[v] = Loop(v) /\ writers'[v] = writers[v]
          BY <2>1, <3>1, <4>1 DEF WriterWrites, TypeOK
        <5>2. Loop(v).phase # "sent"
          BY DEF Loop, NoWriter
        <5> QED BY <3>1, <5>1, <5>2 DEF WrittenBy
      <4> QED BY <4>1
    <3>3. log'[sp][i] = log'[sp][j]
      BY <2>1, <3>1, <3>2 DEF WrittenBy
    <3>4. i = j
      BY <3>3 DEF LogOnce
    <3> QED BY <1>2, <3>4
  <2> QED BY <2>2, <2>3
<1> QED BY <1>5, <1>6

\* The turns stay in order from the queue to the log.
LEMMA OrderSoundKept ==
    ASSUME TypeOK, TypeOK', Budget, TurnsSound, FetchesSound, KeysOnce, KeysLocated, LogOnce', OrderSound, [Next]_vars
    PROVE  OrderSound'
<1>1. DOMAIN turns' \subseteq Turns /\ DOMAIN turns' \subseteq Nat
  <2>1. turns' \in Seq([session : Sessions, text : Turns]) /\ Len(turns') <= MaxTurns
    BY DEF TypeOK
  <2>2. Len(turns') \in Nat /\ DOMAIN turns' = 1..Len(turns')
    BY <2>1, LenProperties
  <2> QED BY <2>1, <2>2, Kinds DEF Turns
<1>2. /\ \A w \in Writers : writers'[w].queue <= inits'
      /\ (crowded => crowded') /\ (~ crowded' => OneWriter')
  BY OneWriterKept
<1>3. \A r \in wire' : \A t \in Turns : r.items \in Answers(t) => t \in failed'
  BY WireFailed
<1>4. ASSUME NEW t \in Turns, NEW u \in Turns, WaitsBefore(t, u)' PROVE Later(t, u)'
  BY <1>1, <1>4, QueueOrderKept
<1>5. ASSUME ~ crowded', NEW t \in Turns, NEW u \in Turns, IsWritten(t)', Waits(u)' PROVE Later(t, u)'
  BY <1>1, <1>2, <1>5, WriteOrderKept
<1>6. ASSUME ~ crowded', NEW t \in Turns \ failed', NEW u \in Turns, Answered(t)', Waits(u)' \/ IsWritten(u)'
      PROVE  Later(t, u)'
  BY <1>1, <1>2, <1>6, AnswerOrderKept
<1>7. InOrderUnlessDisturbed'
  BY <1>1, <1>2, LogOrderKept
<1> QED BY <1>2, <1>3, <1>4, <1>5, <1>6, <1>7 DEF OrderSound

-----------------------------------------------------------------------------
(* The invariant. *)

\* Before the first hook there is nothing to be in order.
LEMMA InitTyped ==
    ASSUME Init PROVE TypeOK /\ Budget /\ Versions
<1>1. turns = <<>> /\ Len(turns) = 0 /\ DOMAIN turns = {} /\ turns \in Seq([session : Sessions, text : Turns])
  BY DEF Init
<1>2. fetches \in [Turns -> Fetches]
  <2>1. NoFetch \in Fetches
    BY Kinds DEF NoFetch, Fetches
  <2> QED BY <2>1 DEF Init
<1>3. writers \in [Writers -> WriterStates]
  BY WriterStatesAre DEF Init
<1>4. queues \in [Writers -> Seq(TurnBatches \cup {Stop})] /\ log \in [Spaces -> Seq(Keys)]
  BY DEF Init
<1>5. version \in [Spaces -> 0..MaxEvents] /\ 0 \in 0..Len(turns) /\ events \in 0..MaxEvents
  BY <1>1, Kinds DEF Init
<1>6. /\ stable \in [Sessions -> [bundle : Bundles \cup {None}, gen : Nat]]
      /\ cache \in [Sessions -> Bundles \cup {None}] /\ slot \in [Sessions -> Slots \cup {None}]
      /\ \A s \in Sessions : slot[s] = None
      /\ stage \in [Sessions -> Stages] /\ making \in [Sessions -> {"none", "cleared", "built"}]
      /\ \A s \in Sessions : making[s] = "none"
  BY DEF Init, Stages
<1>7. TypeOK
  <2>1. /\ client = None /\ clients = 0 /\ bundle = None /\ inits = 0 /\ queue = 0 /\ wire = {} /\ events = 0 /\ hurt = 0
        /\ writeEnabled = TRUE /\ claimed = {} /\ failed = {} /\ crossed = FALSE /\ crowded = FALSE
    BY DEF Init
  <2>2. Len(turns) <= MaxTurns
    BY <1>1, Kinds
  <2> QED BY <1>1, <1>2, <1>3, <1>4, <1>5, <1>6, <2>1, <2>2 DEF TypeOK
<1>8. Budget
  <2>1. Owing = {}
    BY DEF Init, Owing
  <2>2. IsFiniteSet(Owing) /\ Cardinality(Owing) = 0
    BY <2>1, FS_EmptySet
  <2>3. inits = 0 /\ events = 0 /\ Spare \in {0, 1}
    BY DEF Init, Spare
  <2> QED BY <2>2, <2>3 DEF Budget
<1>9. Versions
  BY DEF Init, Versions
<1> QED BY <1>7, <1>8, <1>9

\* At the start nothing is issued, held or under way.
LEMMA InitSound ==
    ASSUME Init
    PROVE  /\ TurnsSound /\ SlotsSound /\ FetchesSound /\ SpacesSound /\ KeysLocated /\ KeysOnce /\ LogOnce
           /\ MessagesProven /\ OrderSound
<1>1. TypeOK /\ DOMAIN turns = {} /\ Len(turns) = 0 /\ hurt = 0
  <2>1. turns = <<>> /\ hurt = 0
    BY DEF Init
  <2> QED BY <2>1, InitTyped
<1>2. /\ \A t \in Turns : fetches[t] = NoFetch
      /\ \A s \in Sessions : stage[s] = "idle" /\ making[s] = "none" /\ slot[s] = None /\ ~ InTurn(s)
      /\ \A w \in Writers : writers[w] = NoWriter /\ DOMAIN queues[w] = {}
      /\ \A sp \in Spaces : DOMAIN log[sp] = {}
      /\ wire = {} /\ client = None /\ clients = 0 /\ inits = 0 /\ queue = 0
      /\ \A s \in Sessions : stable[s].gen = 0
  BY DEF Init, InTurn
<1>3. /\ NoFetch.phase = "none" /\ NoFetch.gen = 0 /\ NoFetch.now = None /\ NoFetch.update = None
      /\ NoWriter.phase = "gone" /\ NoWriter.queue = 0
  BY DEF NoFetch, NoWriter
<1>4. TurnsSound
  <2>1. ASSUME NEW s \in Sessions PROVE TurnOf(s) = 0
    <3>1. {0} \cup {t \in DOMAIN turns : turns[t].session = s} = {0}
      BY <1>1
    <3>2. TurnOf(s) = Max({0})
      BY <3>1 DEF TurnOf
    <3>3. Max({0}) = 0
      BY DEF Max
    <3> QED BY <3>2, <3>3
  <2> QED BY <1>1, <1>2, <2>1 DEF TurnsSound
<1>5. FetchesSound
  BY <1>1, <1>2, <1>3 DEF FetchesSound
<1>6. SlotsSound /\ SpacesSound
  BY <1>2, <1>3 DEF SlotsSound, SpacesSound, Replacing
<1>7. \A key : ~ Issued(key) /\ (\A sp \in Spaces : ~ Bound(sp, key))
                /\ \A g \in Writers : ~ Queued(g, key) /\ ~ Writing(g, key)
  BY <1>2, <1>3 DEF Issued, Bound, Queued, Writing, Logged
<1>8. KeysLocated
  BY <1>7 DEF KeysLocated
<1>9. KeysOnce
  BY <1>2, <1>7 DEF KeysOnce, KeysBegun
<1>10. LogOnce
  BY <1>2 DEF LogOnce
<1>11. MessagesProven
  BY <1>2, <1>3 DEF MessagesProven, Pending, AnswerAloneOnlyIfDisturbed
<1>12. OrderSound
  <2>1. \A t, u \in Turns : ~ WaitsBefore(t, u) /\ ~ IsWritten(t) /\ ~ Answered(t)
    BY <1>2, <1>3 DEF WaitsBefore, IsWritten, WrittenBy, Answered
  <2>2. InOrderUnlessDisturbed /\ OneWriter
    BY <1>2 DEF InOrderUnlessDisturbed, OneWriter
  <2> QED BY <1>2, <1>3, <2>1, <2>2 DEF OrderSound
<1> QED BY <1>4, <1>5, <1>6, <1>8, <1>9, <1>10, <1>11, <1>12

\* The hooks, threads and requests keep the invariant, in every order they can
\* come in.
THEOREM HermesInvariant == Spec => []IInv
<1>1. Init => IInv
  BY InitTyped, InitSound DEF IInv
<1>2. IInv /\ [Next]_vars => IInv'
  <2> SUFFICES ASSUME IInv, [Next]_vars PROVE IInv'
    OBVIOUS
  <2>1. /\ TypeOK /\ Budget /\ Versions /\ TurnsSound /\ SlotsSound /\ FetchesSound /\ SpacesSound
        /\ KeysLocated /\ KeysOnce /\ KeysBegun /\ LogOnce /\ MessagesProven /\ OrderSound
    BY DEF IInv, KeysOnce
  <2>2. TypeOK' /\ Budget' /\ Versions'
    BY <2>1, TypesKept, BudgetKept, VersionsKept
  <2>3. TurnsSound' /\ FetchesSound'
    BY <2>1, TurnsSoundKept, FetchesSoundKept
  <2>4. SlotsSound' /\ SpacesSound'
    BY <2>1, <2>2, <2>3, SlotsSoundKept, SpacesSoundKept
  <2>5. KeysOnce' /\ KeysLocated' /\ LogOnce'
    BY <2>1, KeysOnceKept, KeysLocatedKept, LogOnceKept
  <2>6. MessagesProven'
    BY <2>1, <2>2, <2>5, MessagesProvenKept
  <2>7. OrderSound'
    BY <2>1, <2>2, <2>5, OrderSoundKept
  <2> QED BY <2>2, <2>3, <2>4, <2>5, <2>6, <2>7 DEF IInv
<1> QED BY <1>1, <1>2, PTL DEF Spec

\* The hooks and threads keep their state within its types, however many
\* conversations there are; an initialisation always finds a place for its
\* writer, because it is paid for by a session started or finalized.
THEOREM HermesTypes == Spec => []TypeOK
<1>1. IInv => TypeOK
  BY DEF IInv
<1> QED BY <1>1, HermesInvariant, PTL

\* The user message of an undisturbed turn is recorded once, though the
\* prefetch and the writer both send it and either may be served late.
THEOREM MessagesRecordedOnce == Spec => []RecordedTwiceOnlyIfDisturbed
<1>1. IInv => RecordedTwiceOnlyIfDisturbed
  BY RecordedOnce DEF IInv
<1> QED BY <1>1, HermesInvariant, PTL

\* An answer that was sent without its user message finds it before it in the
\* space, from the prefetch.
THEOREM AnswersAccompanied == Spec => []AnswerAloneOnlyIfDisturbed
<1>1. IInv => AnswerAloneOnlyIfDisturbed
  BY DEF IInv, MessagesProven
<1> QED BY <1>1, HermesInvariant, PTL

\* The context a turn renders is the one its space had when the server
\* answered, whatever the provider's bundle has become since.
THEOREM ContextServed == Spec => []ContextAsServed
<1>1. IInv => ContextAsServed
  BY DEF IInv, FetchesSound, ContextAsServed
<1> QED BY <1>1, HermesInvariant, PTL

\* No bundle of another space than the client's is held, unless an answer
\* came in while an initialisation was about to replace the client that sent
\* the request, or after that.
THEOREM BundlesOfTheClient == Spec => []ForeignBundleOnlyIfCrossed
<1>1. IInv => ForeignBundleOnlyIfCrossed
  BY DEF IInv, SpacesSound, Of, ForeignBundleOnlyIfCrossed
<1> QED BY <1>1, HermesInvariant, PTL

\* The answers of a conversation are recorded in the order they were given,
\* for undisturbed turns while no two writers serve one queue.
THEOREM AnswersInOrder == Spec => []InOrderUnlessDisturbed
<1>1. IInv => InOrderUnlessDisturbed
  BY DEF IInv, OrderSound
<1> QED BY <1>1, HermesInvariant, PTL
=============================================================================
