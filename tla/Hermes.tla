------------------------------- MODULE Hermes -------------------------------
(***************************************************************************)
(* The Hermes plugin against a GossipMemo server: what one gateway process *)
(* keeps about its conversations between the hooks of a turn, the thread   *)
(* that writes finished turns, and the server's log of messages.           *)
(* (src/integrations/hermes/gossipmemo/__init__.py; the SDK in             *)
(* src/src/gossipmemo_client/client.py; turn, record_messages and          *)
(* turn_view on the server.)                                               *)
(*                                                                         *)
(* A turn is a user message, with a call of pre_llm_call, and an answer,   *)
(* with a call of post_llm_call; a conversation has one turn at a time.    *)
(* A prefetch is sent, served and answered in three steps, a write of the  *)
(* thread sent and then served and answered; the sender may give up after  *)
(* any of them, and the server may serve it after that.                    *)
(* A context bundle is named by the space it is of and its version.        *)
(*                                                                         *)
(* Left out: queue_prefetch, which no hook calls; the tools, which keep no *)
(* state in the plugin (Change stands for what they change); the text that *)
(* is rendered from a bundle; other threads between the assignments that   *)
(* one step of initialize stands for (the clears; the queue and the start  *)
(* of its writer), and between those of a shutdown.                        *)
(***************************************************************************)
EXTENDS Naturals, FiniteSets, Sequences, SequencesExt, FiniteSetsExt

CONSTANTS
    Sessions,   \* conversations the gateway holds
    Cron,       \* those whose id has the prefix of a scheduled job
    Spaces,     \* spaces the configuration may name
    Home,       \* the one it names when the gateway starts
    None,
    MaxTurns,   \* bound: turns in a behaviour
    MaxEvents   \* bound: sessions started and finalized, requests given up, answers
                \* lost, views unavailable and changes of a context, together

Turns   == 1..MaxTurns
Bundles == Spaces \X (0..MaxEvents)
Slots   == [key : Turns, text : Turns, persisted : BOOLEAN]

\* None is no session, no space, no bundle and no slot.
ASSUME HermesAssumption ==
    /\ Cron \subseteq Sessions
    /\ Home \in Spaces
    /\ None \notin Sessions \cup Spaces \cup Bundles \cup Slots
    /\ {MaxTurns, MaxEvents} \subseteq Nat

\* One writer and one queue per initialisation: the first one's, and one for
\* each session that is started, or finalized so that the next hook initialises.
Writers == 1..(MaxEvents + 1)

VARIABLES
    \* the conversations, in Hermes
    stage,          \* idle, stable (pre_llm_call before the prefetch), join
                    \* (waiting for it), asked (the model works), closing; starting,
                    \* preparing and answering: on_session_start, pre_llm_call and
                    \* post_llm_call in initialize, or just back from it
    making,         \* how far initialize is: none, cleared (the old client still
                    \* there), built (the new client, and the old queue)
    turns,          \* the turns begun: session, and the first of its turns with the
                    \* same user message, which names the text
    stable,         \* the answer of the stable block's GET, and the client that
                    \* sent it
    \* the provider
    client,         \* _client: the space it writes to, or None
    clients,        \* clients made so far
    writeEnabled,   \* _write_enabled
    claimed,        \* _session_started_keys
    bundle,         \* _context_bundle
    cache,          \* _prefetch_cache
    slot,           \* _current_turn: the turn that made the key, the text,
                    \* and whether the server is known to have the message
    fetches,        \* the turn() request of each turn's prefetch thread
    inits,          \* initialisations that made their queue; the last made the
                    \* present one
    queue,          \* _queue: 0 or the initialisation that made it
    queues,         \* content of each queue
    writers,        \* the writing thread each initialisation started
    \* the server
    log,            \* messages in the order they were recorded
    version,        \* version of each space's context
    wire,           \* requests whose sender gave up before they were served
    \* the bounded choices so far, and history
    events,
    hurt,           \* turns up to this one had begun when a step of an
                    \* initialisation was made, a session was finalized, or a turn
                    \* came upon the slot of one that had
    failed,         \* turns whose write raised
    crossed,        \* an answer came in after the client was replaced that sent the
                    \* request, or while an initialisation was about to replace it
    crowded         \* two writers have served one queue

sessionVars == <<stage, making, turns, stable>>
clientVars  == <<client, clients>>
writerVars  == <<queues, writers>>
serverVars  == <<log, version, wire>>
histories   == <<hurt, failed, crossed, crowded>>
vars == <<sessionVars, clientVars, writeEnabled, claimed, bundle, cache, slot,
          fetches, inits, queue, writerVars, serverVars, events, histories>>

Batch(t, items) == [turn |-> t, items |-> items]
Stop == Batch(0, <<>>)          \* the None that ends a writer

NoFetch  == [phase |-> "none", on |-> 0, space |-> None, gen |-> 0,
             cached |-> None, update |-> None, now |-> None]
NoWriter == [phase |-> "gone", queue |-> 0, space |-> None, batch |-> Stop]

Current(sp) == <<sp, version[sp]>>

\* A message is named by its idempotency key: the key its turn's prefetch
\* made, a fresh one made for its user message when there is no such key, or
\* the one the SDK makes for an answer.
PrefetchKey(t) == <<"prefetch", t>>
FreshKey(t)    == <<"fresh", t>>
AnswerKey(t)   == <<"answer", t>>
Keys == {"prefetch", "fresh", "answer"} \X Turns

\* the turn a conversation is at, or was at last
TurnOf(s) == Max({0} \cup {t \in DOMAIN turns : turns[t].session = s})

\* the environment makes one of its bounded choices
Event == events < MaxEvents /\ events' = events + 1

-----------------------------------------------------------------------------
(* The server. *)

\* a message whose key the space has already is passed over
Added(old, key) ==
    IF \E j \in DOMAIN old : old[j] = key THEN old ELSE Append(old, key)

\* record_messages, of the one message of a request or the two
Recorded(old, items) ==
    IF Len(items) = 1 THEN Added(old, items[1])
    ELSE Added(Added(old, items[1]), items[2])

\* turn_view: the bundle is only sent when the version the sender named is not
\* the present one
Update(f) == IF f.cached = Current(f.space) THEN None ELSE Current(f.space)

\* turn: the messages are recorded first; then the view, any read of which may
\* fail, so that the context is unavailable
ServeFetch(t) ==
    LET f == fetches[t] IN
    /\ f.phase = "sent"
    /\ log' = [log EXCEPT ![f.space] = Recorded(@, <<PrefetchKey(t)>>)]
    /\ \/ /\ fetches' = [fetches EXCEPT
                ![t].phase = "served",
                ![t].now = Current(f.space),
                ![t].update = Update(f)]
          /\ UNCHANGED events
       \/ /\ Event
          /\ fetches' = [fetches EXCEPT ![t].phase = "served"]
    /\ UNCHANGED <<sessionVars, clientVars, writeEnabled, claimed, bundle, cache, slot,
                   inits, queue, writerVars, version, wire, histories>>

\* a request is served whose sender has given it up
ServeLate ==
    \E r \in wire :
        /\ log' = [log EXCEPT ![r.space] = Recorded(@, r.items)]
        /\ wire' = wire \ {r}
        /\ UNCHANGED <<sessionVars, clientVars, writeEnabled, claimed, bundle, cache, slot,
                       fetches, inits, queue, writerVars, version, events, histories>>

\* the context of a space changes: a card or the continuity is written
Change(sp) ==
    /\ Event
    /\ version' = [version EXCEPT ![sp] = @ + 1]
    /\ UNCHANGED <<sessionVars, clientVars, writeEnabled, claimed, bundle, cache, slot,
                   fetches, inits, queue, writerVars, log, wire, histories>>

-----------------------------------------------------------------------------
(* The provider's life. *)

\* Seeded fault of BundleAfterInit: the bundle outlives the initialisation.
BundleKept(old) == old

BundleAfterInit(old) == None

\* initialize, for one session but of everything: without a lock it clears what
\* the provider keeps, ...
Clear(s) ==
    /\ making' = [making EXCEPT ![s] = "cleared"]
    /\ writeEnabled' = TRUE
    /\ cache' = [u \in Sessions |-> None]
    /\ bundle' = BundleAfterInit(bundle)
    /\ slot' = [u \in Sessions |-> None]
    /\ claimed' = {}
    /\ hurt' = Len(turns)
    /\ UNCHANGED <<turns, stable, clientVars, fetches, inits, queue, writerVars, serverVars,
                   failed, crossed, crowded>>

\* ... replaces the client, ...
MakeClient(s) ==
    /\ making[s] = "cleared"
    /\ making' = [making EXCEPT ![s] = "built"]
    /\ client' \in IF clients = 0 THEN {Home} ELSE Spaces
    /\ clients' = clients + 1
    /\ hurt' = Len(turns)
    /\ UNCHANGED <<stage, turns, stable, writeEnabled, claimed, bundle, cache, slot, fetches,
                   inits, queue, writerVars, serverVars, events, failed, crossed, crowded>>

\* ... and then the queue, for which it starts a writer
MakeQueue(s) ==
    /\ making[s] = "built"
    /\ making' = [making EXCEPT ![s] = "none"]
    /\ inits' = inits + 1
    /\ queue' = inits + 1
    /\ writers' = [writers EXCEPT ![inits + 1] = [NoWriter EXCEPT !.phase = "get",
                                                                  !.queue = inits + 1]]
    /\ hurt' = Len(turns)
    /\ UNCHANGED <<stage, turns, stable, clientVars, writeEnabled, claimed, bundle, cache, slot,
                   fetches, queues, serverVars, events, failed, crossed, crowded>>

\* on_session_start ...
SessionStart(s) ==
    /\ stage[s] = "idle"
    /\ Event
    /\ stage' = [stage EXCEPT ![s] = "starting"]
    /\ Clear(s)

\* ... which sets the guard against scheduled jobs, for the provider, once
\* initialize is done
SessionStarted(s) ==
    /\ stage[s] = "starting" /\ making[s] = "none"
    /\ stage' = [stage EXCEPT ![s] = "idle"]
    /\ writeEnabled' = (s \notin Cron)
    /\ UNCHANGED <<making, turns, stable, clientVars, claimed, bundle, cache, slot, fetches,
                   inits, queue, writerVars, serverVars, events, histories>>

\* ensure_initialized, in a hook that finds no client: one at a time, while an
\* on_session_start takes no lock
EnsureInitialized(s) ==
    /\ client = None
    /\ \A u \in Sessions : stage[u] \in {"preparing", "answering"} => making[u] = "none"
    /\ \/ /\ stage[s] = "idle" /\ Len(turns) < MaxTurns
          /\ stage' = [stage EXCEPT ![s] = "preparing"]
       \/ /\ stage[s] = "asked"
          /\ stage' = [stage EXCEPT ![s] = "answering"]
    /\ Clear(s)
    /\ UNCHANGED events

\* on_session_finalize -> shutdown: the queue is closed and the writer waited for ...
FinalizeBegin(s) ==
    /\ stage[s] = "idle"
    /\ Event
    /\ stage' = [stage EXCEPT ![s] = "closing"]
    /\ queues' = IF queue # 0 /\ writers[queue].phase # "gone"
                 THEN [queues EXCEPT ![queue] = Append(@, Stop)]
                 ELSE queues
    /\ hurt' = Len(turns)
    /\ UNCHANGED <<making, turns, stable, clientVars, writeEnabled, claimed, bundle, cache, slot,
                   fetches, inits, queue, writers, serverVars, failed, crossed, crowded>>

\* ... for three seconds at most; then the provider forgets whatever client
\* and queue it has by now
FinalizeEnd(s) ==
    /\ stage[s] = "closing"
    /\ stage' = [stage EXCEPT ![s] = "idle"]
    /\ client' = None
    /\ queue' = 0
    /\ hurt' = Len(turns)
    /\ UNCHANGED <<making, turns, stable, clients, writeEnabled, claimed, bundle, cache, slot,
                   fetches, inits, writerVars, serverVars, events, failed, crossed, crowded>>

-----------------------------------------------------------------------------
(* The hooks of a turn, and the prefetch they start. *)

\* a user message is new, or one the conversation has seen
Texts(s) == {Len(turns) + 1} \cup {turns[t].text : t \in {u \in DOMAIN turns : turns[u].session = s}}

\* the GET of the stable block, of a first turn when there is no bundle; the
\* hook waits for it half a second
StableFetch(s) ==
    \E announced \in BOOLEAN :
        IF (announced \/ s \notin claimed) /\ bundle = None /\ client # None
        THEN \/ /\ stable' = [stable EXCEPT ![s] =
                       [bundle |-> Current(client), gen |-> clients]]
                /\ UNCHANGED events
             \/ Event /\ UNCHANGED stable
        ELSE UNCHANGED <<stable, events>>

\* pre_llm_call, from there on to the answer of the stable block: the claim of
\* the first turn comes before it. A client that was made for the call may be
\* gone by now.
PreCall(s) ==
    /\ \/ stage[s] = "idle" /\ client # None
       \/ stage[s] = "preparing" /\ making[s] = "none"
    /\ Len(turns) < MaxTurns
    /\ \E x \in Texts(s) : turns' = Append(turns, [session |-> s, text |-> x])
    /\ claimed' = claimed \cup {s}
    /\ hurt' = IF client = None THEN Len(turns) + 1 ELSE hurt
    /\ StableFetch(s)
    /\ stage' = [stage EXCEPT ![s] = "stable"]
    /\ UNCHANGED <<making, clientVars, writeEnabled, cache, bundle, slot, fetches, inits, queue,
                   writerVars, serverVars, failed, crossed, crowded>>

\* a slot of the text of turn t
Matches(e, t) == e # None /\ e.text = turns[t].text

\* Seeded fault of FreshSlot: a message is taken for stored once it is sent.
SlotPersisted(t) == [key |-> t, text |-> turns[t].text, persisted |-> TRUE]

\* the slot a turn makes when there is none of its text
FreshSlot(t) == [key |-> t, text |-> turns[t].text, persisted |-> FALSE]

\* An initialisation has cleared the provider and is about to replace the client.
Replacing == \E s \in Sessions : making[s] = "cleared"

\* pre_llm_call from there to the start of the prefetch thread: the bundle is
\* stored unless there is one; a context left in the cache is shown and no
\* request made; else _turn_context claims the slot, and either waits for the
\* request that was made under it or makes one
Prefetch(s) ==
    LET t == TurnOf(s)
        late == stable[s].bundle # None /\ bundle = None
    IN
    /\ stage[s] = "stable"
    /\ bundle' = IF late THEN stable[s].bundle ELSE bundle
    /\ crossed' = (crossed \/ (late /\ (stable[s].gen # clients \/ Replacing)))
    /\ stable' = [stable EXCEPT ![s] = [bundle |-> None, gen |-> 0]]
    /\ hurt' = IF Matches(slot[s], t) /\ slot[s].key <= hurt THEN Len(turns) ELSE hurt
    /\ \/ /\ cache[s] # None \/ client = None
          /\ cache' = [cache EXCEPT ![s] = None]
          /\ stage' = [stage EXCEPT ![s] = "asked"]
          /\ UNCHANGED <<slot, fetches>>
       \/ /\ cache[s] = None /\ client # None
          /\ Matches(slot[s], t)
          /\ fetches' = [fetches EXCEPT ![t] = [NoFetch EXCEPT !.phase = "wait",
                                                              !.on = slot[s].key,
                                                              !.gen = clients]]
          /\ stage' = [stage EXCEPT ![s] = "join"]
          /\ UNCHANGED <<cache, slot>>
       \/ /\ cache[s] = None /\ client # None
          /\ ~ Matches(slot[s], t)
          /\ slot' = [slot EXCEPT ![s] = FreshSlot(t)]
          /\ fetches' = [fetches EXCEPT ![t] = [NoFetch EXCEPT !.phase = "sent",
                                                              !.space = client,
                                                              !.gen = clients,
                                                              !.cached = bundle']]
          /\ stage' = [stage EXCEPT ![s] = "join"]
          /\ UNCHANGED cache
    /\ UNCHANGED <<making, turns, clientVars, writeEnabled, claimed, inits, queue, writerVars,
                   serverVars,
                   events, failed, crowded>>

\* Seeded fault of Shown: an unchanged context is taken from the slot the
\* provider has by now.
ShownFromProvider(f) == IF f.update # None THEN f.update ELSE bundle

\* what a turn renders: the update, or the bundle the request named
Shown(f) == IF f.update # None THEN f.update ELSE f.cached

\* the end of turn t's prefetch thread with the context b, which is shown when
\* the turn still waits for it, and left in the cache for the next when not
Deliver(t, b) ==
    LET s == turns[t].session IN
    IF stage[s] = "join" /\ TurnOf(s) = t
    THEN /\ stage' = [stage EXCEPT ![s] = "asked"]
         /\ cache' = [cache EXCEPT ![s] = IF b # None THEN None ELSE @]
    ELSE /\ cache' = [cache EXCEPT ![s] = IF b # None THEN b ELSE @]
         /\ UNCHANGED stage

\* the slot of turn t's key, when its conversation still has it: an answer
\* with message ids proves that the message is stored
Settled(t) ==
    [s \in Sessions |-> IF slot[s] # None /\ slot[s].key = t
                        THEN [slot[s] EXCEPT !.persisted = TRUE]
                        ELSE slot[s]]

Ended(t, shown, now) ==
    [fetches EXCEPT ![t] = [NoFetch EXCEPT !.phase = "ended", !.update = shown, !.now = now]]

\* the answer of turn(): the update becomes the provider's bundle whatever it
\* has by now
FetchEnd(t) ==
    LET f == fetches[t] IN
    /\ f.phase = "served"
    /\ fetches' = Ended(t, Shown(f), f.now)
    /\ slot' = Settled(t)
    /\ bundle' = IF f.update # None THEN f.update ELSE bundle
    /\ crossed' = (crossed \/ f.gen # clients \/ Replacing)
    /\ Deliver(t, Shown(f))
    /\ UNCHANGED <<making, turns, stable, clientVars, writeEnabled, claimed, inits, queue, writerVars,
                   serverVars, events, hurt, failed, crowded>>

\* turn() raises: the request is given up, served or not
FetchFails(t) ==
    LET f == fetches[t] IN
    /\ f.phase \in {"sent", "served"}
    /\ Event
    /\ fetches' = Ended(t, None, None)
    /\ wire' = IF f.phase = "sent"
               THEN wire \cup {[space |-> f.space, items |-> <<PrefetchKey(t)>>]}
               ELSE wire
    /\ Deliver(t, None)
    /\ UNCHANGED <<making, turns, stable, clientVars, writeEnabled, claimed, bundle, slot, inits,
                   queue, writerVars, log, version, histories>>

\* a prefetch that found its key in use ends with what the request has brought
\* by then, after a third of a second at most
WaitEnd(t) ==
    LET f == fetches[t]
        on == fetches[f.on]
        got == on.phase = "ended"
    IN
    /\ f.phase = "wait"
    /\ fetches' = Ended(t, IF got THEN on.update ELSE None, IF got THEN on.now ELSE None)
    /\ crossed' = (crossed \/ f.gen # clients \/ Replacing)
    /\ Deliver(t, IF got THEN on.update ELSE None)
    /\ UNCHANGED <<making, turns, stable, clientVars, writeEnabled, claimed, bundle, slot, inits, queue,
                   writerVars, serverVars, events, hurt, failed, crowded>>

\* pre_llm_call waits a quarter of a second and goes on without a context
JoinTimeout(s) ==
    /\ stage[s] = "join"
    /\ stage' = [stage EXCEPT ![s] = "asked"]
    /\ UNCHANGED <<making, turns, stable, clientVars, writeEnabled, claimed, bundle, cache, slot,
                   fetches,
                   inits, queue, writerVars, serverVars, events, histories>>

\* Seeded fault of UserKey: a resent message gets a key of its own.
UserKeyFresh(t, e) == FreshKey(t)

\* the key of a user message that is sent again, or for the first time
UserKey(t, e) ==
    IF Matches(e, t) THEN PrefetchKey(e.key) ELSE FreshKey(t)

\* sync_turn: the messages of turn t, its slot being e
TurnMessages(t, e) ==
    IF Matches(e, t) /\ e.persisted
    THEN <<AnswerKey(t)>>
    ELSE <<UserKey(t, e), AnswerKey(t)>>

\* post_llm_call, from ensure_initialized on: sync_turn does nothing, and keeps
\* the slot, when writing is not enabled or there is no client or no queue; else
\* it releases the slot and queues the turn
PostCall(s) ==
    LET t == TurnOf(s)
        writes == writeEnabled /\ client # None /\ queue # 0
    IN
    /\ \/ stage[s] = "asked" /\ client # None
       \/ stage[s] = "answering" /\ making[s] = "none"
    /\ stage' = [stage EXCEPT ![s] = "idle"]
    /\ \/ ~ writes /\ UNCHANGED <<slot, queues>>
       \/ /\ writes
          /\ slot' = [slot EXCEPT ![s] = None]
          /\ queues' = [queues EXCEPT ![queue] =
                Append(@, Batch(t, TurnMessages(t, slot[s])))]
    /\ UNCHANGED <<making, turns, stable, clientVars, writeEnabled, claimed, bundle, cache,
                   fetches, inits, queue, writers, serverVars, events, histories>>

\* the turn is interrupted, or the model answers nothing: post_llm_call does
\* nothing
Abort(s) ==
    /\ stage[s] = "asked"
    /\ stage' = [stage EXCEPT ![s] = "idle"]
    /\ UNCHANGED <<making, turns, stable, clientVars, writeEnabled, claimed, bundle, cache, slot,
                   fetches, inits, queue, writerVars, serverVars, events, histories>>

-----------------------------------------------------------------------------
(* The writing thread. *)

\* Seeded faults of Taken and Loop: the newest batch is taken first; a write
\* that raised ends the thread; the thread does not look whether there is a queue.
TakenNewest(q) == <<Last(q), Front(q)>>
LoopUnlessFailed(w) ==
    IF queue = 0 \/ writers[w].batch.turn \in failed'
    THEN NoWriter ELSE [NoWriter EXCEPT !.phase = "get", !.queue = queue]
LoopUnchecked(w) == [NoWriter EXCEPT !.phase = "get", !.queue = queue]

Taken(q) == <<Head(q), Tail(q)>>

\* the head of the loop: the queue the provider has by now, which may be
\* another than the one the writer was started for
Loop(w) == IF queue = 0 THEN NoWriter ELSE [NoWriter EXCEPT !.phase = "get", !.queue = queue]

Crowds(w) ==
    /\ queue # 0
    /\ \E v \in Writers \ {w} :
         writers[v].phase # "gone" /\ (v = queue \/ writers[v].queue = queue)

WriterTake(w) ==
    LET q == writers[w].queue
        got == Taken(queues[q])
    IN
    /\ writers[w].phase = "get"
    /\ queues[q] # <<>>
    /\ queues' = [queues EXCEPT ![q] = got[2]]
    /\ \/ /\ got[1] = Stop
          /\ writers' = [writers EXCEPT ![w] = NoWriter]
          /\ UNCHANGED <<failed, crowded>>
       \/ /\ got[1] # Stop /\ client = None
          /\ failed' = failed
          /\ writers' = [writers EXCEPT ![w] = Loop(w)]
          /\ crowded' = (crowded \/ Crowds(w))
       \/ /\ got[1] # Stop /\ client # None
          /\ writers' = [writers EXCEPT ![w] = [phase |-> "sent", queue |-> q,
                                                space |-> client, batch |-> got[1]]]
          /\ UNCHANGED <<failed, crowded>>
    /\ UNCHANGED <<sessionVars, clientVars, writeEnabled, claimed, bundle, cache, slot, fetches,
                   inits, queue, serverVars, events, hurt, crossed>>

\* the batch is served and answered; there is no view, for it ends with an
\* answer of the assistant
WriterWrites(w) ==
    /\ writers[w].phase = "sent"
    /\ log' = [log EXCEPT ![writers[w].space] = Recorded(@, writers[w].batch.items)]
    /\ failed' = failed
    /\ writers' = [writers EXCEPT ![w] = Loop(w)]
    /\ crowded' = (crowded \/ Crowds(w))
    /\ UNCHANGED <<sessionVars, clientVars, writeEnabled, claimed, bundle, cache, slot, fetches,
                   inits, queue, queues, version, wire, events, hurt, crossed>>

\* the write raises, before the batch is served or after it: the batch is
\* dropped, and the thread goes on
WriterFails(w) ==
    LET b == writers[w].batch IN
    /\ writers[w].phase = "sent"
    /\ Event
    /\ \/ /\ wire' = wire \cup {[space |-> writers[w].space, items |-> b.items]}
          /\ UNCHANGED log
       \/ /\ log' = [log EXCEPT ![writers[w].space] = Recorded(@, b.items)]
          /\ UNCHANGED wire
    /\ failed' = failed \cup {b.turn}
    /\ writers' = [writers EXCEPT ![w] = Loop(w)]
    /\ crowded' = (crowded \/ Crowds(w))
    /\ UNCHANGED <<sessionVars, clientVars, writeEnabled, claimed, bundle, cache, slot, fetches,
                   inits, queue, queues, version, hurt, crossed>>

-----------------------------------------------------------------------------
\* A gateway that has just been restarted: conversations may go on that were
\* begun before, and nothing is initialised.
Init ==
    /\ stage = [s \in Sessions |-> "idle"]
    /\ making = [s \in Sessions |-> "none"]
    /\ turns = <<>>
    /\ stable = [s \in Sessions |-> [bundle |-> None, gen |-> 0]]
    /\ client = None
    /\ clients = 0
    /\ writeEnabled = TRUE
    /\ claimed = {}
    /\ bundle = None
    /\ cache = [s \in Sessions |-> None]
    /\ slot = [s \in Sessions |-> None]
    /\ fetches = [t \in Turns |-> NoFetch]
    /\ inits = 0
    /\ queue = 0
    /\ queues = [g \in Writers |-> <<>>]
    /\ writers = [w \in Writers |-> NoWriter]
    /\ log = [sp \in Spaces |-> <<>>]
    /\ version = [sp \in Spaces |-> 0]
    /\ wire = {}
    /\ events = 0
    /\ hurt = 0
    /\ failed = {}
    /\ crossed = FALSE
    /\ crowded = FALSE

Next ==
    \/ \E s \in Sessions :
         \/ SessionStart(s) \/ EnsureInitialized(s)
         \/ MakeClient(s) \/ MakeQueue(s) \/ SessionStarted(s)
         \/ FinalizeBegin(s) \/ FinalizeEnd(s)
         \/ PreCall(s) \/ Prefetch(s) \/ JoinTimeout(s) \/ PostCall(s) \/ Abort(s)
    \/ \E t \in DOMAIN turns : ServeFetch(t) \/ FetchEnd(t) \/ FetchFails(t) \/ WaitEnd(t)
    \/ \E w \in Writers : WriterTake(w) \/ WriterWrites(w) \/ WriterFails(w)
    \/ ServeLate
    \/ \E sp \in Spaces : Change(sp)

\* The writing threads run, a write that is not given up is served, and a
\* shutdown stops waiting. No conversation has to go on, and no prefetch to end.
Fairness ==
    /\ \A s \in Sessions : WF_vars(FinalizeEnd(s))
    /\ \A w \in Writers :
         WF_vars(WriterTake(w)) /\ WF_vars(WriterWrites(w))

Spec == Init /\ [][Next]_vars /\ Fairness

-----------------------------------------------------------------------------
(* Properties. *)

\* The messages of a request: that of a prefetch, or of a turn that was answered,
\* whose answer comes last.
UserKeys    == {"prefetch", "fresh"} \X Turns
Answers(t)  == {<<AnswerKey(t)>>} \cup {<<k, AnswerKey(t)>> : k \in UserKeys}
TurnBatches == UNION {{Batch(t, items) : items \in Answers(t)} : t \in Turns}

Fetches == [phase : {"none", "sent", "served", "wait", "ended"}, on : 0..MaxTurns,
            space : Spaces \cup {None}, gen : Nat,
            cached : Bundles \cup {None}, update : Bundles \cup {None},
            now : Bundles \cup {None}]

\* A thread has a space and a batch exactly while it writes.
WriterStates ==
    [phase : {"gone"}, queue : {0}, space : {None}, batch : {Stop}]
    \cup [phase : {"get"}, queue : Writers, space : {None}, batch : {Stop}]
    \cup [phase : {"sent"}, queue : Writers, space : Spaces, batch : TurnBatches]

\* A hook is in initialize, or back from it, in three of them.
Initializing == {"starting", "preparing", "answering"}
Stages == {"idle", "stable", "join", "asked", "closing"} \cup Initializing

\* The hooks and threads keep their state within these types.
TypeOK ==
    LET Shows == Bundles \cup {None}
    IN
    /\ stage \in [Sessions -> Stages] /\ making \in [Sessions -> {"none", "cleared", "built"}]
    /\ \A s \in Sessions : making[s] # "none" => stage[s] \in Initializing
    /\ Len(turns) <= MaxTurns /\ turns \in Seq([session : Sessions, text : Turns])
    /\ stable \in [Sessions -> [bundle : Shows, gen : Nat]]
    /\ client \in Spaces \cup {None} /\ clients \in Nat
    /\ writeEnabled \in BOOLEAN
    /\ claimed \subseteq Sessions
    /\ bundle \in Shows
    /\ cache \in [Sessions -> Shows]
    /\ slot \in [Sessions -> Slots \cup {None}]
    /\ \A s \in Sessions : slot[s] # None => slot[s].key \in DOMAIN turns
    /\ fetches \in [Turns -> Fetches]
    /\ inits \in {0} \cup Writers /\ queue \in {0, inits}
    /\ queues \in [Writers -> Seq(TurnBatches \cup {Stop})]
    /\ writers \in [Writers -> WriterStates]
    /\ log \in [Spaces -> Seq(Keys)]
    /\ version \in [Spaces -> 0..MaxEvents]
    /\ wire \subseteq [space : Spaces, items : {<<PrefetchKey(t)>> : t \in Turns}
                                             \cup UNION {Answers(t) : t \in Turns}]
    /\ hurt \in 0..Len(turns) /\ failed \subseteq DOMAIN turns
    /\ events \in 0..MaxEvents
    /\ {crossed, crowded} \subseteq BOOLEAN

Answered(t) == \E sp \in Spaces : \E i \in DOMAIN log[sp] : log[sp][i] = AnswerKey(t)

\* A user message that the prefetch sent, and the writer sends again because
\* the answer was lost, late or not waited for, is recorded once, in whatever
\* order the two requests are served; only a provider that was initialised
\* again or finalized under the turn forgets the key and writes it twice.
RecordedTwiceOnlyIfDisturbed ==
    \A t \in Turns : t > hurt =>
        Cardinality({p \in Spaces \X (1..(3 * MaxTurns)) :
                       /\ p[2] \in DOMAIN log[p[1]]
                       /\ log[p[1]][p[2]] \in {PrefetchKey(t), FreshKey(t)}}) <= 1

\* An answer that is recorded without its user message in the same batch has
\* it before it in the same space, from the prefetch.
AnswerAloneOnlyIfDisturbed ==
    \A sp \in Spaces : \A i \in DOMAIN log[sp] : \A t \in DOMAIN turns :
        (log[sp][i] = AnswerKey(t) /\ t > hurt) =>
            \E j \in 1..(i - 1) : \E u \in 1..t :
                /\ log[sp][j] \in {PrefetchKey(u), FreshKey(u)}
                /\ turns[u] = turns[t]

\* The context a turn renders is the one its space had when the server
\* answered, though the answer carries none when the version the request named
\* is still the present one, and other conversations replace the provider's
\* bundle in the meantime.
ContextAsServed ==
    \A t \in Turns : (fetches[t].phase = "ended" /\ fetches[t].now # None)
                        => fetches[t].update = fetches[t].now

\* A bundle of another space than the client's is held only when its request was
\* under way while an initialisation was replacing the client: answered after
\* the provider was cleared and before the client was replaced, or later.
ForeignBundleOnlyIfCrossed ==
    (~ crossed /\ client # None) =>
        \A b \in ({bundle} \cup {cache[s] : s \in Sessions}) \ {None} : b[1] = client

\* The answers of a conversation are recorded in the order they were given,
\* unless a write raised, the provider was initialised again or finalized
\* under the turn, or two writers serve one queue.
InOrderUnlessDisturbed ==
    crowded \/
    \A sp \in Spaces : \A i, j \in DOMAIN log[sp] : \A t, u \in DOMAIN turns \ failed :
        (/\ log[sp][i] = AnswerKey(t) /\ log[sp][j] = AnswerKey(u)
         /\ turns[t].session = turns[u].session
         /\ t > hurt /\ u > hurt /\ i < j) => t < u

\* A turn that was queued is recorded, though writes before it raise, unless
\* its own write raised, or the provider was initialised again or finalized
\* under it.
WrittenUnlessDisturbed ==
    \A t \in Turns :
        (\E g \in Writers : \E i \in DOMAIN queues[g] : queues[g][i].turn = t)
            ~> (Answered(t) \/ t \in failed \/ t <= hurt)
=============================================================================
