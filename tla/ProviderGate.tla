---------------------------- MODULE ProviderGate ----------------------------
(***************************************************************************)
(* The single-permit priority gate every outbound provider request goes    *)
(* through (gossipmemo/transport.py, ProviderGate), together with its only *)
(* client, the request loop of OpenAICompatibleAdapter.complete (llm.py),  *)
(* which holds the permit across its transport retries.                    *)
(*                                                                         *)
(* The program is one asyncio event loop, so a step of the model is one    *)
(* synchronous stretch of one task, from the resumption of an await to the *)
(* next await that suspends.  The two-step nature of cancellation is kept: *)
(* Task.cancel() cancels the future a task waits on at once, but the       *)
(* task's except clause runs only when the loop gets round to the task.    *)
(***************************************************************************)
EXTENDS Naturals, Sequences, SequencesExt

CONSTANTS
    Callers,     \* the tasks that issue provider requests
    NoCaller,    \* "no label": the permit is not held
    MaxRetries,  \* llm_max_retries: transport retries of one request
    Delays       \* the back-off delays the adapter may choose, in ticks

ASSUME GateAssumption ==
    /\ NoCaller \notin Callers
    /\ MaxRetries \in Nat
    /\ Delays \subseteq Nat \ {0}

\* priority.py: lower numbers run first.
TIER_FOREGROUND == 1
TIER_FRESHNESS  == 2
TIER_BACKGROUND == 3
Tiers == {TIER_FOREGROUND, TIER_FRESHNESS, TIER_BACKGROUND}

VARIABLES
    pc,           \* where each caller is, see Phases
    tier,         \* the tier of each caller's current request
    attempt,      \* transport retries spent on the current request
    sleeping,     \* ticks left of each caller's asyncio.sleep
    waiters,      \* _waiters: per tier, the callers whose futures are queued
    locked,       \* _locked
    current,      \* _current_label (its tier is _current_tier)
    backoff       \* ticks to _unavailable_until; 0 once it has passed

vars == <<pc, tier, attempt, sleeping, waiters, locked, current, backoff>>

(***************************************************************************)
(* idle       not inside complete()                                        *)
(* waitingOut sleeping in _wait_out_shared_backoff                         *)
(* queued     awaiting its future in acquire()                             *)
(* granted    its future has a result, the task has not resumed yet        *)
(* posting    holds the permit, awaiting the HTTP response                 *)
(* retrying   holds the permit, sleeping between two attempts              *)
(* cancelled  cancelled while queued, except clause not run yet            *)
(* revoked    cancelled while granted, except clause not run yet           *)
(***************************************************************************)
Phases == {"idle", "waitingOut", "queued", "granted", "posting", "retrying",
           "cancelled", "revoked"}

Init ==
    /\ pc = [c \in Callers |-> "idle"]
    /\ tier = [c \in Callers |-> TIER_BACKGROUND]
    /\ attempt = [c \in Callers |-> 0]
    /\ sleeping = [c \in Callers |-> 0]
    /\ waiters = [t \in Tiers |-> <<>>]
    /\ locked = FALSE
    /\ current = NoCaller
    /\ backoff = 0

-----------------------------------------------------------------------------
\* Seeded fault of Dispatch: the newest waiter of the tier is taken (pop for popleft).
DispatchNewest(q, st, woken) ==
    \/ /\ \A t \in Tiers : q[t] = <<>>
       /\ waiters' = q
       /\ pc' = st
       /\ locked' = FALSE
       /\ current' = NoCaller
    \/ \E t \in Tiers :
          /\ q[t] # <<>>
          /\ \A u \in Tiers : u < t => q[u] = <<>>
          /\ waiters' = [q EXCEPT ![t] = Front(q[t])]
          /\ locked' = TRUE
          /\ current' = Last(q[t])
          /\ pc' = IF st[Last(q[t])] = "queued"
                   THEN [st EXCEPT ![Last(q[t])] = woken]
                   ELSE st

\* Seeded fault of Dispatch: the tiers are scanned from the least urgent one.
DispatchBackground(q, st, woken) ==
    \/ /\ \A t \in Tiers : q[t] = <<>>
       /\ waiters' = q
       /\ pc' = st
       /\ locked' = FALSE
       /\ current' = NoCaller
    \/ \E t \in Tiers :
          /\ q[t] # <<>>
          /\ \A u \in Tiers : u > t => q[u] = <<>>
          /\ waiters' = [q EXCEPT ![t] = Tail(q[t])]
          /\ locked' = TRUE
          /\ current' = Head(q[t])
          /\ pc' = IF st[Head(q[t])] = "queued"
                   THEN [st EXCEPT ![Head(q[t])] = woken]
                   ELSE st

(***************************************************************************)
(* _dispatch on an unlocked gate, for queues q and caller phases st.  The  *)
(* head of the first non-empty tier is popped and the gate is locked for   *)
(* it whatever the state of its future; only a future that is not done     *)
(* (its task is still queued, not cancelled) is given a result, after      *)
(* which its task is in phase woken.                                       *)
(***************************************************************************)
Dispatch(q, st, woken) ==
    \/ /\ \A t \in Tiers : q[t] = <<>>
       /\ waiters' = q
       /\ pc' = st
       /\ locked' = FALSE
       /\ current' = NoCaller
    \/ \E t \in Tiers :
          /\ q[t] # <<>>
          /\ \A u \in Tiers : u < t => q[u] = <<>>
          /\ waiters' = [q EXCEPT ![t] = Tail(q[t])]
          /\ locked' = TRUE
          /\ current' = Head(q[t])
          /\ pc' = IF st[Head(q[t])] = "queued"
                   THEN [st EXCEPT ![Head(q[t])] = woken]
                   ELSE st

\* Seeded fault of Release: the permit is given back without a dispatch.
ReleaseQuietly(c) ==
    /\ pc' = [pc EXCEPT ![c] = "idle"]
    /\ locked' = FALSE
    /\ current' = NoCaller
    /\ UNCHANGED waiters

\* release(): the caller that ends its use of the permit is left in phase "idle".
Release(c) == Dispatch(waiters, [pc EXCEPT ![c] = "idle"], "granted")

\* Seeded fault of Enqueue: a dispatch that does not look at the lock.
EnqueueUnlocked(c, t) ==
    Dispatch([waiters EXCEPT ![t] = Append(@, c)], [pc EXCEPT ![c] = "queued"], "posting")

\* acquire() past the shared back-off: queue a future and dispatch.  Awaiting
\* a future that already has its result does not suspend the task.
Enqueue(c, t) ==
    LET q  == [waiters EXCEPT ![t] = Append(@, c)]
        st == [pc EXCEPT ![c] = "queued"]
    IN  IF locked
        THEN /\ waiters' = q
             /\ pc' = st
             /\ UNCHANGED <<locked, current>>
        ELSE Dispatch(q, st, "posting")

\* One turn of the loop of _wait_out_shared_backoff: sleep until the deadline
\* if there is one ahead, else go on into the queue.
WaitOutOrEnqueue(c, t) ==
    IF backoff > 0
    THEN /\ pc' = [pc EXCEPT ![c] = "waitingOut"]
         /\ sleeping' = [sleeping EXCEPT ![c] = backoff]
         /\ UNCHANGED <<waiters, locked, current>>
    ELSE /\ Enqueue(c, t)
         /\ UNCHANGED sleeping

-----------------------------------------------------------------------------
\* complete() up to its first suspension, in the tier of the calling reasoner.
Request(c, t) ==
    /\ pc[c] = "idle"
    /\ tier' = [tier EXCEPT ![c] = t]
    /\ attempt' = [attempt EXCEPT ![c] = 0]
    /\ WaitOutOrEnqueue(c, t)
    /\ UNCHANGED backoff

\* Seeded fault of Recheck: the loop of _wait_out_shared_backoff is an if.
RecheckOnce(c) ==
    /\ pc[c] = "waitingOut"
    /\ sleeping[c] = 0
    /\ Enqueue(c, tier[c])
    /\ UNCHANGED <<tier, attempt, sleeping, backoff>>

\* The sleep on the shared deadline is over; the deadline is read again.
Recheck(c) ==
    /\ pc[c] = "waitingOut"
    /\ sleeping[c] = 0
    /\ WaitOutOrEnqueue(c, tier[c])
    /\ UNCHANGED <<tier, attempt, backoff>>

\* The task whose future was given a result resumes and posts.
Resume(c) ==
    /\ pc[c] = "granted"
    /\ pc' = [pc EXCEPT ![c] = "posting"]
    /\ UNCHANGED <<tier, attempt, sleeping, waiters, locked, current, backoff>>

\* A response that ends the request (success, or an error that is not
\* retried, or the last attempt): the finally clause releases the permit.
Finish(c) ==
    /\ pc[c] = "posting"
    /\ Release(c)
    /\ UNCHANGED <<tier, attempt, sleeping, backoff>>

\* Seeded fault of Retry: one retry too many (attempt > max_retries for >=).
RetryOnceMore(c, d) ==
    /\ pc[c] = "posting"
    /\ attempt[c] <= MaxRetries
    /\ attempt' = [attempt EXCEPT ![c] = @ + 1]
    /\ backoff' = IF d > backoff THEN d ELSE backoff
    /\ sleeping' = [sleeping EXCEPT ![c] = d]
    /\ pc' = [pc EXCEPT ![c] = "retrying"]
    /\ UNCHANGED <<tier, waiters, locked, current>>

\* A transport error or a retryable status with retries left: the deadline is
\* published (it only ever moves later) and the caller sleeps on its permit.
Retry(c, d) ==
    /\ pc[c] = "posting"
    /\ attempt[c] < MaxRetries
    /\ attempt' = [attempt EXCEPT ![c] = @ + 1]
    /\ backoff' = IF d > backoff THEN d ELSE backoff
    /\ sleeping' = [sleeping EXCEPT ![c] = d]
    /\ pc' = [pc EXCEPT ![c] = "retrying"]
    /\ UNCHANGED <<tier, waiters, locked, current>>

\* The retry sleep is over: post again.
Repost(c) ==
    /\ pc[c] = "retrying"
    /\ sleeping[c] = 0
    /\ pc' = [pc EXCEPT ![c] = "posting"]
    /\ UNCHANGED <<tier, attempt, sleeping, waiters, locked, current, backoff>>

-----------------------------------------------------------------------------
\* Task.cancel() on a task that waits in acquire(): a queued future becomes
\* cancelled but stays in its queue until the task runs; a future that has
\* its result already is left alone and the task is marked.
CancelWaiting(c) ==
    /\ pc[c] \in {"queued", "granted"}
    /\ pc' = [pc EXCEPT ![c] = IF @ = "queued" THEN "cancelled" ELSE "revoked"]
    /\ UNCHANGED <<tier, attempt, sleeping, waiters, locked, current, backoff>>

\* The task cancelled before it queued unwinds without touching the gate.
CancelEarly(c) ==
    /\ pc[c] = "waitingOut"
    /\ pc' = [pc EXCEPT ![c] = "idle"]
    /\ sleeping' = [sleeping EXCEPT ![c] = 0]
    /\ UNCHANGED <<tier, attempt, waiters, locked, current, backoff>>

\* A cancelled holder unwinds through the finally clause of complete().
CancelHolder(c) ==
    /\ pc[c] \in {"posting", "retrying"}
    /\ sleeping' = [sleeping EXCEPT ![c] = 0]
    /\ Release(c)
    /\ UNCHANGED <<tier, attempt, backoff>>

\* Seeded fault of Unwind: a caller cancelled after its grant keeps the permit.
UnwindKeeping(c) ==
    /\ \/ /\ pc[c] = "cancelled"
          /\ waiters' = [waiters EXCEPT ![tier[c]] = SelectSeq(@, LAMBDA d : d # c)]
       \/ /\ pc[c] = "revoked"
          /\ UNCHANGED waiters
    /\ pc' = [pc EXCEPT ![c] = "idle"]
    /\ UNCHANGED <<tier, attempt, sleeping, locked, current, backoff>>

\* acquire()'s except clause: take the future out of its queue; when it is no
\* longer there, release the permit if the future had been given a result.
Unwind(c) ==
    /\ \/ /\ pc[c] = "cancelled"
          /\ \E i \in 1..Len(waiters[tier[c]]) :
                /\ waiters[tier[c]][i] = c
                /\ waiters' = [waiters EXCEPT ![tier[c]] = RemoveAt(@, i)]
          /\ pc' = [pc EXCEPT ![c] = "idle"]
          /\ UNCHANGED <<locked, current>>
       \/ /\ pc[c] = "cancelled"
          /\ ~Contains(waiters[tier[c]], c)
          /\ pc' = [pc EXCEPT ![c] = "idle"]
          /\ UNCHANGED <<waiters, locked, current>>
       \/ /\ pc[c] = "revoked"
          /\ Release(c)
    /\ UNCHANGED <<tier, attempt, sleeping, backoff>>

\* One unit of time passes for every sleeper and for the shared deadline.
Tick ==
    /\ backoff > 0 \/ \E c \in Callers : sleeping[c] > 0
    /\ backoff' = IF backoff > 0 THEN backoff - 1 ELSE 0
    /\ sleeping' = [c \in Callers |-> IF sleeping[c] > 0 THEN sleeping[c] - 1 ELSE 0]
    /\ UNCHANGED <<pc, tier, attempt, waiters, locked, current>>

Next ==
    \/ \E c \in Callers :
          \/ \E t \in Tiers : Request(c, t)
          \/ Recheck(c)
          \/ Resume(c)
          \/ Finish(c)
          \/ \E d \in Delays : Retry(c, d)
          \/ Repost(c)
          \/ CancelWaiting(c)
          \/ CancelEarly(c)
          \/ CancelHolder(c)
          \/ Unwind(c)
    \/ Tick

(***************************************************************************)
(* The event loop runs every ready task, clocks advance, and every request *)
(* is answered: the HTTP client has a timeout, and a request is retried at *)
(* most MaxRetries times.  Nobody is obliged to issue a request or to be   *)
(* cancelled.                                                              *)
(***************************************************************************)
Progress(c) ==
    \/ Recheck(c)
    \/ Resume(c)
    \/ Finish(c)
    \/ Repost(c)
    \/ Unwind(c)

Spec == Init /\ [][Next]_vars /\ WF_vars(Tick)
             /\ \A c \in Callers : WF_vars(Progress(c))

-----------------------------------------------------------------------------
\* The caller has, or has been given, the permit and still has to give it back.
Owns(c) == pc[c] \in {"granted", "posting", "retrying", "revoked"}

\* c is ahead of d in the queue of one tier.
Ahead(c, d) ==
    \E t \in Tiers : \E i, j \in 1..Len(waiters[t]) :
        /\ i < j
        /\ waiters[t][i] = c
        /\ waiters[t][j] = d

Leaked == locked /\ \A c \in Callers : ~Owns(c)

\* Types of the variables; a request is retried MaxRetries times at most.
TypeOK ==
    /\ pc \in [Callers -> Phases]
    /\ tier \in [Callers -> Tiers]
    /\ attempt \in [Callers -> 0..MaxRetries]
    /\ sleeping \in [Callers -> Nat]
    /\ waiters \in [Tiers -> Seq(Callers)]
    /\ locked \in BOOLEAN
    /\ current \in Callers \cup {NoCaller}
    /\ backoff \in Nat

\* At most one request is in flight process-wide, and it is the one the gate
\* reports (README "One provider request at a time"; health() shows the label),
\* whatever the interleaving of grants, retries and cancellations.
SinglePermit == \A c \in Callers : Owns(c) => locked /\ current = c

\* The permit is never free while a caller waits for it: every path that
\* frees it also dispatches, so a wake-up cannot be lost.
NoIdlePermit == ~locked => \A t \in Tiers : waiters[t] = <<>>

\* A caller is granted the permit only when no caller of a more urgent tier is
\* queued and none of its own tier was queued before it; a new arrival joins
\* behind, and no step reorders two callers that stay queued.
NoOvertaking ==
    [][/\ \A c, d \in Callers :
            /\ pc[c] = "queued" /\ pc'[c] = "granted"
            /\ d # c /\ pc[d] = "queued"
            => tier[c] < tier[d] \/ (tier[c] = tier[d] /\ Ahead(c, d))
       /\ \A c, d \in Callers :
            /\ pc[c] = "queued" /\ pc'[c] = "queued"
            /\ pc'[d] = "queued" /\ Ahead(d, c)'
            => Ahead(d, c)]_vars

\* A caller that is not queued yet never gets past a deadline that lies ahead,
\* even when the deadline was moved later while it slept on the earlier one.
BackoffHoldsArrivals ==
    [][\A c \in Callers :
         /\ pc[c] \in {"idle", "waitingOut"}
         /\ pc'[c] \notin {"idle", "waitingOut"}
         => backoff = 0]_vars

\* The permit is orphaned in one way only: it is handed to a caller that was
\* cancelled in the queue and whose except clause has not run.
LeakOnlyByCancelledWaiter ==
    [][~Leaked /\ Leaked' =>
         /\ current' \in Callers
         /\ pc[current'] = "cancelled"
         /\ Contains(waiters[tier[current']], current')]_vars

\* Strict priority protects the foreground: as long as the permit is not
\* orphaned, a queued query is granted the permit (or gives up by itself).
ForegroundServed ==
    [](~Leaked) =>
        \A c \in Callers :
            (pc[c] = "queued" /\ tier[c] = TIER_FOREGROUND) ~> (pc[c] # "queued")

\* "Already granted the permit; hand it to the next waiter." (transport.py:105):
\* a locked gate always has a caller that will release it.
PermitNeverOrphaned == ~Leaked
=============================================================================
