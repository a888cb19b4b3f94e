------------------------- MODULE ProviderGateProofs -------------------------
(***************************************************************************)
(* Proofs, for any set of callers, any retry limit and any delays, that    *)
(* the provider gate grants one permit at a time, never leaves it idle     *)
(* while somebody waits, and orphans it in one way only.                   *)
(*                                                                         *)
(* SinglePermit and NoIdlePermit are inductive once the queues are known   *)
(* to be sound: a queued caller is in the queue of its own tier, once, and *)
(* has no claim on the permit yet.  Every step that frees the permit is    *)
(* Dispatch on some queues and phases in which nobody owns it, so most of  *)
(* the work is the lemma DispatchCorrect.                                  *)
(*                                                                         *)
(* The second half is about order: who is queued stands in its queue       *)
(* (QueuedWaits), a dispatch takes the first in line, and taking one out   *)
(* or letting one in leaves the others where they were.                    *)
(***************************************************************************)
EXTENDS ProviderGate, SequenceTheorems, TLAPS

\* Queues q are sound for phases st and tiers tr.
Sound(q, st, tr) ==
    \A t \in Tiers : \A i \in 1..Len(q[t]) :
        /\ tr[q[t][i]] = t
        /\ st[q[t][i]] \in {"queued", "cancelled"}
        /\ \A j \in 1..Len(q[t]) : q[t][i] = q[t][j] => i = j

OwnPhases == {"granted", "posting", "retrying", "revoked"}

QueuesSound == Sound(waiters, pc, tier)

IInv == TypeOK /\ SinglePermit /\ NoIdlePermit /\ QueuesSound

-----------------------------------------------------------------------------
\* Taking the element at position i out of a sequence: what is left, and where.
LEMMA RemoveAtFacts ==
    ASSUME NEW S, NEW s \in Seq(S), NEW i \in 1..Len(s)
    PROVE  /\ RemoveAt(s, i) \in Seq(S)
           /\ Len(RemoveAt(s, i)) = Len(s) - 1
           /\ \A k \in 1..Len(s) - 1 :
                 RemoveAt(s, i)[k] = IF k < i THEN s[k] ELSE s[k + 1]
<1> DEFINE a == SubSeq(s, 1, i - 1)
           b == SubSeq(s, i + 1, Len(s))
<1>1. a \in Seq(S) /\ Len(a) = i - 1 /\ \A k \in 1..i - 1 : a[k] = s[k]
  OBVIOUS
<1>2. b \in Seq(S) /\ Len(b) = Len(s) - i /\ \A k \in 1..Len(s) - i : b[k] = s[i + k]
  OBVIOUS
<1>3. RemoveAt(s, i) = a \o b
  BY DEF RemoveAt
<1> HIDE DEF a, b
<1>4. /\ a \o b \in Seq(S)
      /\ Len(a \o b) = Len(a) + Len(b)
      /\ \A k \in 1..Len(a) + Len(b) :
            (a \o b)[k] = IF k <= Len(a) THEN a[k] ELSE b[k - Len(a)]
  BY <1>1, <1>2, ConcatProperties
<1>5. Len(a) + Len(b) = Len(s) - 1
  BY <1>1, <1>2
<1>6. ASSUME NEW k \in 1..Len(s) - 1
      PROVE  (a \o b)[k] = IF k < i THEN s[k] ELSE s[k + 1]
  <2>0. k \in Nat /\ i \in Nat
    OBVIOUS
  <2>1. CASE k < i
    BY <1>1, <1>4, <1>5, <2>1
  <2>2. CASE ~(k < i)
    <3>1. k - Len(a) \in 1..Len(s) - i /\ i + (k - Len(a)) = k + 1
      BY <1>1, <2>0, <2>2
    <3>2. (a \o b)[k] = b[k - Len(a)]
      BY <1>1, <1>4, <1>5, <2>2
    <3>3. QED
      BY <1>2, <2>2, <3>1, <3>2
  <2>3. QED
    BY <2>0, <2>1, <2>2
<1>7. QED
  BY <1>3, <1>4, <1>5, <1>6

-----------------------------------------------------------------------------
\* What Dispatch leaves, for queues q, caller phases st and tiers tr: the permit
\* is owned by the caller the gate reports, it is not idle while somebody waits,
\* and the queues are sound; it is orphaned only if the caller at the head of
\* its queue had been cancelled.
Dispatched(q, st, tr) ==
    /\ waiters' \in [Tiers -> Seq(Callers)]
    /\ pc' \in [Callers -> Phases]
    /\ locked' \in BOOLEAN
    /\ current' \in Callers \cup {NoCaller}
    /\ \A c \in Callers : pc'[c] \in OwnPhases => locked' /\ current' = c
    /\ ~locked' => \A t \in Tiers : waiters'[t] = <<>>
    /\ Sound(waiters', pc', tr)
    /\ (locked' /\ \A c \in Callers : pc'[c] \notin OwnPhases)
       => /\ current' \in Callers
          /\ st[current'] = "cancelled"
          /\ Contains(q[tr[current']], current')

\* Dispatching sound queues among callers that do not own the permit.
LEMMA DispatchCorrect ==
    ASSUME NEW q \in [Tiers -> Seq(Callers)],
           NEW st \in [Callers -> Phases],
           NEW tr \in [Callers -> Tiers],
           NEW woken \in {"granted", "posting"},
           \A c \in Callers : st[c] \notin OwnPhases,
           Sound(q, st, tr),
           Dispatch(q, st, woken)
    PROVE  Dispatched(q, st, tr)
<1>1. CASE /\ \A t \in Tiers : q[t] = <<>>
           /\ waiters' = q /\ pc' = st /\ locked' = FALSE /\ current' = NoCaller
  BY <1>1 DEF Dispatched, OwnPhases
<1>2. ASSUME NEW t \in Tiers,
             q[t] # <<>>,
             waiters' = [q EXCEPT ![t] = Tail(q[t])],
             locked' = TRUE,
             current' = Head(q[t]),
             pc' = IF st[Head(q[t])] = "queued"
                   THEN [st EXCEPT ![Head(q[t])] = woken]
                   ELSE st
      PROVE  Dispatched(q, st, tr)
  <2> DEFINE h == Head(q[t])
  <2>1. /\ q[t] \in Seq(Callers) /\ Len(q[t]) \in Nat /\ 1 \in 1..Len(q[t])
        /\ h = q[t][1] /\ h \in Callers
        /\ Tail(q[t]) \in Seq(Callers)
        /\ Len(Tail(q[t])) = Len(q[t]) - 1
        /\ \A i \in 1..Len(q[t]) - 1 : Tail(q[t])[i] = q[t][i + 1]
    BY <1>2
  <2>2. tr[h] = t /\ st[h] \in {"queued", "cancelled"}
    BY <2>1 DEF Sound
  <2>3. waiters' \in [Tiers -> Seq(Callers)] /\ pc' \in [Callers -> Phases]
    BY <1>2, <2>1 DEF Phases
  <2>4. \A c \in Callers : pc'[c] \in OwnPhases => current' = c
    BY <1>2, <2>1, <2>2 DEF OwnPhases
  <2>5. Sound(waiters', pc', tr)
    <3>1. SUFFICES ASSUME NEW u \in Tiers, NEW i \in 1..Len(waiters'[u])
                   PROVE  /\ tr[waiters'[u][i]] = u
                          /\ pc'[waiters'[u][i]] \in {"queued", "cancelled"}
                          /\ \A j \in 1..Len(waiters'[u]) :
                                waiters'[u][i] = waiters'[u][j] => i = j
      BY DEF Sound
    <3>2. CASE u = t
      <4>1. waiters'[u] = Tail(q[t])
        BY <1>2, <3>2
      <4>2. i + 1 \in 1..Len(q[t]) /\ waiters'[u][i] = q[t][i + 1]
        BY <2>1, <4>1
      <4>3. waiters'[u][i] # h
        <5>1. q[t][1] = q[t][i + 1] => 1 = i + 1
          BY <2>1, <4>2 DEF Sound
        <5>2. 1 # i + 1
          BY <4>2
        <5>3. QED
          BY <2>1, <4>2, <5>1, <5>2
      <4>4. tr[waiters'[u][i]] = u /\ pc'[waiters'[u][i]] \in {"queued", "cancelled"}
        <5>1. waiters'[u][i] \in Callers
          BY <2>1, <4>2
        <5>2. pc'[waiters'[u][i]] = st[waiters'[u][i]]
          BY <1>2, <4>3, <5>1
        <5>3. QED
          BY <3>2, <4>2, <5>2 DEF Sound
      <4>5. ASSUME NEW j \in 1..Len(waiters'[u]), waiters'[u][i] = waiters'[u][j]
            PROVE  i = j
        <5>1. j + 1 \in 1..Len(q[t]) /\ waiters'[u][j] = q[t][j + 1]
          BY <2>1, <4>1
        <5>2. q[t][i + 1] = q[t][j + 1] => i + 1 = j + 1
          BY <4>2, <5>1 DEF Sound
        <5>3. QED
          BY <2>1, <4>1, <4>2, <4>5, <5>1, <5>2
      <4>6. QED
        BY <4>4, <4>5
    <3>3. CASE u # t
      <4>1. waiters'[u] = q[u]
        BY <1>2, <3>3
      <4>2. tr[q[u][i]] = u /\ q[u][i] # h
        BY <2>2, <3>3, <4>1 DEF Sound
      <4>3. q[u][i] \in Callers
        BY <4>1
      <4>4. pc'[q[u][i]] = st[q[u][i]]
        BY <1>2, <4>2, <4>3
      <4>5. QED
        BY <4>1, <4>2, <4>4 DEF Sound
    <3>4. QED
      BY <3>2, <3>3
  <2>6. (\A c \in Callers : pc'[c] \notin OwnPhases) => st[h] = "cancelled"
    <3>1. CASE st[h] = "queued"
      <4>1. pc'[h] = woken
        BY <1>2, <2>1, <3>1
      <4>2. QED
        BY <2>1, <4>1 DEF OwnPhases
    <3>2. QED
      BY <2>2, <3>1
  <2>7. QED
    BY <1>2, <2>1, <2>2, <2>3, <2>4, <2>5, <2>6 DEF Dispatched, Contains
<1>3. QED
  BY <1>1, <1>2 DEF Dispatch

-----------------------------------------------------------------------------
\* What a step that may hand the permit on has to establish.
Settled ==
    /\ waiters' \in [Tiers -> Seq(Callers)]
    /\ pc' \in [Callers -> Phases]
    /\ locked' \in BOOLEAN
    /\ current' \in Callers \cup {NoCaller}
    /\ SinglePermit' /\ NoIdlePermit' /\ QueuesSound'

\* The caller the permit goes to was cancelled in its queue.
HandedToCancelled ==
    /\ current' \in Callers
    /\ pc[current'] = "cancelled"
    /\ Contains(waiters[tier[current']], current')

\* release() by the owner: the permit is free for an instant only.
LEMMA ReleaseCorrect ==
    ASSUME IInv, NEW c \in Callers, Owns(c), Release(c), UNCHANGED tier
    PROVE  Settled /\ (Leaked' => HandedToCancelled)
<1> DEFINE st == [pc EXCEPT ![c] = "idle"]
<1>1. st \in [Callers -> Phases]
  BY DEF IInv, TypeOK, Phases
<1>2. \A d \in Callers : st[d] \notin OwnPhases
  BY DEF IInv, TypeOK, SinglePermit, Owns, OwnPhases
<1>3. Sound(waiters, st, tier)
  <2>1. \A t \in Tiers : \A i \in 1..Len(waiters[t]) :
           waiters[t][i] \in Callers /\ pc[waiters[t][i]] \in {"queued", "cancelled"}
    BY DEF IInv, TypeOK, QueuesSound, Sound
  <2>2. \A t \in Tiers : \A i \in 1..Len(waiters[t]) :
           st[waiters[t][i]] = pc[waiters[t][i]]
    BY <2>1 DEF IInv, TypeOK, Owns
  <2>3. QED
    BY <2>2 DEF IInv, QueuesSound, Sound
<1>4. Dispatch(waiters, st, "granted")
  BY DEF Release
<1>5. waiters \in [Tiers -> Seq(Callers)] /\ tier \in [Callers -> Tiers]
  BY DEF IInv, TypeOK
<1> HIDE DEF st
<1>6. Dispatched(waiters, st, tier)
  BY <1>1, <1>2, <1>3, <1>4, <1>5, DispatchCorrect, Zenon
<1>7. Settled
  <2>1. Sound(waiters', pc', tier')
    BY <1>6 DEF Dispatched
  <2>2. QED
    BY <1>6, <2>1 DEF Dispatched, Settled, SinglePermit, NoIdlePermit, QueuesSound, Owns, OwnPhases
<1>8. ASSUME Leaked' PROVE HandedToCancelled
  <2>1. locked' /\ \A d \in Callers : pc'[d] \notin OwnPhases
    BY <1>8 DEF Leaked, Owns, OwnPhases
  <2>2. pc[current'] = "cancelled"
    BY <1>6, <2>1 DEF Dispatched, st, IInv, TypeOK
  <2>3. QED
    BY <1>6, <2>1, <2>2 DEF Dispatched, HandedToCancelled
<1>9. QED
  BY <1>7, <1>8

\* acquire(): the newcomer joins the end of its tier; when the permit is free
\* nobody else waits, so it is the newcomer that gets it.
LEMMA EnqueueCorrect ==
    ASSUME IInv, NEW c \in Callers, NEW t \in Tiers,
           pc[c] \in {"idle", "waitingOut"},
           tier' = [tier EXCEPT ![c] = t],
           Enqueue(c, t)
    PROVE  Settled /\ (Leaked' => Leaked)
<1> DEFINE q  == [waiters EXCEPT ![t] = Append(@, c)]
           st == [pc EXCEPT ![c] = "queued"]
<1>1. st \in [Callers -> Phases] /\ st[c] = "queued"
      /\ \A d \in Callers : d # c => st[d] = pc[d]
  BY DEF IInv, TypeOK, Phases
<1>2. tier' \in [Callers -> Tiers] /\ tier'[c] = t
      /\ \A d \in Callers : d # c => tier'[d] = tier[d]
  BY DEF IInv, TypeOK
<1>3. /\ q \in [Tiers -> Seq(Callers)]
      /\ \A u \in Tiers : u # t => q[u] = waiters[u]
      /\ Len(q[t]) = Len(waiters[t]) + 1
      /\ q[t][Len(waiters[t]) + 1] = c
      /\ \A i \in 1..Len(waiters[t]) : q[t][i] = waiters[t][i]
  <2>1. waiters[t] \in Seq(Callers)
    BY DEF IInv, TypeOK
  <2>2. Append(waiters[t], c) \in Seq(Callers)
    BY <2>1
  <2>3. QED
    BY <2>1, <2>2, AppendProperties DEF IInv, TypeOK
<1>4. \A u \in Tiers : \A i \in 1..Len(waiters[u]) :
         waiters[u][i] \in Callers /\ waiters[u][i] # c
  <2>1. \A u \in Tiers : waiters[u] \in Seq(Callers)
    BY DEF IInv, TypeOK
  <2>2. \A u \in Tiers : \A i \in 1..Len(waiters[u]) :
           pc[waiters[u][i]] \in {"queued", "cancelled"}
    BY DEF IInv, QueuesSound, Sound
  <2>3. QED
    BY <2>1, <2>2
<1>5. \A u \in Tiers : Len(waiters[u]) \in Nat
  BY DEF IInv, TypeOK
<1> HIDE DEF q, st
<1>6. Sound(q, st, tier')
  <2>1. SUFFICES ASSUME NEW u \in Tiers, NEW i \in 1..Len(q[u])
                 PROVE  /\ tier'[q[u][i]] = u
                        /\ st[q[u][i]] \in {"queued", "cancelled"}
                        /\ \A j \in 1..Len(q[u]) : q[u][i] = q[u][j] => i = j
    BY DEF Sound
  <2>2. CASE u # t
    <3>1. q[u] = waiters[u]
      BY <1>3, <2>2
    <3>2. q[u][i] \in Callers /\ q[u][i] # c
      BY <1>4, <3>1
    <3>3. tier'[q[u][i]] = tier[q[u][i]] /\ st[q[u][i]] = pc[q[u][i]]
      BY <1>1, <1>2, <3>2
    <3>4. QED
      BY <3>1, <3>3 DEF IInv, QueuesSound, Sound
  <2>3. CASE u = t /\ i = Len(waiters[t]) + 1
    <3>1. q[u][i] = c
      BY <1>3, <2>3
    <3>2. ASSUME NEW j \in 1..Len(q[u]), q[u][j] = c PROVE i = j
      <4>1. j \notin 1..Len(waiters[t])
        BY <1>3, <1>4, <2>3, <3>2
      <4>2. QED
        BY <1>3, <1>5, <2>3, <4>1
    <3>3. QED
      BY <1>1, <1>2, <2>3, <3>1, <3>2
  <2>4. CASE u = t /\ i # Len(waiters[t]) + 1
    <3>1. i \in 1..Len(waiters[t])
      BY <1>3, <1>5, <2>4
    <3>2. q[u][i] = waiters[t][i] /\ q[u][i] \in Callers /\ q[u][i] # c
      BY <1>3, <1>4, <2>4, <3>1
    <3>3. tier'[q[u][i]] = tier[q[u][i]] /\ st[q[u][i]] = pc[q[u][i]]
      BY <1>1, <1>2, <3>2
    <3>4. tier[q[u][i]] = u /\ pc[q[u][i]] \in {"queued", "cancelled"}
      BY <2>4, <3>1, <3>2 DEF IInv, QueuesSound, Sound
    <3>5. ASSUME NEW j \in 1..Len(q[u]), q[u][i] = q[u][j] PROVE i = j
      <4>1. j # Len(waiters[t]) + 1
        BY <1>3, <2>4, <3>2, <3>5
      <4>2. j \in 1..Len(waiters[t])
        BY <1>3, <1>5, <2>4, <4>1
      <4>3. waiters[t][i] = waiters[t][j]
        BY <1>3, <2>4, <3>1, <3>5, <4>2
      <4>4. QED
        BY <3>1, <4>2, <4>3 DEF IInv, QueuesSound, Sound
    <3>6. QED
      BY <3>3, <3>4, <3>5
  <2>5. QED
    BY <2>2, <2>3, <2>4
<1>7. CASE locked
  <2>1. waiters' = q /\ pc' = st /\ locked' = locked /\ current' = current
    BY <1>7 DEF Enqueue, q, st
  <2>2. \A d \in Callers : Owns(d)' <=> Owns(d)
    BY <1>1, <2>1 DEF Owns
  <2>3. SinglePermit' /\ NoIdlePermit' /\ QueuesSound'
    BY <1>6, <1>7, <2>1, <2>2 DEF IInv, SinglePermit, NoIdlePermit, QueuesSound
  <2>4. Settled
    BY <1>1, <1>3, <2>1, <2>3 DEF Settled, IInv, TypeOK
  <2>5. Leaked' => Leaked
    BY <2>1, <2>2 DEF Leaked
  <2>6. QED
    BY <2>4, <2>5
<1>8. CASE ~locked
  <2>1. Dispatch(q, st, "posting")
    BY <1>8 DEF Enqueue, q, st
  <2>2. \A d \in Callers : st[d] \notin OwnPhases
    BY <1>1, <1>8 DEF IInv, SinglePermit, Owns, OwnPhases
  <2>3. Dispatched(q, st, tier')
    BY <1>1, <1>2, <1>3, <1>6, <2>1, <2>2, DispatchCorrect, Zenon
  <2>4. Settled
    BY <2>3 DEF Dispatched, Settled, SinglePermit, NoIdlePermit, QueuesSound, Owns, OwnPhases
  <2>5. ~Leaked'
    <3>1. SUFFICES ASSUME Leaked' PROVE FALSE
      OBVIOUS
    <3>2. /\ current' \in Callers /\ st[current'] = "cancelled"
          /\ Contains(q[tier'[current']], current')
      BY <2>3, <3>1 DEF Dispatched, Leaked, Owns, OwnPhases
    <3>3. \A u \in Tiers : waiters[u] = <<>>
      BY <1>8 DEF IInv, NoIdlePermit
    <3>4. tier'[current'] \in Tiers /\ current' # c
      BY <1>1, <1>2, <3>2
    <3>5. CASE tier'[current'] = t
      <4>1. Len(waiters[t]) = 0
        BY <3>3
      <4>2. Len(q[t]) = 1 /\ q[t][1] = c
        BY <1>3, <4>1
      <4>3. \E i \in 1..Len(q[t]) : q[t][i] = current'
        BY <3>2, <3>5 DEF Contains
      <4>4. QED
        BY <3>4, <4>2, <4>3
    <3>6. CASE tier'[current'] # t
      <4>1. q[tier'[current']] = <<>>
        BY <1>3, <3>3, <3>4, <3>6
      <4>2. QED
        BY <3>2, <4>1 DEF Contains
    <3>7. QED
      BY <3>5, <3>6
  <2>6. QED
    BY <2>4, <2>5
<1>9. QED
  BY <1>7, <1>8

-----------------------------------------------------------------------------
\* The except clause of a cancelled waiter takes it out of its queue only.
LEMMA WithdrawCorrect ==
    ASSUME IInv, NEW c \in Callers, pc[c] = "cancelled",
           NEW i \in 1..Len(waiters[tier[c]]), waiters[tier[c]][i] = c,
           waiters' = [waiters EXCEPT ![tier[c]] = RemoveAt(@, i)],
           pc' = [pc EXCEPT ![c] = "idle"],
           UNCHANGED <<tier, locked, current>>
    PROVE  Settled
<1> DEFINE t == tier[c]
           r == RemoveAt(waiters[t], i)
<1>1. t \in Tiers /\ waiters[t] \in Seq(Callers) /\ Len(waiters[t]) \in Nat
  BY DEF IInv, TypeOK
<1>2. /\ r \in Seq(Callers) /\ Len(r) = Len(waiters[t]) - 1
      /\ \A k \in 1..Len(waiters[t]) - 1 :
            r[k] = IF k < i THEN waiters[t][k] ELSE waiters[t][k + 1]
  BY <1>1, RemoveAtFacts
<1>3. /\ waiters' \in [Tiers -> Seq(Callers)]
      /\ waiters'[t] = r
      /\ \A u \in Tiers : u # t => waiters'[u] = waiters[u]
  BY <1>1, <1>2 DEF IInv, TypeOK
<1>4. pc' \in [Callers -> Phases] /\ \A d \in Callers : d # c => pc'[d] = pc[d]
  BY DEF IInv, TypeOK, Phases
<1> HIDE DEF r
\* Where an element of the shortened queue was before.
<1>5. ASSUME NEW k \in 1..Len(r)
      PROVE  \E m \in 1..Len(waiters[t]) :
                m # i /\ m = (IF k < i THEN k ELSE k + 1) /\ r[k] = waiters[t][m]
  BY <1>1, <1>2
<1>6. QueuesSound'
  <2>1. SUFFICES ASSUME NEW u \in Tiers, NEW k \in 1..Len(waiters'[u])
                 PROVE  /\ tier[waiters'[u][k]] = u
                        /\ pc'[waiters'[u][k]] \in {"queued", "cancelled"}
                        /\ \A j \in 1..Len(waiters'[u]) :
                              waiters'[u][k] = waiters'[u][j] => k = j
    BY DEF QueuesSound, Sound
  <2>2. CASE u # t
    <3>1. waiters'[u] = waiters[u] /\ waiters[u] \in Seq(Callers)
      BY <1>3, <2>2 DEF IInv, TypeOK
    <3>2. tier[waiters[u][k]] = u /\ waiters[u][k] \in Callers
      BY <3>1 DEF IInv, QueuesSound, Sound
    <3>3. pc'[waiters[u][k]] = pc[waiters[u][k]]
      BY <1>4, <2>2, <3>2
    <3>4. QED
      BY <3>1, <3>3 DEF IInv, QueuesSound, Sound
  <2>3. CASE u = t
    <3>1. PICK m \in 1..Len(waiters[t]) :
             m # i /\ m = (IF k < i THEN k ELSE k + 1) /\ r[k] = waiters[t][m]
      BY <1>3, <1>5, <2>3
    <3>2. waiters[t][m] = waiters[t][i] => m = i
      BY <1>1 DEF IInv, QueuesSound, Sound
    <3>3. waiters[t][m] # c /\ waiters[t][m] \in Callers
      BY <1>1, <3>1, <3>2
    <3>4. tier[waiters[t][m]] = t /\ pc[waiters[t][m]] \in {"queued", "cancelled"}
      BY <1>1 DEF IInv, QueuesSound, Sound
    <3>5. tier[waiters'[u][k]] = u /\ pc'[waiters'[u][k]] \in {"queued", "cancelled"}
      BY <1>3, <1>4, <2>3, <3>1, <3>3, <3>4
    <3>6. ASSUME NEW j \in 1..Len(waiters'[u]), waiters'[u][k] = waiters'[u][j]
          PROVE  k = j
      <4>1. PICK n \in 1..Len(waiters[t]) :
               n # i /\ n = (IF j < i THEN j ELSE j + 1) /\ r[j] = waiters[t][n]
        BY <1>3, <1>5, <2>3
      <4>2. waiters[t][m] = waiters[t][n]
        BY <1>3, <2>3, <3>1, <3>6, <4>1
      <4>3. m = n
        BY <1>1, <4>2 DEF IInv, QueuesSound, Sound
      <4>4. k \in Nat /\ j \in Nat /\ i \in Nat
        BY <1>1, <1>2, <1>3, <2>3
      <4>5. QED
        BY <3>1, <4>1, <4>3, <4>4
    <3>7. QED
      BY <3>5, <3>6
  <2>4. QED
    BY <2>2, <2>3
<1>7. SinglePermit'
  BY <1>4 DEF IInv, TypeOK, SinglePermit, Owns
<1>8. NoIdlePermit'
  <2>1. waiters[t] # <<>>
    BY <1>1
  <2>2. QED
    BY <1>1, <2>1 DEF IInv, NoIdlePermit
<1>9. QED
  BY <1>3, <1>4, <1>6, <1>7, <1>8 DEF Settled, IInv, TypeOK

\* A caller that changes phase outside the queues, without changing its claim
\* on the permit, disturbs nothing.
LEMMA MoveCorrect ==
    ASSUME IInv, NEW c \in Callers, NEW p \in Phases,
           pc' = [pc EXCEPT ![c] = p],
           UNCHANGED <<tier, waiters, locked, current>>,
           p \in OwnPhases <=> Owns(c),
           pc[c] \in {"queued", "cancelled"} =>
              p = "cancelled" \/ ~Contains(waiters[tier[c]], c)
    PROVE  Settled /\ (Leaked' => Leaked)
<1>1. pc' \in [Callers -> Phases] /\ pc'[c] = p
      /\ \A d \in Callers : d # c => pc'[d] = pc[d]
  BY DEF IInv, TypeOK
<1>2. \A d \in Callers : Owns(d)' <=> Owns(d)
  BY <1>1 DEF Owns, OwnPhases
<1>3. SinglePermit' /\ NoIdlePermit' /\ (Leaked' => Leaked)
  BY <1>2 DEF IInv, SinglePermit, NoIdlePermit, Leaked
<1>4. QueuesSound'
  <2>1. SUFFICES ASSUME NEW t \in Tiers, NEW i \in 1..Len(waiters[t])
                 PROVE  pc'[waiters[t][i]] \in {"queued", "cancelled"}
    BY DEF IInv, QueuesSound, Sound
  <2>2. waiters[t] \in Seq(Callers) /\ waiters[t][i] \in Callers
    BY DEF IInv, TypeOK
  <2>3. tier[waiters[t][i]] = t /\ pc[waiters[t][i]] \in {"queued", "cancelled"}
    BY DEF IInv, QueuesSound, Sound
  <2>4. CASE waiters[t][i] = c
    <3>1. Contains(waiters[tier[c]], c)
      BY <2>3, <2>4 DEF Contains
    <3>2. QED
      BY <1>1, <2>3, <2>4, <3>1
  <2>5. CASE waiters[t][i] # c
    BY <1>1, <2>2, <2>3, <2>5
  <2>6. QED
    BY <2>4, <2>5
<1>5. QED
  BY <1>1, <1>3, <1>4 DEF Settled, IInv, TypeOK

-----------------------------------------------------------------------------
\* The variables no gate operation writes.
RequestTypeOK ==
    /\ tier \in [Callers -> Tiers]
    /\ attempt \in [Callers -> 0..MaxRetries]
    /\ sleeping \in [Callers -> Nat]
    /\ backoff \in Nat

LEMMA SettledIsIInv == Settled /\ RequestTypeOK' => IInv'
  BY DEF Settled, RequestTypeOK, IInv, TypeOK

\* What every step of a caller does to the invariant and to the permit.
LEMMA CallerStep ==
    ASSUME IInv, NEW c \in Callers,
           \/ \E t \in Tiers : Request(c, t)
           \/ Recheck(c)
           \/ Resume(c)
           \/ Finish(c)
           \/ \E d \in Delays : Retry(c, d)
           \/ Repost(c)
           \/ CancelWaiting(c)
           \/ CancelEarly(c)
           \/ CancelHolder(c)
           \/ Unwind(c)
    PROVE  IInv' /\ (~Leaked /\ Leaked' => HandedToCancelled)
<1>0. TypeOK /\ RequestTypeOK /\ GateAssumption
  BY GateAssumption DEF IInv, TypeOK, RequestTypeOK
<1>1. ASSUME NEW t \in Tiers,
             pc[c] \in {"idle", "waitingOut"},
             tier' = [tier EXCEPT ![c] = t],
             WaitOutOrEnqueue(c, t)
      PROVE  Settled /\ (Leaked' => Leaked) /\ sleeping' \in [Callers -> Nat]
  <2>1. CASE backoff > 0
    <3>1. /\ pc' = [pc EXCEPT ![c] = "waitingOut"]
          /\ sleeping' = [sleeping EXCEPT ![c] = backoff]
          /\ UNCHANGED <<waiters, locked, current>>
      BY <1>1, <2>1 DEF WaitOutOrEnqueue
    <3>2. pc' \in [Callers -> Phases] /\ sleeping' \in [Callers -> Nat]
      BY <1>0, <3>1 DEF TypeOK, Phases
    <3>3. \A d \in Callers : Owns(d)' <=> Owns(d)
      BY <1>0, <1>1, <3>1 DEF TypeOK, Owns
    <3>4. SinglePermit' /\ NoIdlePermit' /\ (Leaked' => Leaked)
      BY <3>1, <3>3 DEF IInv, SinglePermit, NoIdlePermit, Leaked
    <3>5. QueuesSound'
      <4>1. SUFFICES ASSUME NEW u \in Tiers, NEW i \in 1..Len(waiters[u])
                     PROVE  /\ tier'[waiters[u][i]] = u
                            /\ pc'[waiters[u][i]] \in {"queued", "cancelled"}
        BY <3>1 DEF IInv, QueuesSound, Sound
      <4>2. waiters[u] \in Seq(Callers) /\ waiters[u][i] \in Callers
        BY <1>0 DEF TypeOK
      <4>3. /\ tier[waiters[u][i]] = u
            /\ pc[waiters[u][i]] \in {"queued", "cancelled"}
        BY DEF IInv, QueuesSound, Sound
      <4>4. QED
        BY <1>0, <1>1, <3>1, <4>2, <4>3 DEF TypeOK
    <3>6. QED
      BY <1>0, <3>1, <3>2, <3>4, <3>5 DEF Settled, TypeOK
  <2>2. CASE ~(backoff > 0)
    <3>1. Enqueue(c, t) /\ UNCHANGED sleeping
      BY <1>1, <2>2 DEF WaitOutOrEnqueue
    <3>2. Settled /\ (Leaked' => Leaked)
      BY <1>1, <3>1, EnqueueCorrect
    <3>3. QED
      BY <1>0, <3>1, <3>2 DEF TypeOK
  <2>3. QED
    BY <2>1, <2>2
<1>2. ASSUME NEW t \in Tiers, Request(c, t)
      PROVE  Settled /\ RequestTypeOK' /\ (Leaked' => Leaked)
  <2>1. Settled /\ (Leaked' => Leaked) /\ sleeping' \in [Callers -> Nat]
    BY <1>1, <1>2 DEF Request
  <2>2. 0 \in 0..MaxRetries
    BY <1>0 DEF GateAssumption
  <2>3. attempt' \in [Callers -> 0..MaxRetries] /\ tier' \in [Callers -> Tiers]
    BY <1>0, <1>2, <2>2 DEF Request, RequestTypeOK
  <2>4. RequestTypeOK'
    BY <1>0, <1>2, <2>1, <2>3 DEF Request, RequestTypeOK
  <2>5. QED
    BY <2>1, <2>4
<1>3. ASSUME Recheck(c)
      PROVE  Settled /\ RequestTypeOK' /\ (Leaked' => Leaked)
  <2>1. tier[c] \in Tiers /\ tier' = [tier EXCEPT ![c] = tier[c]]
    BY <1>0, <1>3 DEF Recheck, TypeOK
  <2>2. Settled /\ (Leaked' => Leaked) /\ sleeping' \in [Callers -> Nat]
    BY <1>1, <1>3, <2>1 DEF Recheck
  <2>3. RequestTypeOK'
    BY <1>0, <1>3, <2>2 DEF Recheck, RequestTypeOK
  <2>4. QED
    BY <2>2, <2>3
<1>4. ASSUME Resume(c)
      PROVE  Settled /\ RequestTypeOK' /\ (Leaked' => Leaked)
  <2>1. "posting" \in Phases /\ ("posting" \in OwnPhases <=> Owns(c))
    BY <1>4 DEF Resume, Phases, OwnPhases, Owns
  <2>2. Settled /\ (Leaked' => Leaked)
    BY <1>4, <2>1, MoveCorrect DEF Resume
  <2>3. QED
    BY <1>0, <1>4, <2>2 DEF Resume, RequestTypeOK
<1>5. ASSUME \/ Finish(c) \/ CancelHolder(c)
             \/ Unwind(c) /\ pc[c] = "revoked"
      PROVE  Settled /\ RequestTypeOK' /\ (Leaked' => HandedToCancelled)
  <2>1. Owns(c) /\ Release(c) /\ UNCHANGED tier
    BY <1>5 DEF Finish, CancelHolder, Unwind, Owns
  <2>2. Settled /\ (Leaked' => HandedToCancelled)
    BY <2>1, ReleaseCorrect
  <2>3. /\ UNCHANGED <<tier, attempt, backoff>>
        /\ sleeping' = [sleeping EXCEPT ![c] = 0] \/ UNCHANGED sleeping
    BY <1>5 DEF Finish, CancelHolder, Unwind
  <2>4. QED
    BY <1>0, <2>2, <2>3 DEF RequestTypeOK
<1>6. ASSUME NEW d \in Delays, Retry(c, d)
      PROVE  Settled /\ RequestTypeOK' /\ (Leaked' => Leaked)
  <2>1. "retrying" \in Phases /\ ("retrying" \in OwnPhases <=> Owns(c))
    BY <1>6 DEF Retry, Phases, OwnPhases, Owns
  <2>2. Settled /\ (Leaked' => Leaked)
    BY <1>6, <2>1, MoveCorrect DEF Retry
  <2>3. d \in Nat
    BY <1>0 DEF GateAssumption
  <2>4. RequestTypeOK'
    BY <1>0, <1>6, <2>3 DEF Retry, RequestTypeOK
  <2>5. QED
    BY <2>2, <2>4
<1>7. ASSUME Repost(c)
      PROVE  Settled /\ RequestTypeOK' /\ (Leaked' => Leaked)
  <2>1. "posting" \in Phases /\ ("posting" \in OwnPhases <=> Owns(c))
    BY <1>7 DEF Repost, Phases, OwnPhases, Owns
  <2>2. Settled /\ (Leaked' => Leaked)
    BY <1>7, <2>1, MoveCorrect DEF Repost
  <2>3. QED
    BY <1>0, <1>7, <2>2 DEF Repost, RequestTypeOK
<1>8. ASSUME CancelWaiting(c)
      PROVE  Settled /\ RequestTypeOK' /\ (Leaked' => Leaked)
  <2> DEFINE p == IF pc[c] = "queued" THEN "cancelled" ELSE "revoked"
  <2>1. /\ p \in Phases /\ (p \in OwnPhases <=> Owns(c))
        /\ pc[c] \in {"queued", "cancelled"} => p = "cancelled"
        /\ pc' = [pc EXCEPT ![c] = p]
    BY <1>8 DEF CancelWaiting, Phases, OwnPhases, Owns
  <2> HIDE DEF p
  <2>2. Settled /\ (Leaked' => Leaked)
    BY <1>8, <2>1, MoveCorrect DEF CancelWaiting
  <2>3. QED
    BY <1>0, <1>8, <2>2 DEF CancelWaiting, RequestTypeOK
<1>9. ASSUME CancelEarly(c)
      PROVE  Settled /\ RequestTypeOK' /\ (Leaked' => Leaked)
  <2>1. "idle" \in Phases /\ ("idle" \in OwnPhases <=> Owns(c))
    BY <1>9 DEF CancelEarly, Phases, OwnPhases, Owns
  <2>2. Settled /\ (Leaked' => Leaked)
    BY <1>9, <2>1, MoveCorrect DEF CancelEarly
  <2>3. QED
    BY <1>0, <1>9, <2>2 DEF CancelEarly, RequestTypeOK
<1>10. ASSUME Unwind(c), pc[c] = "cancelled"
       PROVE  Settled /\ RequestTypeOK' /\ (Leaked' => Leaked)
  <2>1. RequestTypeOK' /\ UNCHANGED <<tier, locked, current>>
        /\ pc' = [pc EXCEPT ![c] = "idle"]
    BY <1>0, <1>10 DEF Unwind, RequestTypeOK
  <2>2. Leaked' => Leaked
    BY <1>0, <1>10, <2>1 DEF Leaked, Owns, TypeOK
  <2>3. CASE Contains(waiters[tier[c]], c)
    <3>1. PICK i \in 1..Len(waiters[tier[c]]) :
             /\ waiters[tier[c]][i] = c
             /\ waiters' = [waiters EXCEPT ![tier[c]] = RemoveAt(@, i)]
      BY <1>10, <2>3 DEF Unwind
    <3>2. Settled
      BY <1>10, <2>1, <3>1, WithdrawCorrect
    <3>3. QED
      BY <2>1, <2>2, <3>2
  <2>4. CASE ~Contains(waiters[tier[c]], c)
    <3>1. UNCHANGED waiters
      BY <1>10, <2>4 DEF Unwind, Contains
    <3>2. "idle" \in Phases /\ ("idle" \in OwnPhases <=> Owns(c))
      BY <1>10 DEF Phases, OwnPhases, Owns
    <3>3. Settled
      BY <2>1, <2>4, <3>1, <3>2, MoveCorrect
    <3>4. QED
      BY <2>1, <2>2, <3>3
  <2>5. QED
    BY <2>3, <2>4
<1>11. Unwind(c) => pc[c] \in {"cancelled", "revoked"}
  BY DEF Unwind
<1>12. QED
  BY <1>2, <1>3, <1>4, <1>5, <1>6, <1>7, <1>8, <1>9, <1>10, <1>11, SettledIsIInv

LEMMA NextStep ==
    ASSUME IInv, [Next]_vars
    PROVE  IInv' /\ (~Leaked /\ Leaked' => HandedToCancelled)
<1>1. CASE Tick
  <2>1. UNCHANGED <<pc, tier, attempt, waiters, locked, current>>
        /\ backoff' \in Nat /\ sleeping' \in [Callers -> Nat]
    BY <1>1 DEF Tick, IInv, TypeOK
  <2>2. QED
    BY <2>1 DEF IInv, TypeOK, SinglePermit, NoIdlePermit, QueuesSound, Sound, Leaked, Owns
<1>2. CASE UNCHANGED vars
  BY <1>2 DEF vars, IInv, TypeOK, SinglePermit, NoIdlePermit, QueuesSound, Sound, Leaked, Owns
<1>3. CASE Next /\ ~Tick
  BY <1>3, CallerStep DEF Next
<1>4. QED
  BY <1>1, <1>2, <1>3

LEMMA InitIInv == Init => IInv
<1> SUFFICES ASSUME Init PROVE IInv
  OBVIOUS
<1>1. TypeOK
  <2>1. waiters \in [Tiers -> Seq(Callers)]
    BY DEF Init
  <2>2. 0 \in 0..MaxRetries
    BY GateAssumption DEF GateAssumption
  <2>3. QED
    BY <2>1, <2>2 DEF Init, TypeOK, Phases, Tiers, TIER_BACKGROUND
<1>2. SinglePermit /\ NoIdlePermit
  BY DEF Init, SinglePermit, NoIdlePermit, Owns
<1>3. QueuesSound
  <2>1. \A t \in Tiers : Len(waiters[t]) = 0
    BY DEF Init
  <2>2. QED
    BY <2>1 DEF QueuesSound, Sound
<1>4. QED
  BY <1>1, <1>2, <1>3 DEF IInv

-----------------------------------------------------------------------------
\* Every reachable state of the gate satisfies the inductive invariant, and
\* with it the types declared for its variables.
THEOREM GateInvariant == Spec => []IInv
<1>1. IInv /\ [Next]_vars => IInv'
  BY NextStep
<1>2. QED
  BY InitIInv, <1>1, PTL DEF Spec

\* The gate's variables keep their types.
THEOREM GateTypes == Spec => []TypeOK
  BY GateInvariant, PTL DEF IInv

\* One request in flight, and the one reported, for any number of callers, any
\* retry limit and any interleaving of grants, retries and cancellations.
THEOREM OnePermit == Spec => []SinglePermit
  BY GateInvariant, PTL DEF IInv

\* No wake-up is lost: the permit is free only when nobody is queued.
THEOREM NoLostWakeup == Spec => []NoIdlePermit
  BY GateInvariant, PTL DEF IInv

\* The only step that orphans the permit hands it to a caller cancelled in
\* its queue before that caller's except clause has run.
THEOREM OnlyLeak == Spec => LeakOnlyByCancelledWaiter
<1>1. IInv /\ [Next]_vars => [~Leaked /\ Leaked' => HandedToCancelled]_vars
  BY NextStep
<1>2. QED
  BY GateInvariant, <1>1, PTL DEF Spec, LeakOnlyByCancelledWaiter, HandedToCancelled
-----------------------------------------------------------------------------
\* A queued caller stands in the queue of its tier, which is what a grant is
\* ordered by.
QueuedWaits == \A c \in Callers : pc[c] = "queued" => Contains(waiters[tier[c]], c)

\* c is before d in one of the queues q.
InOrder(q, c, d) ==
    \E t \in Tiers : \E i, j \in 1..Len(q[t]) : i < j /\ q[t][i] = c /\ q[t][j] = d

\* c heads the most urgent of the queues q that has anybody in it.
FirstInLine(q, c) ==
    \E t \in Tiers :
        q[t] # <<>> /\ c = q[t][1] /\ \A u \in Tiers : u < t => q[u] = <<>>

\* Who is granted the permit, who keeps its place, and who arrives.
GrantsInOrder ==
    \A c, d \in Callers :
        /\ pc[c] = "queued" /\ pc'[c] = "granted"
        /\ d # c /\ pc[d] = "queued"
        => tier[c] < tier[d] \/ (tier[c] = tier[d] /\ Ahead(c, d))

KeepsOrder ==
    \A c, d \in Callers :
        /\ pc[c] = "queued" /\ pc'[c] = "queued"
        /\ pc'[d] = "queued" /\ Ahead(d, c)'
        => Ahead(d, c)

ArrivesLate ==
    \A c \in Callers :
        /\ pc[c] \in {"idle", "waitingOut"}
        /\ pc'[c] \notin {"idle", "waitingOut"}
        => backoff = 0

StepOrdered == QueuedWaits' /\ GrantsInOrder /\ KeepsOrder /\ ArrivesLate

\* A dispatch wakes the head of the first queue, or nobody, and takes no caller
\* that stays queued out of its place.
LEMMA DispatchOrder ==
    ASSUME NEW q \in [Tiers -> Seq(Callers)], NEW st \in [Callers -> Phases],
           NEW woken \in {"granted", "posting"}, Dispatch(q, st, woken)
    PROVE  /\ \A c \in Callers :
                 \/ pc'[c] = st[c]
                 \/ st[c] = "queued" /\ pc'[c] = woken /\ FirstInLine(q, c)
           /\ \A c, d \in Callers : InOrder(waiters', c, d) => InOrder(q, c, d)
           /\ \A c \in Callers, t \in Tiers :
                 pc'[c] = "queued" /\ Contains(q[t], c) => Contains(waiters'[t], c)
<1>1. CASE waiters' = q /\ pc' = st
  BY <1>1
<1>2. ASSUME NEW t \in Tiers, q[t] # <<>>,
             \A u \in Tiers : u < t => q[u] = <<>>,
             waiters' = [q EXCEPT ![t] = Tail(q[t])],
             pc' = IF st[Head(q[t])] = "queued"
                   THEN [st EXCEPT ![Head(q[t])] = woken] ELSE st
      PROVE  /\ \A c \in Callers :
                   \/ pc'[c] = st[c]
                   \/ st[c] = "queued" /\ pc'[c] = woken /\ c = q[t][1]
             /\ \A c, d \in Callers : InOrder(waiters', c, d) => InOrder(q, c, d)
             /\ \A c \in Callers, u \in Tiers :
                   pc'[c] = "queued" /\ Contains(q[u], c) => Contains(waiters'[u], c)
  <2>1. /\ q[t] \in Seq(Callers) /\ Len(q[t]) \in Nat /\ 1 \in 1..Len(q[t])
        /\ Head(q[t]) = q[t][1] /\ q[t][1] \in Callers
        /\ Len(Tail(q[t])) = Len(q[t]) - 1
        /\ \A i \in 1..Len(q[t]) - 1 : Tail(q[t])[i] = q[t][i + 1]
    BY <1>2
  <2>2. waiters'[t] = Tail(q[t]) /\ \A u \in Tiers : u # t => waiters'[u] = q[u]
    BY <1>2
  <2>3. /\ pc'[q[t][1]] # "queued"
        /\ \A c \in Callers :
              pc'[c] = st[c] \/ (st[c] = "queued" /\ pc'[c] = woken /\ c = q[t][1])
    <3>1. CASE st[q[t][1]] = "queued"
      <4>1. pc' = [st EXCEPT ![q[t][1]] = woken]
        BY <1>2, <2>1, <3>1
      <4>2. woken # "queued"
        OBVIOUS
      <4> QED BY <2>1, <3>1, <4>1, <4>2
    <3>2. CASE st[q[t][1]] # "queued"
      <4>1. pc' = st
        BY <1>2, <2>1, <3>2
      <4> QED BY <3>2, <4>1
    <3> QED BY <3>1, <3>2
  <2>4. ASSUME NEW c \in Callers, NEW d \in Callers, InOrder(waiters', c, d)
        PROVE  InOrder(q, c, d)
    <3>0. PICK u \in Tiers : \E i, j \in 1..Len(waiters'[u]) :
                i < j /\ waiters'[u][i] = c /\ waiters'[u][j] = d
      BY <2>4 DEF InOrder
    <3>1. PICK i \in 1..Len(waiters'[u]), j \in 1..Len(waiters'[u]) :
                i < j /\ waiters'[u][i] = c /\ waiters'[u][j] = d
      BY <3>0
    <3>2. CASE u # t
      BY <2>2, <3>1, <3>2 DEF InOrder
    <3>3. CASE u = t
      <4>0. /\ i \in 1..Len(Tail(q[t])) /\ j \in 1..Len(Tail(q[t]))
            /\ i < j /\ Tail(q[t])[i] = c /\ Tail(q[t])[j] = d
        BY <2>2, <3>1, <3>3
      <4>1. /\ i \in 1..Len(q[t]) - 1 /\ j \in 1..Len(q[t]) - 1
            /\ i < j /\ q[t][i + 1] = c /\ q[t][j + 1] = d
        BY <2>1, <4>0
      <4>2. i + 1 \in 1..Len(q[t]) /\ j + 1 \in 1..Len(q[t]) /\ i + 1 < j + 1
        BY <2>1, <4>1
      <4> QED BY <4>1, <4>2 DEF InOrder
    <3> QED BY <3>2, <3>3
  <2>5. ASSUME NEW c \in Callers, NEW u \in Tiers, pc'[c] = "queued", Contains(q[u], c)
        PROVE  Contains(waiters'[u], c)
    <3>1. CASE u # t
      BY <2>2, <2>5, <3>1
    <3>2. CASE u = t
      <4>1. PICK i \in 1..Len(q[t]) : q[t][i] = c
        BY <2>5, <3>2 DEF Contains
      <4>2. i # 1
        BY <2>3, <2>5, <4>1
      <4>3. i - 1 \in 1..Len(q[t]) - 1 /\ (i - 1) + 1 = i
        BY <2>1, <4>2
      <4>4. Tail(q[t])[i - 1] = c
        BY <2>1, <4>1, <4>3
      <4> QED BY <2>1, <2>2, <3>2, <4>3, <4>4 DEF Contains
    <3> QED BY <3>1, <3>2
  <2> QED BY <2>3, <2>4, <2>5
<1> QED BY <1>1, <1>2 DEF Dispatch, FirstInLine

\* The owner releases the permit to the first of the most urgent queue.
LEMMA ReleaseOrder ==
    ASSUME IInv, QueuedWaits, NEW x \in Callers, Owns(x), Release(x), UNCHANGED tier
    PROVE  StepOrdered
<1> DEFINE st == [pc EXCEPT ![x] = "idle"]
<1>1. /\ st \in [Callers -> Phases] /\ st[x] = "idle"
      /\ \A c \in Callers : c # x => st[c] = pc[c]
      /\ pc[x] \notin {"idle", "waitingOut", "queued"}
  BY DEF IInv, TypeOK, Phases, Owns
<1>2. waiters \in [Tiers -> Seq(Callers)] /\ tier \in [Callers -> Tiers]
  BY DEF IInv, TypeOK
<1>3. Dispatch(waiters, st, "granted")
  BY DEF Release
<1> HIDE DEF st
<1>4. /\ \A c \in Callers :
            \/ pc'[c] = st[c]
            \/ st[c] = "queued" /\ pc'[c] = "granted" /\ FirstInLine(waiters, c)
      /\ \A c, d \in Callers : InOrder(waiters', c, d) => InOrder(waiters, c, d)
      /\ \A c \in Callers, t \in Tiers :
            pc'[c] = "queued" /\ Contains(waiters[t], c) => Contains(waiters'[t], c)
  BY <1>1, <1>2, <1>3, DispatchOrder
<1>5. QueuedWaits'
  BY <1>1, <1>2, <1>4 DEF QueuedWaits
<1>6. KeepsOrder
  <2>1. \A c, d \in Callers : InOrder(waiters', c, d) => InOrder(waiters, c, d)
    BY <1>4
  <2> QED BY <2>1 DEF KeepsOrder, Ahead, InOrder
<1>7. ArrivesLate
  BY <1>1, <1>4 DEF ArrivesLate
<1>8. GrantsInOrder
  <2> SUFFICES ASSUME NEW c \in Callers, NEW d \in Callers,
                      pc[c] = "queued", pc'[c] = "granted", d # c, pc[d] = "queued"
               PROVE  tier[c] < tier[d] \/ (tier[c] = tier[d] /\ Ahead(c, d))
    BY DEF GrantsInOrder
  <2>1. PICK t \in Tiers :
            waiters[t] # <<>> /\ c = waiters[t][1] /\ \A u \in Tiers : u < t => waiters[u] = <<>>
    BY <1>1, <1>4 DEF FirstInLine
  <2>2. waiters[t] \in Seq(Callers) /\ Len(waiters[t]) \in Nat /\ 1 \in 1..Len(waiters[t])
    BY <1>2, <2>1
  <2>3. tier[c] = t
    BY <2>1, <2>2 DEF IInv, QueuesSound, Sound
  <2>4. PICK j \in 1..Len(waiters[tier[d]]) : waiters[tier[d]][j] = d
    BY DEF QueuedWaits, Contains
  <2>5. tier[d] \in Tiers /\ waiters[tier[d]] # <<>>
    BY <1>2, <2>4
  <2>6. ~(tier[d] < t)
    BY <2>1, <2>5
  <2>7. t \in Nat /\ tier[d] \in Nat
    BY <2>5 DEF Tiers, TIER_FOREGROUND, TIER_FRESHNESS, TIER_BACKGROUND
  <2>8. CASE tier[d] = t
    <3>1. 1 < j
      BY <2>1, <2>2, <2>4, <2>8
    <3> QED BY <2>1, <2>2, <2>3, <2>4, <2>8, <3>1 DEF Ahead
  <2> QED BY <2>3, <2>6, <2>7, <2>8
<1> QED BY <1>5, <1>6, <1>7, <1>8 DEF StepOrdered

\* A newcomer joins behind those who wait, and only when no deadline lies ahead.
LEMMA EnqueueOrder ==
    ASSUME IInv, QueuedWaits, NEW x \in Callers, NEW t \in Tiers,
           pc[x] \in {"idle", "waitingOut"}, backoff = 0,
           tier' = [tier EXCEPT ![x] = t],
           Enqueue(x, t)
    PROVE  StepOrdered
<1> DEFINE q  == [waiters EXCEPT ![t] = Append(@, x)]
           st == [pc EXCEPT ![x] = "queued"]
<1>1. /\ st \in [Callers -> Phases] /\ st[x] = "queued"
      /\ \A c \in Callers : c # x => st[c] = pc[c]
  BY DEF IInv, TypeOK, Phases
<1>2. /\ q \in [Tiers -> Seq(Callers)]
      /\ waiters \in [Tiers -> Seq(Callers)]
      /\ \A u \in Tiers : u # t => q[u] = waiters[u]
      /\ Len(waiters[t]) \in Nat /\ Len(q[t]) = Len(waiters[t]) + 1
      /\ q[t][Len(waiters[t]) + 1] = x
      /\ \A i \in 1..Len(waiters[t]) : q[t][i] = waiters[t][i]
  BY DEF IInv, TypeOK
<1>3. /\ tier'[x] = t /\ tier' \in [Callers -> Tiers]
      /\ \A c \in Callers : c # x => tier'[c] = tier[c]
  BY DEF IInv, TypeOK
<1>4. \A c, d \in Callers : pc[c] = "queued" /\ InOrder(q, d, c) => InOrder(waiters, d, c)
  <2> SUFFICES ASSUME NEW c \in Callers, NEW d \in Callers, pc[c] = "queued",
                      NEW u \in Tiers, NEW i \in 1..Len(q[u]), NEW j \in 1..Len(q[u]),
                      i < j, q[u][i] = d, q[u][j] = c
               PROVE  InOrder(waiters, d, c)
    BY DEF InOrder
  <2>1. CASE u # t
    BY <1>2, <2>1 DEF InOrder
  <2>2. CASE u = t
    <3>1. j # Len(waiters[t]) + 1
      BY <1>2, <2>2
    <3>2. i \in 1..Len(waiters[t]) /\ j \in 1..Len(waiters[t])
      BY <1>2, <2>2, <3>1
    <3> QED BY <1>2, <2>2, <3>2 DEF InOrder
  <2> QED BY <2>1, <2>2
<1>5. \A c \in Callers : st[c] = "queued" => Contains(q[tier'[c]], c)
  <2>1. Contains(q[t], x)
    BY <1>2 DEF Contains
  <2>2. ASSUME NEW c \in Callers, c # x, pc[c] = "queued"
        PROVE  Contains(q[tier[c]], c)
    <3>1. PICK i \in 1..Len(waiters[tier[c]]) : waiters[tier[c]][i] = c
      BY <2>2 DEF QueuedWaits, Contains
    <3>2. CASE tier[c] = t
      <4>1. i \in 1..Len(q[t]) /\ q[t][i] = c
        BY <1>2, <3>1, <3>2
      <4> QED BY <3>2, <4>1 DEF Contains
    <3>3. CASE tier[c] # t
      <4>1. tier[c] \in Tiers
        BY DEF IInv, TypeOK
      <4> QED BY <1>2, <3>1, <3>3, <4>1 DEF Contains
    <3> QED BY <3>2, <3>3
  <2> QED BY <1>1, <1>3, <2>1, <2>2
<1>6. \/ waiters' = q /\ pc' = st
      \/ Dispatch(q, st, "posting")
  BY DEF Enqueue
<1> HIDE DEF q, st
<1>7. CASE waiters' = q /\ pc' = st
  <2>1. QueuedWaits'
    BY <1>5, <1>7 DEF QueuedWaits
  <2>2. GrantsInOrder
    BY <1>1, <1>7 DEF GrantsInOrder
  <2>3. KeepsOrder
    BY <1>4, <1>7 DEF KeepsOrder, Ahead, InOrder
  <2> QED BY <2>1, <2>2, <2>3 DEF StepOrdered, ArrivesLate
<1>8. CASE Dispatch(q, st, "posting")
  <2>1. /\ \A c \in Callers : pc'[c] = st[c] \/ pc'[c] = "posting"
        /\ \A c, d \in Callers : InOrder(waiters', c, d) => InOrder(q, c, d)
        /\ \A c \in Callers, u \in Tiers :
              pc'[c] = "queued" /\ Contains(q[u], c) => Contains(waiters'[u], c)
    <3>1. "posting" \in {"granted", "posting"}
      OBVIOUS
    <3>2. /\ \A c \in Callers :
                \/ pc'[c] = st[c]
                \/ st[c] = "queued" /\ pc'[c] = "posting" /\ FirstInLine(q, c)
          /\ \A c, d \in Callers : InOrder(waiters', c, d) => InOrder(q, c, d)
          /\ \A c \in Callers, u \in Tiers :
                pc'[c] = "queued" /\ Contains(q[u], c) => Contains(waiters'[u], c)
      BY <1>1, <1>2, <1>8, <3>1, DispatchOrder
    <3> QED BY <3>2
  <2>2. QueuedWaits'
    BY <1>3, <1>5, <2>1 DEF QueuedWaits
  <2>3. GrantsInOrder
    BY <1>1, <2>1 DEF GrantsInOrder
  <2>4. KeepsOrder
    BY <1>4, <2>1 DEF KeepsOrder, Ahead, InOrder
  <2> QED BY <2>2, <2>3, <2>4 DEF StepOrdered, ArrivesLate
<1> QED BY <1>6, <1>7, <1>8

\* A caller that leaves its queue, or moves outside the queues, changes nobody
\* else's place.
LEMMA MoveOrder ==
    ASSUME IInv, QueuedWaits, NEW x \in Callers, NEW p,
           pc' = [pc EXCEPT ![x] = p],
           p \notin {"queued"}, pc[x] = "queued" => p # "granted",
           pc[x] \in {"idle", "waitingOut"} => p \in {"idle", "waitingOut"},
           tier' \in [Callers -> Tiers], \A c \in Callers \ {x} : tier'[c] = tier[c],
           \/ UNCHANGED waiters
           \/ \E i \in 1..Len(waiters[tier[x]]) :
                 /\ waiters[tier[x]][i] = x
                 /\ waiters' = [waiters EXCEPT ![tier[x]] = RemoveAt(@, i)]
    PROVE  StepOrdered
<1>1. /\ pc'[x] = p /\ \A c \in Callers : c # x => pc'[c] = pc[c]
      /\ waiters \in [Tiers -> Seq(Callers)] /\ tier[x] \in Tiers
      /\ tier \in [Callers -> Tiers]
  BY DEF IInv, TypeOK
<1>2. /\ \A c, d \in Callers : InOrder(waiters', c, d) => InOrder(waiters, c, d)
      /\ \A c \in Callers, t \in Tiers :
            c # x /\ Contains(waiters[t], c) => Contains(waiters'[t], c)
  <2>1. CASE UNCHANGED waiters
    BY <2>1
  <2>2. ASSUME NEW i \in 1..Len(waiters[tier[x]]), waiters[tier[x]][i] = x,
               waiters' = [waiters EXCEPT ![tier[x]] = RemoveAt(@, i)]
        PROVE  /\ \A c, d \in Callers : InOrder(waiters', c, d) => InOrder(waiters, c, d)
               /\ \A c \in Callers, t \in Tiers :
                     c # x /\ Contains(waiters[t], c) => Contains(waiters'[t], c)
    <3> DEFINE t == tier[x]
               s == waiters[t]
               r == RemoveAt(s, i)
    <3>1. /\ s \in Seq(Callers) /\ Len(s) \in Nat /\ i \in 1..Len(s) /\ s[i] = x
          /\ t \in Tiers
      BY <1>1, <2>2
    <3>2. /\ Len(r) = Len(s) - 1
          /\ \A k \in 1..Len(s) - 1 : r[k] = IF k < i THEN s[k] ELSE s[k + 1]
      BY <3>1, RemoveAtFacts
    <3>3. waiters'[t] = r /\ \A u \in Tiers : u # t => waiters'[u] = waiters[u]
      BY <1>1, <2>2
    <3>4. s = waiters[t]
      OBVIOUS
    <3> HIDE DEF t, s, r
    <3>5. ASSUME NEW c \in Callers, NEW d \in Callers, NEW u \in Tiers,
                 NEW j \in 1..Len(waiters'[u]), NEW k \in 1..Len(waiters'[u]),
                 j < k, waiters'[u][j] = c, waiters'[u][k] = d
          PROVE  InOrder(waiters, c, d)
      <4>1. CASE u # t
        BY <3>3, <3>5, <4>1 DEF InOrder
      <4>2. CASE u = t
        <5> DEFINE jj == IF j < i THEN j ELSE j + 1
                   kk == IF k < i THEN k ELSE k + 1
        <5>1. jj \in 1..Len(s) /\ kk \in 1..Len(s) /\ jj < kk
          BY <3>1, <3>2, <3>3, <3>5, <4>2
        <5>2. s[jj] = c /\ s[kk] = d
          BY <3>1, <3>2, <3>3, <3>5, <4>2
        <5> QED BY <3>1, <3>4, <5>1, <5>2 DEF InOrder
      <4> QED BY <4>1, <4>2
    <3>6. ASSUME NEW c \in Callers, NEW u \in Tiers, c # x,
                 NEW k \in 1..Len(waiters[u]), waiters[u][k] = c
          PROVE  Contains(waiters'[u], c)
      <4>1. CASE u # t
        BY <3>3, <3>6, <4>1 DEF Contains
      <4>2. CASE u = t
        <5>1. k \in 1..Len(s) /\ s[k] = c /\ k # i
          BY <3>1, <3>4, <3>6, <4>2
        <5> DEFINE kk == IF k < i THEN k ELSE k - 1
        <5>2. kk \in 1..Len(r) /\ r[kk] = c
          BY <3>1, <3>2, <5>1
        <5> QED BY <3>3, <4>2, <5>2 DEF Contains
      <4> QED BY <4>1, <4>2
    <3> QED BY <3>5, <3>6 DEF InOrder, Contains
  <2> QED BY <2>1, <2>2
<1>3. QueuedWaits'
  BY <1>1, <1>2 DEF QueuedWaits
<1>4. GrantsInOrder
  BY <1>1 DEF GrantsInOrder
<1>5. KeepsOrder
  BY <1>2 DEF KeepsOrder, Ahead, InOrder
<1>6. ArrivesLate
  BY <1>1 DEF ArrivesLate
<1> QED BY <1>3, <1>4, <1>5, <1>6 DEF StepOrdered

\* Every step keeps the order of the queues and the deadline.
LEMMA OrderStep == IInv /\ QueuedWaits /\ [Next]_vars => StepOrdered
<1> SUFFICES ASSUME IInv, QueuedWaits, [Next]_vars PROVE StepOrdered
  OBVIOUS
<1>0. tier \in [Callers -> Tiers] /\ pc \in [Callers -> Phases] /\ backoff \in Nat
  BY DEF IInv, TypeOK
<1>1. ASSUME NEW c \in Callers, NEW t \in Tiers,
             pc[c] \in {"idle", "waitingOut"},
             tier' = [tier EXCEPT ![c] = t],
             WaitOutOrEnqueue(c, t)
      PROVE  StepOrdered
  <2>1. CASE backoff > 0
    BY <1>0, <1>1, <2>1, MoveOrder DEF WaitOutOrEnqueue
  <2>2. CASE backoff = 0
    <3>1. Enqueue(c, t)
      BY <1>1, <2>2 DEF WaitOutOrEnqueue
    <3> QED BY <1>1, <2>2, <3>1, EnqueueOrder
  <2>3. backoff > 0 \/ backoff = 0
    BY <1>0
  <2> QED BY <2>1, <2>2, <2>3
<1>2. ASSUME NEW c \in Callers, NEW t \in Tiers, Request(c, t)
      PROVE  StepOrdered
  BY <1>1, <1>2 DEF Request
<1>3. ASSUME NEW c \in Callers, Recheck(c)
      PROVE  StepOrdered
  <2>1. tier[c] \in Tiers /\ tier' = [tier EXCEPT ![c] = tier[c]]
    BY <1>0, <1>3 DEF Recheck
  <2> QED BY <1>1, <1>3, <2>1 DEF Recheck
<1>4. ASSUME NEW c \in Callers,
             Finish(c) \/ CancelHolder(c) \/ (Unwind(c) /\ pc[c] = "revoked")
      PROVE  StepOrdered
  <2>1. Owns(c) /\ Release(c) /\ UNCHANGED tier
    BY <1>4 DEF Finish, CancelHolder, Unwind, Owns
  <2> QED BY <2>1, ReleaseOrder
<1>5. ASSUME NEW c \in Callers,
             Resume(c) \/ (\E d \in Delays : Retry(c, d)) \/ Repost(c)
      PROVE  StepOrdered
  <2>1. /\ pc[c] \in {"granted", "posting", "retrying"} /\ UNCHANGED <<tier, waiters>>
        /\ \E p \in {"posting", "retrying"} : pc' = [pc EXCEPT ![c] = p]
    BY <1>5 DEF Resume, Retry, Repost
  <2> QED BY <1>0, <2>1, MoveOrder
<1>6. ASSUME NEW c \in Callers, CancelWaiting(c) \/ CancelEarly(c)
      PROVE  StepOrdered
  <2>1. CASE CancelWaiting(c)
    <3>1. \E p \in {"cancelled", "revoked"} : pc' = [pc EXCEPT ![c] = p]
      BY <2>1 DEF CancelWaiting
    <3> QED BY <1>0, <2>1, <3>1, MoveOrder DEF CancelWaiting
  <2>2. CASE CancelEarly(c)
    BY <1>0, <2>2, MoveOrder DEF CancelEarly
  <2> QED BY <1>6, <2>1, <2>2
<1>7. ASSUME NEW c \in Callers, Unwind(c), pc[c] = "cancelled"
      PROVE  StepOrdered
  <2>1. /\ pc' = [pc EXCEPT ![c] = "idle"] /\ UNCHANGED tier
        /\ \/ UNCHANGED waiters
           \/ \E i \in 1..Len(waiters[tier[c]]) :
                 /\ waiters[tier[c]][i] = c
                 /\ waiters' = [waiters EXCEPT ![tier[c]] = RemoveAt(@, i)]
    BY <1>7 DEF Unwind
  <2>2. "idle" \notin {"queued"} /\ pc[c] # "queued" /\ pc[c] \notin {"idle", "waitingOut"}
    BY <1>7
  <2>3. tier' \in [Callers -> Tiers] /\ \A d \in Callers \ {c} : tier'[d] = tier[d]
    BY <1>0, <2>1
  <2> QED BY <2>1, <2>2, <2>3, MoveOrder
<1>8. CASE Tick \/ UNCHANGED vars
  <2>1. UNCHANGED <<pc, tier, waiters>>
    BY <1>8 DEF Tick, vars
  <2> QED
    BY <2>1 DEF StepOrdered, QueuedWaits, GrantsInOrder, KeepsOrder, ArrivesLate, Ahead
<1>9. ASSUME NEW c \in Callers, Unwind(c)
      PROVE  StepOrdered
  <2>1. pc[c] = "cancelled" \/ pc[c] = "revoked"
    BY <1>9 DEF Unwind
  <2> QED BY <1>4, <1>7, <1>9, <2>1
<1>10. ASSUME NEW c \in Callers,
              \/ \E t \in Tiers : Request(c, t)
              \/ Recheck(c)
              \/ Resume(c)
              \/ Finish(c)
              \/ \E d \in Delays : Retry(c, d)
              \/ Repost(c)
              \/ CancelWaiting(c)
              \/ CancelEarly(c)
              \/ CancelHolder(c)
              \/ Unwind(c)
       PROVE  StepOrdered
  <2>1. CASE \E t \in Tiers : Request(c, t)
    BY <1>2, <2>1
  <2>2. CASE Recheck(c)
    BY <1>3, <2>2
  <2>3. CASE Finish(c) \/ CancelHolder(c)
    BY <1>4, <2>3
  <2>4. CASE Resume(c) \/ (\E d \in Delays : Retry(c, d)) \/ Repost(c)
    BY <1>5, <2>4
  <2>5. CASE CancelWaiting(c) \/ CancelEarly(c)
    BY <1>6, <2>5
  <2>6. CASE Unwind(c)
    BY <1>9, <2>6
  <2> QED BY <1>10, <2>1, <2>2, <2>3, <2>4, <2>5, <2>6
<1> QED BY <1>8, <1>10 DEF Next

LEMMA OrderInvariant == Spec => [](IInv /\ QueuedWaits)
<1>1. Init => QueuedWaits
  BY DEF Init, QueuedWaits
<1>2. StepOrdered => QueuedWaits'
  BY DEF StepOrdered
<1> QED BY <1>1, <1>2, OrderStep, GateInvariant, PTL DEF Spec

\* Grants go by tier and then by arrival, whoever is cancelled in between, and
\* no step of _dispatch, acquire or its except clause reorders those who stay.
THEOREM NobodyOvertakes == Spec => NoOvertaking
<1>1. StepOrdered => [GrantsInOrder /\ KeepsOrder]_vars
  BY DEF StepOrdered
<1> QED
  BY <1>1, OrderStep, OrderInvariant, PTL DEF Spec, NoOvertaking, GrantsInOrder, KeepsOrder

\* No arrival passes a deadline that lies ahead: _wait_out_shared_backoff reads
\* it again after every sleep, and whoever is let through queues in that step.
THEOREM ArrivalsHeldBack == Spec => BackoffHoldsArrivals
<1>1. StepOrdered => [ArrivesLate]_vars
  BY DEF StepOrdered
<1> QED
  BY <1>1, OrderStep, OrderInvariant, PTL DEF Spec, BackoffHoldsArrivals, ArrivesLate
=============================================================================
