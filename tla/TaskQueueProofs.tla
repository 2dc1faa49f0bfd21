-------------------------- MODULE TaskQueueProofs --------------------------
(***************************************************************************)
(* Proofs about TaskQueue, for every finite set of ids and any number of   *)
(* clients, sessions and workers, every capacity, TTL and lease.           *)
(***************************************************************************)
EXTENDS TaskQueue, SequenceTheorems, FiniteSetTheorems, TLAPS

-----------------------------------------------------------------------------
(* What the deque operations do to the set of ids in the deque *)

\* pop_front of a deque without repetitions takes exactly the front id out.
LEMMA TailFacts ==
  ASSUME NEW S, NEW s \in Seq(S), s # <<>>, IsInjective(s)
  PROVE  /\ Tail(s) \in Seq(S)
         /\ IsInjective(Tail(s))
         /\ Head(s) \in S
         /\ Head(s) \in ToSet(s)
         /\ ToSet(Tail(s)) = ToSet(s) \ {Head(s)}
<1>1. /\ Tail(s) \in Seq(S)
      /\ Len(s) \in Nat \ {0}
      /\ Len(Tail(s)) = Len(s) - 1
      /\ \A k \in 1 .. Len(Tail(s)) : Tail(s)[k] = s[k + 1]
      /\ Head(s) = s[1]
      /\ DOMAIN s = 1 .. Len(s)
      /\ DOMAIN Tail(s) = 1 .. Len(Tail(s))
  BY HeadTailProperties, LenProperties, EmptySeq
<1>2. IsInjective(Tail(s))
  BY <1>1 DEF IsInjective
<1>3. Head(s) \in S /\ Head(s) \in ToSet(s)
  BY <1>1, ElementOfSeq DEF ToSet
<1>4. ASSUME NEW x \in ToSet(Tail(s)) PROVE x \in ToSet(s) \ {Head(s)}
  <2>1. PICK k \in 1 .. Len(Tail(s)) : x = s[k + 1]
    BY <1>1, <1>4 DEF ToSet
  <2> QED
    BY <1>1, <2>1 DEF ToSet, IsInjective
<1>5. ASSUME NEW x \in ToSet(s) \ {Head(s)} PROVE x \in ToSet(Tail(s))
  <2>1. PICK k \in 1 .. Len(s) : x = s[k]
    BY <1>1, <1>5 DEF ToSet
  <2>2. k - 1 \in 1 .. Len(Tail(s)) /\ Tail(s)[k - 1] = x
    BY <1>1, <1>5, <2>1
  <2> QED
    BY <1>1, <2>2 DEF ToSet
<1> QED
  BY <1>1, <1>2, <1>3, <1>4, <1>5

\* push_back of a new id.
LEMMA AppendFacts ==
  ASSUME NEW S, NEW s \in Seq(S), NEW x \in S, IsInjective(s), x \notin ToSet(s)
  PROVE  /\ Append(s, x) \in Seq(S)
         /\ IsInjective(Append(s, x))
         /\ ToSet(Append(s, x)) = ToSet(s) \cup {x}
<1>1. /\ Append(s, x) \in Seq(S)
      /\ Len(s) \in Nat
      /\ Len(Append(s, x)) = Len(s) + 1
      /\ \A k \in 1 .. Len(s) : Append(s, x)[k] = s[k]
      /\ Append(s, x)[Len(s) + 1] = x
      /\ DOMAIN s = 1 .. Len(s)
      /\ DOMAIN Append(s, x) = 1 .. Len(s) + 1
  BY AppendProperties, LenProperties
<1>2. IsInjective(Append(s, x))
  BY <1>1 DEF IsInjective, ToSet
<1>3. ToSet(Append(s, x)) = ToSet(s) \cup {x}
  BY <1>1 DEF ToSet
<1> QED
  BY <1>1, <1>2, <1>3

\* push_front of a finite set of new ids, in any order.
LEMMA PushFacts ==
  ASSUME NEW S, NEW s \in Seq(S), NEW T \in SUBSET S, IsFiniteSet(T),
         NEW f \in SetToSeqs(T), IsInjective(s), T \cap ToSet(s) = {}
  PROVE  /\ f \o s \in Seq(S)
         /\ IsInjective(f \o s)
         /\ ToSet(f \o s) \subseteq T \cup ToSet(s)
<1> DEFINE n == Cardinality(T)
<1>1. n \in Nat
  BY FS_CardinalityType
<1>2. f \in [1 .. n -> T] /\ \A i, j \in 1 .. n : i # j => f[i] # f[j]
  BY DEF SetToSeqs
<1> HIDE DEF n
<1>3. f \in Seq(S) /\ Len(f) = n
  BY <1>1, <1>2, IsASeq, LenProperties
<1>4. /\ f \o s \in Seq(S)
      /\ Len(s) \in Nat
      /\ DOMAIN s = 1 .. Len(s)
      /\ DOMAIN (f \o s) = 1 .. n + Len(s)
      /\ \A k \in 1 .. n + Len(s) : (f \o s)[k] = IF k <= n THEN f[k] ELSE s[k - n]
  <2>1. /\ f \o s \in Seq(S)
        /\ Len(f \o s) = Len(f) + Len(s)
        /\ \A k \in 1 .. Len(f) + Len(s) : (f \o s)[k] = IF k <= Len(f) THEN f[k] ELSE s[k - Len(f)]
    BY <1>3, ConcatProperties, Zenon
  <2>2. Len(s) \in Nat /\ DOMAIN s = 1 .. Len(s)
    BY LenProperties, Zenon
  <2>3. DOMAIN (f \o s) = 1 .. Len(f \o s)
    BY <2>1, LenProperties, Zenon
  <2> QED
    BY <1>3, <2>1, <2>2, <2>3, Zenon
<1>5. \A k \in 1 .. n + Len(s) : k > n => k - n \in 1 .. Len(s)
  BY <1>1, <1>4
<1>6. \A k \in 1 .. n : f[k] \in T /\ f[k] \notin ToSet(s)
  BY <1>2
<1>7. \A k \in 1 .. Len(s) : s[k] \in ToSet(s)
  BY <1>4 DEF ToSet
<1>8. IsInjective(f \o s)
  <2> SUFFICES ASSUME NEW a \in 1 .. n + Len(s), NEW b \in 1 .. n + Len(s),
                      (f \o s)[a] = (f \o s)[b]
               PROVE  a = b
    BY <1>4 DEF IsInjective
  <2>1. CASE a <= n /\ b <= n
    BY <2>1, <1>1, <1>2, <1>4
  <2>2. CASE a > n /\ b > n
    <3>1. s[a - n] = s[b - n] /\ a - n \in DOMAIN s /\ b - n \in DOMAIN s
      BY <2>2, <1>1, <1>4, <1>5
    <3> QED
      BY <3>1, <1>1 DEF IsInjective
  <2>3. CASE a <= n /\ b > n
    BY <2>3, <1>1, <1>4, <1>5, <1>6, <1>7
  <2>4. CASE a > n /\ b <= n
    BY <2>4, <1>1, <1>4, <1>5, <1>6, <1>7
  <2> QED
    BY <1>1, <1>4, <2>1, <2>2, <2>3, <2>4
<1>9. ToSet(f \o s) \subseteq T \cup ToSet(s)
  <2> SUFFICES ASSUME NEW k \in 1 .. n + Len(s) PROVE (f \o s)[k] \in T \cup ToSet(s)
    BY <1>4 DEF ToSet
  <2> QED
    BY <1>1, <1>4, <1>5, <1>6, <1>7
<1> QED
  BY <1>4, <1>8, <1>9
-----------------------------------------------------------------------------
(* The inductive invariant *)

\* While a thread is inside prune_all it remembers the operation to resume.
Pruning == {"recycle", "requeue", "discard", "front", "stale", "pop", "remove"}

\* Where a thread may have an id in its hand.
Carrying == {"requeue", "remove", "push", "attempt", "requeue_front"}

\* What the code between two critical sections relies on.
ThreadOK(t) ==
  /\ pc[t] \in Pruning => run[t] \in DOMAIN AfterPrune
  /\ pc[t] \notin Carrying => hand[t] = {}
  /\ pc[t] = "remove" => hand[t] = {seen[t]}
  /\ tnow[t] <= now

ThreadInv == \A t \in Threads : ThreadOK(t)

\* Only a task that was handed out has a claimant.
ClaimInv == \A i \in Ids : phase[i] \in {"absent", "queued", "expired"} => claimant[i] = NoWorker

QueueInv == TypeOK /\ ThreadInv /\ ClaimInv /\ DequeCoherent

\* A new queue satisfies the invariant.
LEMMA QueueInvInit == Init => QueueInv
<1> SUFFICES ASSUME Init PROVE QueueInv
  OBVIOUS
<1> USE DEF Init
<1>1. TypeOK
  BY EmptySeq DEF TypeOK, Phases, Pcs, AfterPrune
<1>2. ThreadInv /\ ClaimInv
  BY DEF ThreadInv, ThreadOK, ClaimInv, Pruning, Carrying
<1>3. DOMAIN deque = {}
  BY EmptySeq, LenProperties
<1>4. DequeCoherent
  BY <1>3 DEF DequeCoherent, IsInjective, ToSet
<1> QED
  BY <1>1, <1>2, <1>4 DEF QueueInv

\* attempt_claim_id only ever sees a queued entry: ClaimAttempt::RequeueFront
\* and the missing entry never happen, so a claim is taken or the task expires.
LEMMA AttemptEffect ==
  ASSUME TypeOK, DequeCoherent, NEW t \in Sessions, ClaimAttempt(t)
  PROVE  \E i \in hand[t], n \in tnow[t] .. now :
           /\ i \in Ids /\ phase[i] = "queued"
           /\ \/ /\ phase' = [phase EXCEPT ![i] = "claimed"]
                 /\ claimant' = [claimant EXCEPT ![i] = WorkerOf[t]]
                 /\ lease' = [lease EXCEPT ![i] = n + Lease]
                 /\ pc' = [pc EXCEPT ![t] = "idle"]
              \/ /\ phase' = [phase EXCEPT ![i] = "expired"]
                 /\ claimant' = claimant /\ lease' = lease
                 /\ pc' = [pc EXCEPT ![t] = "claim"]
           /\ hand' = [hand EXCEPT ![t] = {}]
<1> t \in Threads
  BY DEF Threads
<1>1. PICK i \in hand[t], n \in tnow[t] .. now :
          LET o == ClaimOutcome(i, n) IN
          /\ phase' = [phase EXCEPT ![i] = CASE o = "taken" -> "claimed"
                                             [] o = "expire" -> "expired"
                                             [] OTHER -> @]
          /\ claimant' = [claimant EXCEPT ![i] = IF o = "taken" THEN WorkerOf[t] ELSE @]
          /\ lease' = [lease EXCEPT ![i] = IF o = "taken" THEN LeaseUntil(n) ELSE @]
          /\ hand' = [hand EXCEPT ![t] = IF o = "requeue_front" THEN @ ELSE {}]
          /\ tnow' = [tnow EXCEPT ![t] = 0]
          /\ Goto(t, CASE o = "taken" -> "idle"
                       [] o = "requeue_front" -> "requeue_front"
                       [] OTHER -> "claim")
  BY Zenon DEF ClaimAttempt
<1>2. i \in Ids /\ phase[i] = "queued"
  BY DEF TypeOK, DequeCoherent
<1> DEFINE o == ClaimOutcome(i, n)
<1>3. o = "taken" \/ o = "expire"
  BY <1>2 DEF ClaimOutcome
<1> HIDE DEF o
<1>4. CASE o = "taken"
  BY <1>1, <1>2, <1>4 DEF Goto, o, LeaseUntil
<1>5. CASE o = "expire"
  <2>1. claimant \in [Ids -> Workers \cup {NoWorker}] /\ lease \in [Ids -> Nat]
    BY DEF TypeOK
  <2>2. /\ phase' = [phase EXCEPT ![i] = "expired"]
        /\ claimant' = [claimant EXCEPT ![i] = claimant[i]]
        /\ lease' = [lease EXCEPT ![i] = lease[i]]
        /\ hand' = [hand EXCEPT ![t] = {}]
        /\ pc' = [pc EXCEPT ![t] = "claim"]
    BY <1>1, <1>5 DEF Goto, o
  <2>3. claimant' = claimant /\ lease' = lease
    BY <1>2, <2>1, <2>2
  <2> QED
    BY <1>2, <2>2, <2>3
<1> QED
  BY <1>3, <1>4, <1>5

\* Every step preserves the types.
LEMMA TypeStep == TypeOK /\ ThreadInv /\ DequeCoherent /\ [Next]_vars => TypeOK'
<1> SUFFICES ASSUME TypeOK, ThreadInv, DequeCoherent, [Next]_vars PROVE TypeOK'
  OBVIOUS
<1> USE TaskQueueConstants DEF TypeOK, Pcs, Phases
<1>1. CASE UNCHANGED vars
  BY <1>1 DEF vars, entries, locals
<1>2. CASE Tick
  BY <1>2 DEF Tick, entries, locals
<1>3. ASSUME NEW t \in Threads, NEW what \in DOMAIN AfterPrune, Begin(t, what) PROVE TypeOK'
  BY <1>3 DEF Begin, Goto, entries, AfterPrune
<1>4. ASSUME NEW t \in Threads, Recycle(t) PROVE TypeOK'
  BY <1>4 DEF Recycle, Goto, Active
<1>5. ASSUME NEW t \in Threads, PushFront(t) PROVE TypeOK'
  <2> DEFINE back == IF pc[t] = "requeue" THEN hand[t] \ ToSet(deque) ELSE hand[t]
  <2>1. PICK s \in SetToSeqs(back) : deque' = s \o deque
    BY <1>5 DEF PushFront
  <2>2. back \in SUBSET Ids /\ back \cap ToSet(deque) = {} /\ IsFiniteSet(back)
    BY FS_Subset DEF DequeCoherent
  <2> HIDE DEF back
  <2>3. deque' \in Seq(Ids)
    BY <2>1, <2>2, PushFacts, Zenon DEF DequeCoherent
  <2> QED
    BY <1>5, <2>3 DEF PushFront, Goto, entries
<1>6. ASSUME NEW t \in Threads, DiscardStart(t) PROVE TypeOK'
  BY <1>6 DEF DiscardStart, Goto, entries
<1>7. ASSUME NEW t \in Threads, pc[t] \in Pruning, ExitPrune(t) 
      PROVE  /\ pc' \in [Threads -> Pcs]
             /\ run' \in [Threads -> DOMAIN AfterPrune \cup {"none"}]
             /\ tnow' \in [Threads -> Nat]
             /\ seen' \in [Threads -> Ids \cup {NoId}]
  <2>1. run[t] \in DOMAIN AfterPrune
    BY <1>7 DEF ThreadInv, ThreadOK
  <2>2. AfterPrune[run[t]] \in Pcs
    BY <2>1 DEF AfterPrune
  <2> QED
    BY <1>7, <2>2 DEF ExitPrune, Goto
<1>8. ASSUME NEW t \in Threads, DiscardFront(t) PROVE TypeOK'
  <2>1. CASE deque = <<>>
    BY <1>7, <1>8, <2>1 DEF DiscardFront, entries, Pruning
  <2>2. CASE deque # <<>>
    <3>1. Head(deque) \in Ids
      BY <2>2, TailFacts, Zenon DEF DequeCoherent
    <3>2. /\ seen' = [seen EXCEPT ![t] = Head(deque)]
          /\ pc' = [pc EXCEPT ![t] = "stale"]
          /\ UNCHANGED <<now, deque, entries, tasksHeld, hand, run, tnow>>
      BY <1>8, <2>2 DEF DiscardFront, Goto
    <3>3. seen' \in [Threads -> Ids \cup {NoId}]
      BY <3>1, <3>2
    <3>4. pc' \in [Threads -> Pcs]
      BY <3>1, <3>2
    <3> QED
      BY <3>2, <3>3, <3>4 DEF entries
  <2> QED
    BY <2>1, <2>2
<1>9. ASSUME NEW t \in Threads, DiscardStale(t) PROVE TypeOK'
  <2>1. CASE ExitPrune(t)
    BY <1>7, <1>9, <2>1 DEF DiscardStale, entries, Pruning
  <2>2. CASE Goto(t, "pop") /\ UNCHANGED <<run, tnow, seen>>
    BY <1>9, <2>2 DEF DiscardStale, entries, Goto
  <2> QED
    BY <1>9, <2>1, <2>2 DEF DiscardStale
<1>10. ASSUME NEW t \in Threads, DiscardPop(t) PROVE TypeOK'
  <2>1. CASE deque = <<>>
    BY <1>10, <2>1 DEF DiscardPop, entries, Goto
  <2>2. CASE deque # <<>>
    <3>1. Tail(deque) \in Seq(Ids) /\ Head(deque) \in Ids
      BY <2>2, TailFacts DEF DequeCoherent
    <3>2. /\ deque' = Tail(deque)
          /\ UNCHANGED <<now, entries, tasksHeld, run, tnow, seen>>
          /\ pc' = [pc EXCEPT ![t] = "remove"] \/ pc' = [pc EXCEPT ![t] = "front"]
          /\ hand' = [hand EXCEPT ![t] = {Head(deque)}] \/ hand' = hand
      <4>1. CASE Head(deque) = seen[t]
        BY <1>10, <2>2, <4>1 DEF DiscardPop, Goto
      <4>2. CASE Head(deque) # seen[t]
        BY <1>10, <2>2, <4>2 DEF DiscardPop, Goto
      <4> QED
        BY <4>1, <4>2
    <3>3. pc' \in [Threads -> Pcs]
      BY <3>2
    <3>4. hand' \in [Threads -> SUBSET Ids]
      <4>1. {Head(deque)} \in SUBSET Ids
        BY <3>1
      <4>2. CASE hand' = [hand EXCEPT ![t] = {Head(deque)}]
        BY <4>1, <4>2
      <4>3. CASE hand' = hand
        BY <4>3
      <4> QED
        BY <3>2, <4>2, <4>3
    <3> QED
      BY <3>1, <3>2, <3>3, <3>4 DEF entries
  <2> QED
    BY <2>1, <2>2
<1>11. ASSUME NEW t \in Threads, DiscardRemove(t) PROVE TypeOK'
  <2>1. /\ phase' = [phase EXCEPT ![seen[t]] = "absent"] \/ phase' = phase
        /\ tasksHeld' \in {{t}, tasksHeld}
        /\ pc' = [pc EXCEPT ![t] = "wedged"] \/ pc' = [pc EXCEPT ![t] = "front"]
        /\ hand' = [hand EXCEPT ![t] = {}]
        /\ UNCHANGED <<now, deque, claimant, lease, queuedAt, status, body, run, tnow, seen>>
    BY <1>11 DEF DiscardRemove, Goto
  <2>2. phase' \in [Ids -> Phases]
    BY <2>1
  <2>3. pc' \in [Threads -> Pcs]
    BY <2>1
  <2>4. hand' \in [Threads -> SUBSET Ids] /\ tasksHeld' \in SUBSET Threads
    BY <2>1
  <2> QED
    BY <2>1, <2>2, <2>3, <2>4
<1>12. ASSUME NEW t \in Threads, EnqueueCap(t) PROVE TypeOK'
  BY <1>12 DEF EnqueueCap, Goto, entries, locals
<1>13. ASSUME NEW t \in Threads, NEW i \in Ids, EnqueueInsert(t, i) PROVE TypeOK'
  <2>1. CASE phase[i] # "absent"
    BY <1>13, <2>1 DEF EnqueueInsert, Goto, entries
  <2>2. CASE phase[i] = "absent"
    <3>1. /\ phase' = [phase EXCEPT ![i] = "queued"]
          /\ claimant' = [claimant EXCEPT ![i] = NoWorker]
          /\ lease' = [lease EXCEPT ![i] = 0]
          /\ queuedAt' = [queuedAt EXCEPT ![i] = now]
          /\ status' \subseteq status /\ body' \subseteq body
          /\ hand' = [hand EXCEPT ![t] = {i}]
          /\ pc' = [pc EXCEPT ![t] = "push"]
          /\ UNCHANGED <<now, deque, tasksHeld, run, tnow, seen>>
      BY <1>13, <2>2 DEF EnqueueInsert, Goto
    <3>2. /\ phase' \in [Ids -> Phases]
          /\ claimant' \in [Ids -> Workers \cup {NoWorker}]
      BY <3>1
    <3>3. /\ lease' \in [Ids -> Nat]
          /\ queuedAt' \in [Ids -> Nat]
      BY <3>1
    <3>4. pc' \in [Threads -> Pcs] /\ hand' \in [Threads -> SUBSET Ids]
      BY <3>1
    <3>5. status' \in SUBSET Ids /\ body' \in SUBSET Ids
      BY <3>1
    <3> QED
      BY <3>1, <3>2, <3>3, <3>4, <3>5
  <2> QED
    BY <2>1, <2>2
<1>14. ASSUME NEW t \in Threads, EnqueuePush(t) PROVE TypeOK'
  <2>1. PICK i \in hand[t] : deque' = Append(deque, i)
    BY <1>14 DEF EnqueuePush
  <2>2. deque' \in Seq(Ids)
    BY <2>1, AppendProperties
  <2> QED
    BY <1>14, <2>2 DEF EnqueuePush, Goto, entries
<1>15. ASSUME NEW t \in Sessions, ClaimPop(t) PROVE TypeOK'
  <2>1. CASE deque = <<>>
    BY <1>15, <2>1 DEF ClaimPop, entries, Goto, Threads
  <2>2. CASE deque # <<>>
    <3>1. Tail(deque) \in Seq(Ids) /\ Head(deque) \in Ids
      BY <2>2, TailFacts DEF DequeCoherent
    <3>2. /\ deque' = Tail(deque)
          /\ tnow' = [tnow EXCEPT ![t] = now]
          /\ hand' = [hand EXCEPT ![t] = {Head(deque)}]
          /\ pc' = [pc EXCEPT ![t] = "attempt"]
          /\ UNCHANGED <<now, entries, tasksHeld, run, seen>>
      BY <1>15, <2>2 DEF ClaimPop, Goto
    <3>3. pc' \in [Threads -> Pcs] /\ tnow' \in [Threads -> Nat]
      BY <3>2
    <3>4. hand' \in [Threads -> SUBSET Ids]
      BY <3>1, <3>2
    <3> QED
      BY <3>1, <3>2, <3>3, <3>4 DEF entries
  <2> QED
    BY <2>1, <2>2
<1>16. ASSUME NEW t \in Sessions, ClaimAttempt(t) PROVE TypeOK'
  <2> t \in Threads
    BY DEF Threads
  <2>1. PICK i \in Ids, n \in tnow[t] .. now :
          /\ \/ /\ phase' = [phase EXCEPT ![i] = "claimed"]
                /\ claimant' = [claimant EXCEPT ![i] = WorkerOf[t]]
                /\ lease' = [lease EXCEPT ![i] = n + Lease]
                /\ pc' = [pc EXCEPT ![t] = "idle"]
             \/ /\ phase' = [phase EXCEPT ![i] = "expired"]
                /\ claimant' = claimant /\ lease' = lease
                /\ pc' = [pc EXCEPT ![t] = "claim"]
          /\ hand' = [hand EXCEPT ![t] = {}]
    BY <1>16, AttemptEffect, Zenon
  <2>2. n + Lease \in Nat /\ WorkerOf[t] \in Workers
    OBVIOUS
  <2>3. phase' \in [Ids -> Phases] /\ claimant' \in [Ids -> Workers \cup {NoWorker}]
    BY <2>1, <2>2
  <2>4. lease' \in [Ids -> Nat] /\ hand' \in [Threads -> SUBSET Ids]
    BY <2>1, <2>2
  <2>5. pc' \in [Threads -> Pcs] /\ tnow' \in [Threads -> Nat]
    <3>1. tnow' = [tnow EXCEPT ![t] = 0]
      BY <1>16 DEF ClaimAttempt
    <3> QED
      BY <2>1, <3>1
  <2> QED
    BY <1>16, <2>3, <2>4, <2>5 DEF ClaimAttempt
<1>17. ASSUME NEW t \in Sessions, ClaimRetry(t) \/ ClaimTimeout(t) PROVE TypeOK'
  <2>1. CASE ClaimRetry(t)
    <3>1. run' \in [Threads -> DOMAIN AfterPrune \cup {"none"}]
      BY <2>1 DEF ClaimRetry, AfterPrune
    <3>2. pc' \in [Threads -> Pcs] /\ tnow' \in [Threads -> Nat]
      BY <2>1 DEF ClaimRetry, Goto
    <3> QED
      BY <2>1, <3>1, <3>2 DEF ClaimRetry, entries
  <2>2. CASE ClaimTimeout(t)
    BY <2>2 DEF ClaimTimeout, Goto, entries, locals
  <2> QED
    BY <1>17, <2>1, <2>2
<1>18. ASSUME NEW t \in Sessions, NEW i \in Ids, ApplyStatus(t, i) PROVE TypeOK'
  BY <1>18 DEF ApplyStatus, Goto, locals, Threads
<1>19. ASSUME NEW t \in Sessions, NEW i \in Ids, NEW p \in Parts, ApplyComplete(t, i, p) PROVE TypeOK'
  <2>1. /\ \/ phase' = [phase EXCEPT ![i] = "failed"]
           \/ phase' = [phase EXCEPT ![i] = "completed"]
           \/ phase' = phase
        /\ status' \subseteq status \cup {i}
        /\ body' \subseteq body \cup {i}
        /\ pc' = [pc EXCEPT ![t] = "idle"]
        /\ UNCHANGED <<now, deque, claimant, lease, queuedAt, tasksHeld, locals>>
    BY <1>19 DEF ApplyComplete, StatusWhenDone, Goto
  <2>2. phase' \in [Ids -> Phases] /\ pc' \in [Threads -> Pcs]
    BY <2>1
  <2>3. status' \in SUBSET Ids /\ body' \in SUBSET Ids
    BY <2>1
  <2> QED
    BY <2>1, <2>2, <2>3 DEF locals
<1> QED
  BY <1>1, <1>2, <1>3, <1>4, <1>5, <1>6, <1>8, <1>9, <1>10, <1>11, <1>12, <1>13, <1>14, <1>15,
     <1>16, <1>17, <1>18, <1>19, Zenon DEF Next, Step, Prune, Enqueue, Claim, Report

\* Every step keeps what each thread relies on between its critical sections.
LEMMA ThreadStep == QueueInv /\ [Next]_vars => ThreadInv'
<1> SUFFICES ASSUME QueueInv, [Next]_vars, NEW u \in Threads PROVE ThreadOK(u)'
  BY DEF ThreadInv
<1> USE TaskQueueConstants DEF Pruning, Carrying, ThreadOK
<1>0. /\ TypeOK
      /\ ThreadOK(u)
      /\ now \in Nat
      /\ tnow \in [Threads -> Nat]
      /\ pc \in [Threads -> Pcs] /\ run \in [Threads -> DOMAIN AfterPrune \cup {"none"}]
      /\ hand \in [Threads -> SUBSET Ids]
      /\ seen \in [Threads -> Ids \cup {NoId}]
  BY DEF QueueInv, ThreadInv, TypeOK
<1>1. CASE UNCHANGED vars
  BY <1>0, <1>1 DEF vars, locals
<1>2. CASE Tick
  BY <1>0, <1>2 DEF Tick, locals
<1>3. ASSUME NEW t \in Threads, NEW what \in DOMAIN AfterPrune, Begin(t, what) PROVE ThreadOK(u)'
  BY <1>0, <1>3 DEF Begin, Goto
<1>4. ASSUME NEW t \in Threads, Recycle(t) PROVE ThreadOK(u)'
  BY <1>0, <1>4, SMTT(30) DEF Recycle, Goto
<1>5. ASSUME NEW t \in Threads, PushFront(t) PROVE ThreadOK(u)'
  <2>1. /\ pc[t] \in {"requeue", "requeue_front"}
        /\ hand' = [hand EXCEPT ![t] = {}]
        /\ pc' = [pc EXCEPT ![t] = IF pc[t] = "requeue" THEN "discard" ELSE "claim"]
        /\ UNCHANGED <<now, run, tnow, seen>>
    BY <1>5 DEF PushFront, Goto
  <2> QED
    BY <1>0, <2>1
<1>6. ASSUME NEW t \in Threads, DiscardStart(t) PROVE ThreadOK(u)'
  BY <1>0, <1>6 DEF DiscardStart, Goto
<1>7. ASSUME NEW t \in Threads, pc[t] \in {"front", "stale"}, ExitPrune(t), UNCHANGED <<now, hand>>
      PROVE  ThreadOK(u)'
  <2>1. CASE u # t
    BY <1>0, <1>7, <2>1 DEF ExitPrune, Goto
  <2>2. CASE u = t
    <3>1. AfterPrune[run[t]] \in {"cap", "claim", "status", "complete"}
      BY <1>0, <1>7, <2>2, SMTT(30) DEF AfterPrune
    <3> QED
      BY <1>0, <1>7, <2>2, <3>1 DEF ExitPrune, Goto
  <2> QED
    BY <2>1, <2>2
<1>8. ASSUME NEW t \in Threads, DiscardFront(t) PROVE ThreadOK(u)'
  <2>1. CASE ExitPrune(t)
    BY <1>7, <1>8, <2>1 DEF DiscardFront
  <2>2. CASE Goto(t, "stale") /\ UNCHANGED <<run, tnow>> /\ seen' = [seen EXCEPT ![t] = Head(deque)]
    BY <1>0, <1>8, <2>2 DEF DiscardFront, Goto
  <2> QED
    BY <1>8, <2>1, <2>2 DEF DiscardFront
<1>9. ASSUME NEW t \in Threads, DiscardStale(t) PROVE ThreadOK(u)'
  <2>1. CASE ExitPrune(t)
    BY <1>7, <1>9, <2>1 DEF DiscardStale
  <2>2. CASE Goto(t, "pop") /\ UNCHANGED <<run, tnow, seen>>
    BY <1>0, <1>9, <2>2 DEF DiscardStale, Goto
  <2> QED
    BY <1>9, <2>1, <2>2 DEF DiscardStale
<1>10. ASSUME NEW t \in Threads, DiscardPop(t) PROVE ThreadOK(u)'
  <2>1. \/ pc' = [pc EXCEPT ![t] = "remove"] /\ hand' = [hand EXCEPT ![t] = {seen[t]}]
        \/ pc' = [pc EXCEPT ![t] = "front"] /\ hand' = hand
    BY <1>10 DEF DiscardPop, Goto
  <2> QED
    BY <1>0, <1>10, <2>1 DEF DiscardPop
<1>11. ASSUME NEW t \in Threads, DiscardRemove(t) PROVE ThreadOK(u)'
  <2>1. /\ pc[t] = "remove"
        /\ pc' = [pc EXCEPT ![t] = "wedged"] \/ pc' = [pc EXCEPT ![t] = "front"]
        /\ hand' = [hand EXCEPT ![t] = {}]
        /\ UNCHANGED <<now, run, tnow, seen>>
    BY <1>11 DEF DiscardRemove, Goto
  <2> QED
    BY <1>0, <2>1
<1>12. ASSUME NEW t \in Threads, EnqueueCap(t) PROVE ThreadOK(u)'
  BY <1>0, <1>12 DEF EnqueueCap, Goto, locals
<1>13. ASSUME NEW t \in Threads, NEW i \in Ids, EnqueueInsert(t, i) PROVE ThreadOK(u)'
  <2>1. /\ pc[t] = "insert"
        /\ \/ pc' = [pc EXCEPT ![t] = "idle"] /\ hand' = hand
           \/ pc' = [pc EXCEPT ![t] = "push"] /\ hand' = [hand EXCEPT ![t] = {i}]
        /\ UNCHANGED <<now, run, tnow, seen>>
    BY <1>13 DEF EnqueueInsert, Goto
  <2> QED
    BY <1>0, <2>1
<1>14. ASSUME NEW t \in Threads, EnqueuePush(t) PROVE ThreadOK(u)'
  BY <1>0, <1>14 DEF EnqueuePush, Goto
<1>15. ASSUME NEW t \in Sessions, ClaimPop(t) PROVE ThreadOK(u)'
  <2>1. /\ pc[t] = "claim"
        /\ \/ pc' = [pc EXCEPT ![t] = "wait"] /\ UNCHANGED <<tnow, hand>>
           \/ /\ pc' = [pc EXCEPT ![t] = "attempt"]
              /\ tnow' = [tnow EXCEPT ![t] = now]
              /\ hand' = [hand EXCEPT ![t] = {Head(deque)}]
        /\ UNCHANGED <<now, run, seen>>
    BY <1>15 DEF ClaimPop, Goto
  <2> QED
    BY <1>0, <2>1
<1>16. ASSUME NEW t \in Sessions, ClaimAttempt(t) PROVE ThreadOK(u)'
  <2>1. /\ pc[t] = "attempt"
        /\ pc' = [pc EXCEPT ![t] = "idle"] \/ pc' = [pc EXCEPT ![t] = "claim"]
        /\ hand' = [hand EXCEPT ![t] = {}]
    BY <1>16, AttemptEffect DEF ClaimAttempt, QueueInv
  <2>2. tnow' = [tnow EXCEPT ![t] = 0] /\ UNCHANGED <<now, run, seen>>
    BY <1>16 DEF ClaimAttempt
  <2> QED
    BY <1>0, <2>1, <2>2
<1>17. ASSUME NEW t \in Sessions, ClaimRetry(t) \/ ClaimTimeout(t) PROVE ThreadOK(u)'
  BY <1>0, <1>17, SMTT(30) DEF ClaimRetry, ClaimTimeout, Goto, locals, Threads, AfterPrune
<1>18. ASSUME NEW t \in Sessions, NEW i \in Ids, ApplyStatus(t, i) PROVE ThreadOK(u)'
  BY <1>0, <1>18 DEF ApplyStatus, Goto, locals
<1>19. ASSUME NEW t \in Sessions, NEW i \in Ids, NEW p \in Parts, ApplyComplete(t, i, p)
       PROVE  ThreadOK(u)'
  BY <1>0, <1>19 DEF ApplyComplete, Goto, locals
<1> QED
  BY <1>1, <1>2, <1>3, <1>4, <1>5, <1>6, <1>8, <1>9, <1>10, <1>11, <1>12, <1>13, <1>14, <1>15,
     <1>16, <1>17, <1>18, <1>19, Zenon DEF Next, Step, Prune, Enqueue, Claim, Report

\* Only a task that was handed out has a claimant, after every step.
LEMMA ClaimStep == QueueInv /\ [Next]_vars => ClaimInv'
<1> SUFFICES ASSUME QueueInv, [Next]_vars PROVE ClaimInv'
  OBVIOUS
<1> USE TaskQueueConstants DEF ClaimInv
<1>0. /\ TypeOK /\ DequeCoherent /\ ClaimInv
      /\ phase \in [Ids -> Phases]
      /\ claimant \in [Ids -> Workers \cup {NoWorker}]
  BY DEF QueueInv, TypeOK
<1>1. CASE UNCHANGED <<phase, claimant>>
  BY <1>0, <1>1
<1>2. ASSUME NEW t \in Threads, Recycle(t) PROVE ClaimInv'
  BY <1>0, <1>2 DEF Recycle
<1>3. ASSUME NEW t \in Threads, DiscardRemove(t) PROVE ClaimInv'
  <2>1. CASE phase' = phase /\ claimant' = claimant
    BY <1>1, <2>1
  <2>2. CASE phase' = [phase EXCEPT ![seen[t]] = "absent"] /\ claimant' = claimant /\ pc[t] = "remove"
    <3>1. hand[t] = {seen[t]}
      BY <2>2 DEF QueueInv, ThreadInv, ThreadOK
    <3>2. phase[seen[t]] = "queued"
      BY <1>0, <3>1 DEF DequeCoherent
    <3> QED
      BY <1>0, <2>2, <3>2
  <2> QED
    BY <1>3, <2>1, <2>2 DEF DiscardRemove
<1>4. ASSUME NEW t \in Threads, NEW i \in Ids, EnqueueInsert(t, i) PROVE ClaimInv'
  <2>1. \/ UNCHANGED <<phase, claimant>>
        \/ /\ phase' = [phase EXCEPT ![i] = "queued"]
           /\ claimant' = [claimant EXCEPT ![i] = NoWorker]
    BY <1>4 DEF EnqueueInsert, entries
  <2> QED
    BY <1>0, <1>1, <2>1
<1>5. ASSUME NEW t \in Sessions, ClaimAttempt(t) PROVE ClaimInv'
  <2>1. PICK i \in Ids :
          /\ phase[i] = "queued"
          /\ \/ /\ phase' = [phase EXCEPT ![i] = "claimed"]
                /\ claimant' = [claimant EXCEPT ![i] = WorkerOf[t]]
             \/ /\ phase' = [phase EXCEPT ![i] = "expired"]
                /\ claimant' = claimant
    BY <1>0, <1>5, AttemptEffect, Zenon
  <2> QED
    BY <1>0, <2>1
<1>6. ASSUME NEW t \in Sessions, NEW i \in Ids, ApplyStatus(t, i) PROVE ClaimInv'
  BY <1>0, <1>6 DEF ApplyStatus, MayReport
<1>7. ASSUME NEW t \in Sessions, NEW i \in Ids, NEW p \in Parts, ApplyComplete(t, i, p) PROVE ClaimInv'
  <2>1. /\ \/ phase' = [phase EXCEPT ![i] = "failed"]
           \/ phase' = [phase EXCEPT ![i] = "completed"]
           \/ phase' = phase
        /\ claimant' = claimant
    BY <1>0, <1>7 DEF ApplyComplete
  <2> QED
    BY <1>0, <2>1
<1>8. CASE UNCHANGED vars \/ Tick
  BY <1>1, <1>8 DEF Tick, vars, entries
<1>9. ASSUME NEW t \in Threads,
             \/ \E what \in DOMAIN AfterPrune : Begin(t, what)
             \/ PushFront(t) \/ DiscardStart(t) \/ DiscardFront(t) \/ DiscardStale(t) \/ DiscardPop(t)
             \/ EnqueueCap(t) \/ EnqueuePush(t) \/ ClaimPop(t) \/ ClaimRetry(t) \/ ClaimTimeout(t)
      PROVE  ClaimInv'
  BY <1>1, <1>9, Zenon DEF Begin, PushFront, DiscardStart, DiscardFront, DiscardStale, DiscardPop,
     EnqueueCap, EnqueuePush, ClaimPop, ClaimRetry, ClaimTimeout, entries
<1> QED
  BY <1>2, <1>3, <1>4, <1>5, <1>6, <1>7, <1>8, <1>9, Zenon
  DEF Next, Step, Prune, Enqueue, Claim, Report

-----------------------------------------------------------------------------
(* Coherence of the deque *)

\* A step that moves no id and un-queues none keeps the deque coherent.
LEMMA KeepCoherent ==
  ASSUME DequeCoherent, UNCHANGED <<deque, hand>>, TypeOK,
         \A i \in Ids : phase[i] = "queued" => phase'[i] = "queued"
  PROVE  DequeCoherent'
<1>1. ToSet(deque) \subseteq Ids /\ \A t \in Threads : hand[t] \subseteq Ids
  BY LenProperties, ElementOfSeq DEF TypeOK, ToSet
<1> QED
  BY <1>1 DEF DequeCoherent

\* A step of t that leaves it with the ids H, disjoint from the new deque
\* and from what the other threads hold, keeps the deque coherent.
LEMMA MoveCoherent ==
  ASSUME DequeCoherent, TypeOK, NEW t \in Threads, NEW H,
         hand' = [hand EXCEPT ![t] = H],
         IsInjective(deque'),
         H \cap ToSet(deque') = {},
         \A i \in H \cup ToSet(deque') : phase'[i] = "queued",
         \A u \in Threads \ {t} : hand[u] \cap (H \cup ToSet(deque')) = {},
         \A u \in Threads \ {t} : \A i \in hand[u] : phase'[i] = "queued"
  PROVE  DequeCoherent'
<1>1. /\ hand'[t] = H
      /\ \A u \in Threads \ {t} : hand'[u] = hand[u]
  BY DEF TypeOK
<1>2. \A u \in Threads : hand'[u] \cap ToSet(deque') = {}
  BY <1>1
<1>3. \A u, v \in Threads : u # v => hand'[u] \cap hand'[v] = {}
  BY <1>1 DEF DequeCoherent
<1>4. \A u \in Threads : \A i \in hand'[u] : phase'[i] = "queued"
  BY <1>1
<1> QED
  BY <1>2, <1>3, <1>4 DEF DequeCoherent

\* Every step keeps the deque coherent.
LEMMA DequeStep == QueueInv /\ [Next]_vars => DequeCoherent'
<1> SUFFICES ASSUME QueueInv, [Next]_vars PROVE DequeCoherent'
  OBVIOUS
<1> USE TaskQueueConstants
<1>0. /\ TypeOK /\ DequeCoherent /\ ClaimInv
      /\ phase \in [Ids -> Phases]
      /\ deque \in Seq(Ids)
      /\ IsInjective(deque)
      /\ hand \in [Threads -> SUBSET Ids]
  BY DEF QueueInv, TypeOK, DequeCoherent
<1>a. /\ \A i \in ToSet(deque) : i \in Ids /\ phase[i] = "queued"
      /\ \A t \in Threads : \A i \in hand[t] : i \in Ids /\ phase[i] = "queued" /\ i \notin ToSet(deque)
      /\ \A t, u \in Threads : t # u => hand[t] \cap hand[u] = {}
  <2>1. ToSet(deque) \subseteq Ids
    BY <1>0, LenProperties, ElementOfSeq DEF ToSet
  <2>2. /\ \A i \in ToSet(deque) : phase[i] = "queued"
        /\ \A t \in Threads : hand[t] \cap ToSet(deque) = {}
        /\ \A t, u \in Threads : t # u => hand[t] \cap hand[u] = {}
        /\ \A t \in Threads : \A i \in hand[t] : phase[i] = "queued"
    BY <1>0, Zenon DEF DequeCoherent
  <2> QED
    BY <1>0, <2>1, <2>2
<1>b. ASSUME UNCHANGED <<deque, hand, phase>> PROVE DequeCoherent'
  BY <1>0, <1>b, KeepCoherent
<1>1. ASSUME NEW t \in Threads, Recycle(t) PROVE DequeCoherent'
  <2> DEFINE R == {i \in Ids : phase[i] \in Active /\ LeasePassed(i, tnow[t])}
  <2>1. /\ hand' = [hand EXCEPT ![t] = R]
        /\ deque' = deque
        /\ \A i \in Ids : phase'[i] = IF i \in R THEN "queued" ELSE phase[i]
    BY <1>1 DEF Recycle
  <2>2. \A i \in R : i \in Ids /\ phase[i] # "queued"
    BY DEF Active
  <2> HIDE DEF R
  <2>3. R \cap ToSet(deque') = {} /\ \A i \in R \cup ToSet(deque') : phase'[i] = "queued"
    BY <1>a, <2>1, <2>2
  <2>4. /\ \A u \in Threads \ {t} : hand[u] \cap (R \cup ToSet(deque')) = {}
        /\ \A u \in Threads \ {t} : \A i \in hand[u] : phase'[i] = "queued"
    BY <1>a, <2>1, <2>2
  <2> QED
    BY <1>0, <2>1, <2>3, <2>4, MoveCoherent, Zenon
<1>2. ASSUME NEW t \in Threads, PushFront(t) PROVE DequeCoherent'
  <2> DEFINE back == IF pc[t] = "requeue" THEN hand[t] \ ToSet(deque) ELSE hand[t]
  <2>1. PICK s \in SetToSeqs(back) : deque' = s \o deque
    BY <1>2 DEF PushFront
  <2>2. /\ back \in SUBSET Ids
        /\ back \subseteq hand[t]
        /\ back \cap ToSet(deque) = {}
        /\ IsFiniteSet(back)
    BY <1>0, <1>a, FS_Subset
  <2> HIDE DEF back
  <2>3. IsInjective(deque') /\ ToSet(deque') \subseteq back \cup ToSet(deque)
    BY <1>0, <2>1, <2>2, PushFacts, Zenon
  <2>4. hand' = [hand EXCEPT ![t] = {}] /\ phase' = phase
    BY <1>2 DEF PushFront, entries
  <2>5. \A i \in {} \cup ToSet(deque') : phase'[i] = "queued"
    BY <1>a, <2>2, <2>3, <2>4
  <2>6. /\ \A u \in Threads \ {t} : hand[u] \cap ({} \cup ToSet(deque')) = {}
        /\ \A u \in Threads \ {t} : \A i \in hand[u] : phase'[i] = "queued"
    BY <1>a, <2>2, <2>3, <2>4
  <2> QED
    <3>1. {} \cap ToSet(deque') = {}
      OBVIOUS
    <3> QED
      BY <1>0, <2>3, <2>4, <2>5, <2>6, <3>1, MoveCoherent, Zenon
<1>3. ASSUME NEW t \in Threads, deque # <<>>, deque' = Tail(deque), phase' = phase,
             hand' = [hand EXCEPT ![t] = {Head(deque)}], hand[t] = {}
      PROVE  DequeCoherent'
  <2>1. /\ IsInjective(Tail(deque))
        /\ Head(deque) \in ToSet(deque)
        /\ ToSet(Tail(deque)) = ToSet(deque) \ {Head(deque)}
    BY <1>0, <1>3, TailFacts, Zenon
  <2>2. /\ {Head(deque)} \cap ToSet(deque') = {}
        /\ \A i \in {Head(deque)} \cup ToSet(deque') : phase'[i] = "queued"
        /\ \A u \in Threads \ {t} : hand[u] \cap ({Head(deque)} \cup ToSet(deque')) = {}
        /\ \A u \in Threads \ {t} : \A i \in hand[u] : phase'[i] = "queued"
    BY <1>a, <1>3, <2>1
  <2>3. IsInjective(deque')
    BY <1>3, <2>1
  <2> QED
    BY <1>0, <1>3, <2>2, <2>3, MoveCoherent
<1>4. ASSUME NEW t \in Threads, DiscardPop(t) PROVE DequeCoherent'
  <2>0. hand[t] = {}
    BY <1>4 DEF DiscardPop, QueueInv, ThreadInv, ThreadOK, Carrying
  <2>1. CASE deque = <<>>
    BY <1>b, <1>4, <2>1 DEF DiscardPop, entries
  <2>2. CASE deque # <<>> /\ Head(deque) = seen[t]
    BY <1>3, <1>4, <2>0, <2>2 DEF DiscardPop, entries
  <2>3. CASE deque # <<>> /\ Head(deque) # seen[t]
    <3>1. IsInjective(Tail(deque)) /\ ToSet(Tail(deque)) = ToSet(deque) \ {Head(deque)}
      BY <1>0, <2>3, TailFacts, Zenon
    <3>2. deque' = Tail(deque) /\ hand' = hand /\ phase' = phase
      BY <1>4, <2>3 DEF DiscardPop, entries
    <3> QED
      BY <1>0, <3>1, <3>2 DEF DequeCoherent
  <2> QED
    BY <2>1, <2>2, <2>3
<1>5. ASSUME NEW t \in Threads, DiscardRemove(t) PROVE DequeCoherent'
  <2>1. hand[t] = {seen[t]}
    BY <1>5 DEF DiscardRemove, QueueInv, ThreadInv, ThreadOK
  <2>2. seen[t] \in Ids /\ phase[seen[t]] = "queued"
    BY <1>a, <2>1
  <2>3. /\ hand' = [hand EXCEPT ![t] = {}]
        /\ phase' = [phase EXCEPT ![seen[t]] = "absent"]
        /\ deque' = deque
    BY <1>5, <2>2 DEF DiscardRemove
  <2>4. \A i \in Ids : i # seen[t] => phase'[i] = phase[i]
    BY <1>0, <2>3
  <2>5. \A i \in {} \cup ToSet(deque') : phase'[i] = "queued"
    BY <1>a, <2>1, <2>3, <2>4
  <2>6. /\ \A u \in Threads \ {t} : hand[u] \cap ({} \cup ToSet(deque')) = {}
        /\ \A u \in Threads \ {t} : \A i \in hand[u] : phase'[i] = "queued"
    BY <1>a, <2>1, <2>3, <2>4
  <2>7. IsInjective(deque')
    BY <1>0, <2>3
  <2> QED
    <3>1. {} \cap ToSet(deque') = {}
      OBVIOUS
    <3> QED
      BY <1>0, <2>3, <2>5, <2>6, <2>7, <3>1, MoveCoherent, Zenon
<1>6. ASSUME NEW t \in Threads, NEW i \in Ids, EnqueueInsert(t, i) PROVE DequeCoherent'
  <2>1. CASE phase[i] # "absent"
    BY <1>b, <1>6, <2>1 DEF EnqueueInsert, entries
  <2>2. CASE phase[i] = "absent"
    <3>1. /\ hand' = [hand EXCEPT ![t] = {i}]
          /\ phase' = [phase EXCEPT ![i] = "queued"]
          /\ deque' = deque
      BY <1>6, <2>2 DEF EnqueueInsert
    <3>2. phase'[i] = "queued" /\ \A j \in Ids : j # i => phase'[j] = phase[j]
      BY <1>0, <3>1
    <3>3. {i} \cap ToSet(deque') = {} /\ \A j \in {i} \cup ToSet(deque') : phase'[j] = "queued"
      BY <1>a, <2>2, <3>1, <3>2
    <3>4. /\ \A u \in Threads \ {t} : hand[u] \cap ({i} \cup ToSet(deque')) = {}
          /\ \A u \in Threads \ {t} : \A j \in hand[u] : phase'[j] = "queued"
      BY <1>a, <2>2, <3>1, <3>2
    <3>5. IsInjective(deque')
      BY <1>0, <3>1
    <3> QED
      BY <1>0, <3>1, <3>3, <3>4, <3>5, MoveCoherent
  <2> QED
    BY <2>1, <2>2
<1>7. ASSUME NEW t \in Threads, EnqueuePush(t) PROVE DequeCoherent'
  <2>1. PICK i \in hand[t] : deque' = Append(deque, i)
    BY <1>7 DEF EnqueuePush
  <2>2. i \in Ids /\ i \notin ToSet(deque)
    BY <1>a
  <2>3. IsInjective(deque') /\ ToSet(deque') = ToSet(deque) \cup {i}
    BY <1>0, <2>1, <2>2, AppendFacts, ZenonT(30)
  <2>4. hand' = [hand EXCEPT ![t] = {}] /\ phase' = phase
    BY <1>7 DEF EnqueuePush, entries
  <2>5. \A j \in {} \cup ToSet(deque') : phase'[j] = "queued"
    BY <1>a, <2>3, <2>4
  <2>6. /\ \A u \in Threads \ {t} : hand[u] \cap ({} \cup ToSet(deque')) = {}
        /\ \A u \in Threads \ {t} : \A j \in hand[u] : phase'[j] = "queued"
    BY <1>a, <2>3, <2>4
  <2> QED
    <3>1. {} \cap ToSet(deque') = {}
      OBVIOUS
    <3> QED
      BY <1>0, <2>3, <2>4, <2>5, <2>6, <3>1, MoveCoherent, Zenon
<1>8. ASSUME NEW t \in Sessions, ClaimPop(t) PROVE DequeCoherent'
  <2>0. t \in Threads /\ hand[t] = {}
    BY <1>8 DEF ClaimPop, QueueInv, ThreadInv, ThreadOK, Carrying, Threads
  <2>1. CASE deque = <<>>
    BY <1>b, <1>8, <2>1 DEF ClaimPop, entries
  <2>2. CASE deque # <<>>
    BY <1>3, <1>8, <2>0, <2>2 DEF ClaimPop, entries
  <2> QED
    BY <2>1, <2>2
<1>9. ASSUME NEW t \in Sessions, ClaimAttempt(t) PROVE DequeCoherent'
  <2>0. t \in Threads
    BY DEF Threads
  <2>1. PICK i \in hand[t] :
          /\ phase' = [phase EXCEPT ![i] = "claimed"] \/ phase' = [phase EXCEPT ![i] = "expired"]
          /\ hand' = [hand EXCEPT ![t] = {}]
    BY <1>0, <1>9, AttemptEffect, Zenon
  <2>2. \A j \in Ids : j # i => phase'[j] = phase[j]
    BY <1>0, <2>1
  <2>3. deque' = deque
    BY <1>9 DEF ClaimAttempt
  <2>4. \A j \in {} \cup ToSet(deque') : phase'[j] = "queued"
    BY <1>a, <2>0, <2>2, <2>3
  <2>5. /\ \A u \in Threads \ {t} : hand[u] \cap ({} \cup ToSet(deque')) = {}
        /\ \A u \in Threads \ {t} : \A j \in hand[u] : phase'[j] = "queued"
    BY <1>a, <2>0, <2>2, <2>3
  <2>6. IsInjective(deque')
    BY <1>0, <2>3
  <2> QED
    BY <1>0, <2>0, <2>1, <2>4, <2>5, <2>6, MoveCoherent, ZenonT(30)
<1>10. ASSUME NEW t \in Sessions, NEW i \in Ids, ApplyStatus(t, i) PROVE DequeCoherent'
  <2>1. /\ UNCHANGED <<deque, hand>>
        /\ \A j \in Ids : phase[j] = "queued" => phase'[j] = "queued"
    BY <1>0, <1>10 DEF ApplyStatus, MayReport, Active, locals
  <2> QED
    BY <1>0, <2>1, KeepCoherent
<1>11. ASSUME NEW t \in Sessions, NEW i \in Ids, NEW p \in Parts, ApplyComplete(t, i, p)
       PROVE  DequeCoherent'
  <2>1. UNCHANGED <<deque, hand>>
    BY <1>11 DEF ApplyComplete, locals
  <2>2. MayComplete(t, i) => phase[i] # "queued"
    BY <1>0 DEF MayComplete, ClaimInv
  <2>3. \/ phase' = phase
        \/ MayComplete(t, i) /\ phase' = [phase EXCEPT ![i] = "failed"]
        \/ MayComplete(t, i) /\ phase' = [phase EXCEPT ![i] = "completed"]
    BY <1>0, <1>11 DEF ApplyComplete
  <2>4. \A j \in Ids : phase[j] = "queued" => phase'[j] = "queued"
    BY <1>0, <2>2, <2>3
  <2> QED
    BY <1>0, <2>1, <2>4, KeepCoherent
<1>12. CASE UNCHANGED vars \/ Tick
  BY <1>b, <1>12 DEF Tick, vars, entries, locals
<1>13. ASSUME NEW t \in Threads,
              \/ \E what \in DOMAIN AfterPrune : Begin(t, what)
              \/ DiscardStart(t) \/ DiscardFront(t) \/ DiscardStale(t)
              \/ EnqueueCap(t) \/ ClaimRetry(t) \/ ClaimTimeout(t)
      PROVE  DequeCoherent'
  BY <1>b, <1>13, Zenon DEF Begin, DiscardStart, DiscardFront, DiscardStale, EnqueueCap, ClaimRetry,
     ClaimTimeout, entries, locals
<1> QED
  BY <1>1, <1>2, <1>4, <1>5, <1>6, <1>7, <1>8, <1>9, <1>10, <1>11, <1>12, <1>13, Zenon
  DEF Next, Step, Prune, Enqueue, Claim, Report

-----------------------------------------------------------------------------
(* Theorems *)

\* The invariant holds in every state of every execution.
THEOREM QueueInvariant == Spec => []QueueInv
<1>1. QueueInv /\ [Next]_vars => QueueInv'
  BY TypeStep, ThreadStep, ClaimStep, DequeStep DEF QueueInv
<1> QED
  BY <1>1, QueueInvInit, PTL DEF Spec

\* The queue's fields keep their types for every number of threads and tasks.
THEOREM TypesHold == Spec => []TypeOK
<1>1. QueueInv => TypeOK
  BY DEF QueueInv
<1> QED
  BY <1>1, QueueInvariant, PTL

\* Although enqueue, claim and prune release and retake both mutexes, no id
\* is ever queued twice, queued while it is claimed, or held by two threads.
THEOREM DequeStaysCoherent == Spec => []DequeCoherent
<1>1. QueueInv => DequeCoherent
  BY DEF QueueInv
<1> QED
  BY <1>1, QueueInvariant, PTL
=============================================================================
