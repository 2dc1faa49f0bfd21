------------------------ MODULE TaskQueueRefinement ------------------------
(***************************************************************************)
(* TaskQueue takes a claim away only after its lease, leaves tasks that    *)
(* ended alone, and implements the life cycle of module TaskLifecycle.     *)
(***************************************************************************)
EXTENDS TaskQueueProofs

\* recycle_expired_leases takes a claim away only once the lease has passed,
\* although it compares with a clock read before it got the lock; no other
\* operation takes an active claim away.
THEOREM LeaseIsKept == Spec => LeaseNotStolen
<1> DEFINE Kept == \A i \in Ids : phase[i] \in Active /\ claimant'[i] # claimant[i] => now > lease[i]
<1>1. QueueInv /\ [Next]_vars => [Kept]_vars
  <2> SUFFICES ASSUME QueueInv, [Next]_vars, NEW i \in Ids,
                      phase[i] \in Active, claimant'[i] # claimant[i]
               PROVE  now > lease[i]
    OBVIOUS
  <2>0. /\ TypeOK /\ DequeCoherent
        /\ claimant \in [Ids -> Workers \cup {NoWorker}]
        /\ lease[i] \in Nat
    BY DEF QueueInv, TypeOK
  <2>1. ASSUME NEW t \in Threads, Recycle(t) PROVE now > lease[i]
    <3>1. tnow[t] > lease[i]
      BY <2>1 DEF Recycle, LeasePassed
    <3>2. tnow[t] <= now /\ tnow[t] \in Nat /\ now \in Nat
      BY DEF QueueInv, ThreadInv, ThreadOK, TypeOK
    <3> QED
      BY <2>0, <3>1, <3>2
  <2>2. ASSUME NEW t \in Threads, NEW j \in Ids, EnqueueInsert(t, j) PROVE FALSE
    <3>1. \/ claimant' = claimant
          \/ phase[j] = "absent" /\ claimant' = [claimant EXCEPT ![j] = NoWorker]
      BY <2>2 DEF EnqueueInsert, entries
    <3> QED
      BY <2>0, <3>1 DEF Active
  <2>3. ASSUME NEW t \in Sessions, ClaimAttempt(t) PROVE FALSE
    <3>1. PICK j \in Ids :
            /\ phase[j] = "queued"
            /\ claimant' = claimant \/ claimant' = [claimant EXCEPT ![j] = WorkerOf[t]]
      BY <2>0, <2>3, AttemptEffect, Zenon
    <3> QED
      BY <2>0, <3>1 DEF Active
  <2>4. ASSUME claimant' = claimant PROVE FALSE
    BY <2>4
  <2>5. CASE UNCHANGED vars \/ Tick
    BY <2>4, <2>5 DEF vars, Tick, entries
  <2>6. ASSUME NEW t \in Threads,
               \/ \E what \in DOMAIN AfterPrune : Begin(t, what)
               \/ PushFront(t) \/ DiscardStart(t) \/ DiscardFront(t) \/ DiscardStale(t)
               \/ DiscardPop(t) \/ DiscardRemove(t)
               \/ EnqueueCap(t) \/ EnqueuePush(t)
               \/ ClaimPop(t) \/ ClaimRetry(t) \/ ClaimTimeout(t)
               \/ \E j \in Ids : ApplyStatus(t, j)
               \/ \E j \in Ids, p \in Parts : ApplyComplete(t, j, p)
        PROVE  FALSE
    BY <2>4, <2>6, Zenon DEF Begin, PushFront, DiscardStart, DiscardFront, DiscardStale,
       DiscardPop, DiscardRemove, EnqueueCap, EnqueuePush, ClaimPop, ClaimRetry, ClaimTimeout,
       ApplyStatus, ApplyComplete, entries
  <2> QED
    BY <2>1, <2>2, <2>3, <2>5, <2>6, Zenon DEF Next, Step, Prune, Enqueue, Claim, Report, Threads
<1> QED
  BY <1>1, QueueInvariant, PTL DEF Spec, LeaseNotStolen

-----------------------------------------------------------------------------
(* The end of a task *)

\* What a step of any thread may do to the entry of a task that has ended.
LEMMA EndedEntry ==
  ASSUME QueueInv, [Next]_vars, NEW i \in Ids, phase[i] \in Terminal
  PROVE  /\ i \in status => i \in status'
         /\ \/ phase'[i] = phase[i]
            \/ /\ \E t \in Sessions : pc[t] = "complete" /\ claimant[i] = WorkerOf[t]
               /\ \/ phase'[i] = "failed"
                  \/ phase'[i] = "completed" /\ i \in status'
<1> DEFINE Goal == /\ i \in status => i \in status'
                   /\ \/ phase'[i] = phase[i]
                      \/ /\ \E t \in Sessions : pc[t] = "complete" /\ claimant[i] = WorkerOf[t]
                         /\ \/ phase'[i] = "failed"
                            \/ phase'[i] = "completed" /\ i \in status'
<1>0. /\ TypeOK /\ DequeCoherent /\ phase \in [Ids -> Phases]
      /\ phase[i] \notin {"absent", "queued"} \cup Active
  BY DEF QueueInv, TypeOK, Terminal, Active
<1>1. CASE UNCHANGED <<phase, status>>
  BY <1>1, SMTT(20)
<1>2. ASSUME NEW t \in Threads, Recycle(t) PROVE Goal
  BY <1>0, <1>2, SMTT(20) DEF Recycle
<1>3. ASSUME NEW t \in Threads, DiscardRemove(t) PROVE Goal
  <2>1. \/ phase' = phase
        \/ phase' = [phase EXCEPT ![seen[t]] = "absent"] /\ hand[t] = {seen[t]}
    BY <1>3, Zenon DEF DiscardRemove, QueueInv, ThreadInv, ThreadOK
  <2>2. hand[t] = {seen[t]} => phase[seen[t]] = "queued"
    BY <1>0 DEF DequeCoherent
  <2>3. status' = status
    BY <1>3, Zenon DEF DiscardRemove
  <2>4. phase'[i] = phase[i]
    <3>1. CASE phase' = phase
      BY <3>1, Zenon
    <3>2. CASE phase' = [phase EXCEPT ![seen[t]] = "absent"] /\ hand[t] = {seen[t]}
      <4>1. i # seen[t]
        BY <1>0, <2>2, <3>2, Zenon
      <4> QED
        BY <1>0, <3>2, <4>1, Zenon
    <3> QED
      BY <2>1, <3>1, <3>2, Zenon
  <2> QED
    BY <2>3, <2>4, Zenon
<1>4. ASSUME NEW t \in Threads, NEW j \in Ids, EnqueueInsert(t, j) PROVE Goal
  <2>1. \/ phase' = phase /\ status' = status
        \/ phase[j] = "absent" /\ phase' = [phase EXCEPT ![j] = "queued"] /\ status' = status \ {j}
    BY <1>4 DEF EnqueueInsert, entries
  <2> QED
    BY <1>0, <2>1
<1>5. ASSUME NEW t \in Sessions, ClaimAttempt(t) PROVE Goal
  <2>1. PICK j \in Ids :
          /\ phase[j] = "queued"
          /\ \/ phase' = [phase EXCEPT ![j] = "claimed"]
             \/ phase' = [phase EXCEPT ![j] = "expired"]
    BY <1>0, <1>5, AttemptEffect, Zenon
  <2> QED
    BY <1>0, <1>5, <2>1 DEF ClaimAttempt
<1>6. ASSUME NEW t \in Sessions, NEW j \in Ids, ApplyStatus(t, j) PROVE Goal
  BY <1>0, <1>6 DEF ApplyStatus, MayReport
<1>7. ASSUME NEW t \in Sessions, NEW j \in Ids, NEW p \in Parts, ApplyComplete(t, j, p) PROVE Goal
  <2>1. /\ pc[t] = "complete" /\ status \subseteq status'
        /\ \/ phase' = phase
           \/ /\ claimant[j] = WorkerOf[t]
              /\ \/ phase' = [phase EXCEPT ![j] = "failed"]
                 \/ phase' = [phase EXCEPT ![j] = "completed"] /\ j \in status'
    BY <1>0, <1>7 DEF ApplyComplete, MayComplete, StatusWhenDone
  <2> QED
    BY <1>0, <2>1
<1>8. CASE UNCHANGED vars \/ Tick
  BY <1>1, <1>8 DEF Tick, vars, entries
<1>9. ASSUME NEW t \in Threads,
             \/ \E what \in DOMAIN AfterPrune : Begin(t, what)
             \/ PushFront(t) \/ DiscardStart(t) \/ DiscardFront(t) \/ DiscardStale(t) \/ DiscardPop(t)
             \/ EnqueueCap(t) \/ EnqueuePush(t) \/ ClaimPop(t) \/ ClaimRetry(t) \/ ClaimTimeout(t)
      PROVE  Goal
  BY <1>1, <1>9, Zenon DEF Begin, PushFront, DiscardStart, DiscardFront, DiscardStale, DiscardPop,
     EnqueueCap, EnqueuePush, ClaimPop, ClaimRetry, ClaimTimeout, entries
<1> QED
  BY <1>2, <1>3, <1>4, <1>5, <1>6, <1>7, <1>8, <1>9, Zenon
  DEF Next, Step, Prune, Enqueue, Claim, Report

\* task_queue.rs: no operation of any thread makes a task that completed,
\* failed or expired claimable again, and only a late TaskComplete of its own
\* claimant still changes how it ended.
THEOREM TerminalIsFinal == Spec => TerminalStays
<1> DEFINE Stays == \A i \in Ids : phase[i] \in Terminal =>
              /\ phase'[i] \in Terminal
              /\ phase'[i] # phase[i] => \E t \in Sessions : pc[t] = "complete" /\ claimant[i] = WorkerOf[t]
<1>1. QueueInv /\ [Next]_vars => [Stays]_vars
  BY EndedEntry DEF Terminal
<1> QED
  BY <1>1, QueueInvariant, PTL DEF Spec, TerminalStays

-----------------------------------------------------------------------------
(* Refinement *)

\* A thread stuck in discard_ttl_expired keeps the tasks mutex.
WedgeInv == \A t \in Threads : pc[t] = "wedged" => t \in tasksHeld

\* The stuck thread keeps the mutex for ever, and no other thread gets stuck.
LEMMA WedgeInvariant == Spec => []WedgeInv
<1>1. Init => WedgeInv
  BY DEF Init, WedgeInv
<1>2. TypeOK /\ QueueInv /\ WedgeInv /\ [Next]_vars => WedgeInv'
  <2> SUFFICES ASSUME TypeOK, QueueInv, WedgeInv, [Next]_vars, NEW u \in Threads, pc'[u] = "wedged"
               PROVE  u \in tasksHeld'
    BY DEF WedgeInv
  <2> USE DEF Goto
  <2>0. pc \in [Threads -> Pcs]
    BY DEF TypeOK
  <2>a. ASSUME NEW t \in Threads, NEW l, pc' = [pc EXCEPT ![t] = l], l # "wedged",
               tasksHeld' = tasksHeld
        PROVE  u \in tasksHeld'
    BY <2>0, <2>a DEF WedgeInv
  <2>1. CASE UNCHANGED vars \/ Tick
    BY <2>1 DEF vars, Tick, WedgeInv
  <2>2. ASSUME NEW t \in Threads, DiscardRemove(t) PROVE u \in tasksHeld'
    <3>1. \/ pc' = [pc EXCEPT ![t] = "front"] /\ tasksHeld' = tasksHeld
          \/ pc' = [pc EXCEPT ![t] = "wedged"] /\ tasksHeld' = {t} /\ tasksHeld = {}
      BY <2>2 DEF DiscardRemove, TasksFree
    <3> QED
      BY <2>0, <2>a, <3>1 DEF WedgeInv
  <2>3. ASSUME NEW t \in Threads, DiscardFront(t) \/ DiscardStale(t) PROVE u \in tasksHeld'
    <3>1. CASE ExitPrune(t)
      <4>1. run[t] \in DOMAIN AfterPrune
        BY <2>3 DEF DiscardFront, DiscardStale, QueueInv, ThreadInv, ThreadOK, Pruning
      <4>2. AfterPrune[run[t]] # "wedged"
        BY <4>1 DEF AfterPrune
      <4> QED
        BY <2>a, <2>3, <3>1, <4>2 DEF ExitPrune, DiscardFront, DiscardStale
    <3>2. CASE pc' = [pc EXCEPT ![t] = "stale"] \/ pc' = [pc EXCEPT ![t] = "pop"]
      BY <2>a, <2>3, <3>2 DEF DiscardFront, DiscardStale
    <3> QED
      BY <2>3, <3>1, <3>2 DEF DiscardFront, DiscardStale
  <2>4. ASSUME NEW t \in Threads, NEW what \in DOMAIN AfterPrune, Begin(t, what) PROVE u \in tasksHeld'
    BY <2>a, <2>4 DEF Begin
  <2>5. ASSUME NEW t \in Threads, Recycle(t) \/ PushFront(t) \/ DiscardStart(t) \/ DiscardPop(t)
        PROVE  u \in tasksHeld'
    <3>1. /\ tasksHeld' = tasksHeld
          /\ \E l \in {"discard", "requeue", "claim", "front", "remove"} : pc' = [pc EXCEPT ![t] = l]
      BY <2>5 DEF Recycle, PushFront, DiscardStart, DiscardPop
    <3> QED
      BY <2>a, <3>1
  <2>6. ASSUME NEW t \in Threads, Enqueue(t) PROVE u \in tasksHeld'
    <3>1. /\ tasksHeld' = tasksHeld
          /\ \E l \in {"idle", "insert", "push"} : pc' = [pc EXCEPT ![t] = l]
      BY <2>6 DEF Enqueue, EnqueueCap, EnqueueInsert, EnqueuePush
    <3> QED
      BY <2>a, <3>1
  <2>7. ASSUME NEW t \in Sessions, Claim(t) \/ Report(t) PROVE u \in tasksHeld'
    <3>0. t \in Threads
      BY DEF Threads
    <3>1. CASE ClaimAttempt(t)
      <4>1. pc' = [pc EXCEPT ![t] = "idle"] \/ pc' = [pc EXCEPT ![t] = "claim"]
        BY <3>1, AttemptEffect DEF QueueInv
      <4> QED
        BY <2>a, <3>0, <3>1, <4>1 DEF ClaimAttempt
    <3>2. CASE ClaimPop(t) \/ ClaimRetry(t) \/ ClaimTimeout(t) \/ Report(t)
      <4>1. /\ tasksHeld' = tasksHeld
            /\ \E l \in {"idle", "wait", "attempt", "recycle"} : pc' = [pc EXCEPT ![t] = l]
        BY <3>2 DEF ClaimPop, ClaimRetry, ClaimTimeout, Report, ApplyStatus, ApplyComplete
      <4> QED
        BY <2>a, <3>0, <4>1
    <3> QED
      BY <2>7, <3>1, <3>2 DEF Claim
  <2> QED
    BY <2>1, <2>2, <2>3, <2>4, <2>5, <2>6, <2>7, Zenon DEF Next, Step, Prune
<1>3. QueueInv => TypeOK
  BY DEF QueueInv
<1> QED
  BY <1>1, <1>2, <1>3, QueueInvariant, PTL DEF Spec

\* While the tasks mutex can be taken, the abstract state is the phase.
LEMMA FreeState ==
  ASSUME TypeOK, WedgeInv, TasksFree
  PROVE  AbstractState = phase
<1>1. \A t \in Threads : pc[t] # "wedged"
  BY DEF WedgeInv, TasksFree
<1>2. AbstractState = [i \in Ids |-> phase[i]]
  BY <1>1, Zenon DEF AbstractState
<1> QED
  BY <1>2 DEF TypeOK

\* A step that gets no thread stuck and moves no stuck thread.
LEMMA SameWedge ==
  ASSUME TypeOK, NEW t \in Threads, NEW l, pc' = [pc EXCEPT ![t] = l], pc[t] # "wedged", l # "wedged",
         seen' = [seen EXCEPT ![t] = seen'[t]]
  PROVE  \A u \in Threads, i \in Ids : (pc[u] = "wedged" /\ seen[u] = i) <=> (pc'[u] = "wedged" /\ seen'[u] = i)
<1> SUFFICES ASSUME NEW u \in Threads, NEW i \in Ids
             PROVE  (pc[u] = "wedged" /\ seen[u] = i) <=> (pc'[u] = "wedged" /\ seen'[u] = i)
  OBVIOUS
<1>1. CASE u = t
  BY <1>1 DEF TypeOK
<1>2. CASE u # t
  BY <1>2 DEF TypeOK
<1> QED
  BY <1>1, <1>2

\* The same after a step that leaves the mutex free.
LEMMA FreeStateNext ==
  ASSUME TypeOK', WedgeInv', tasksHeld' = {}
  PROVE  AbstractState' = phase'
<1>1. \A t \in Threads : pc'[t] # "wedged"
  BY DEF WedgeInv
<1>2. AbstractState' = [i \in Ids |-> phase'[i]]
  BY <1>1, Zenon DEF AbstractState
<1> QED
  BY <1>2 DEF TypeOK

\* Only Tick moves the clock, and forward.
LEMMA TimeStep ==
  ASSUME TypeOK, [Next]_vars
  PROVE  now' \in Nat /\ now' >= now
<1>1. CASE UNCHANGED vars
  BY <1>1 DEF vars, TypeOK
<1>2. CASE Tick
  BY <1>2 DEF Tick, TypeOK
<1>3. ASSUME NEW t \in Threads, (\E what \in DOMAIN AfterPrune : Begin(t, what)) \/ Prune(t) \/ Enqueue(t)
      PROVE  now' = now
  BY <1>3, Zenon DEF Begin, Prune, Recycle, PushFront, DiscardStart, DiscardFront, DiscardStale,
     DiscardPop, DiscardRemove, Enqueue, EnqueueCap, EnqueueInsert, EnqueuePush
<1>4. ASSUME NEW t \in Sessions, Claim(t) \/ Report(t) PROVE now' = now
  BY <1>4, Zenon DEF Claim, ClaimPop, ClaimAttempt, ClaimRetry, ClaimTimeout, Report, ApplyStatus,
     ApplyComplete
<1>5. UNCHANGED vars \/ Tick \/ now' = now
  BY <1>3, <1>4, Zenon DEF Next, Step
<1> QED
  BY <1>1, <1>2, <1>5 DEF TypeOK

\* Every step of the queue is a step of the life cycle or leaves it alone.
LEMMA LifecycleStep ==
  ASSUME QueueInv, WedgeInv, [Next]_vars, TypeOK', WedgeInv'
  PROVE  [Lifecycle!Next]_(Lifecycle!vars)
<1> USE TaskQueueConstants
<1> DEFINE Move == \/ UNCHANGED <<AbstractState, claimant, lease>>
                   \/ \E i \in Ids : Lifecycle!Submit(i) \/ Lifecycle!Expire(i)
                   \/ \E i \in Ids, w \in Workers :
                        \/ Lifecycle!Claim(i, w) \/ Lifecycle!Start(i, w)
                        \/ \E s \in {"completed", "failed"} : Lifecycle!Finish(i, w, s)
                   \/ \E S \in SUBSET Ids : Lifecycle!GiveBack(S)
<1>0. /\ TypeOK /\ DequeCoherent /\ ClaimInv /\ ThreadInv
      /\ phase \in [Ids -> Phases]
      /\ claimant \in [Ids -> Workers \cup {NoWorker}]
      /\ lease \in [Ids -> Nat]
      /\ now \in Nat
  BY DEF QueueInv, TypeOK
<1>t. now' \in Nat /\ now' >= now
  BY <1>0, TimeStep DEF TypeOK
<1>k. AbstractCalls' \in SUBSET (Workers \X Lifecycle!Asks)
  BY DEF AbstractCalls, Lifecycle!Asks
<1> SUFFICES Move
  BY <1>t, <1>k, Zenon DEF Lifecycle!Next, Lifecycle!Finished
<1>a. ASSUME NEW t \in Threads, NEW l, pc' = [pc EXCEPT ![t] = l], pc[t] # "wedged", l # "wedged",
             seen' = [seen EXCEPT ![t] = seen'[t]], UNCHANGED <<phase, claimant, lease>>
      PROVE  Move
  <2>1. \A u \in Threads, i \in Ids :
          (pc[u] = "wedged" /\ seen[u] = i) <=> (pc'[u] = "wedged" /\ seen'[u] = i)
    BY <1>0, <1>a, SameWedge, Zenon
  <2>2. AbstractState' = AbstractState
    BY <1>a, <2>1 DEF AbstractState
  <2> QED
    BY <1>a, <2>2
<1>b. ASSUME TasksFree, tasksHeld' = tasksHeld
      PROVE  AbstractState = phase /\ AbstractState' = phase'
  BY <1>0, <1>b, FreeState, FreeStateNext DEF TasksFree
<1>c. ASSUME TasksFree, tasksHeld' = tasksHeld, UNCHANGED <<phase, claimant, lease>>
      PROVE  Move
  BY <1>b, <1>c
<1>1. CASE UNCHANGED vars \/ Tick
  <2>1. UNCHANGED <<pc, seen, phase, claimant, lease>>
    BY <1>1 DEF vars, Tick, entries, locals
  <2> QED
    BY <2>1 DEF AbstractState
<1>2. ASSUME NEW t \in Threads, Recycle(t) PROVE Move
  <2> DEFINE R == {i \in Ids : phase[i] \in Active /\ LeasePassed(i, tnow[t])}
  <2>1. /\ phase' = [i \in Ids |-> IF i \in R THEN "queued" ELSE phase[i]]
        /\ claimant' = [i \in Ids |-> IF i \in R THEN NoWorker ELSE claimant[i]]
        /\ lease' = [i \in Ids |-> IF i \in R THEN 0 ELSE lease[i]]
        /\ TasksFree /\ tasksHeld' = tasksHeld
    BY <1>2 DEF Recycle
  <2>2. AbstractState = phase /\ AbstractState' = phase'
    BY <1>b, <2>1
  <2>3. tnow[t] \in Nat /\ tnow[t] <= now
    BY <1>0 DEF ThreadInv, ThreadOK, TypeOK
  <2>4. R \in SUBSET Ids /\ \A i \in R : phase[i] \in {"claimed", "running"} /\ now > lease[i]
    BY <1>0, <2>3 DEF Active, LeasePassed
  <2> HIDE DEF R
  <2>5. Lifecycle!GiveBack(R)
    BY <2>1, <2>2, <2>4 DEF Lifecycle!GiveBack, Lifecycle!InProgress
  <2> QED
    BY <2>4, <2>5
<1>3. ASSUME NEW t \in Threads, DiscardRemove(t) PROVE Move
  <2>1. hand[t] = {seen[t]}
    BY <1>0, <1>3 DEF DiscardRemove, ThreadInv, ThreadOK
  <2>2. seen[t] \in Ids /\ phase[seen[t]] = "queued"
    BY <1>0, <2>1 DEF DequeCoherent, TypeOK
  <2>3. /\ TasksFree /\ claimant' = claimant /\ lease' = lease /\ seen' = seen
        /\ phase' = [phase EXCEPT ![seen[t]] = "absent"]
        /\ pc' = [pc EXCEPT ![t] = "wedged"]
    BY <1>3, <2>2 DEF DiscardRemove, Goto
  <2>4. AbstractState = phase
    BY <1>0, <2>3, FreeState
  <2>5. \A u \in Threads : pc'[u] = "wedged" <=> u = t
    BY <1>0, <2>3 DEF TypeOK, WedgeInv, TasksFree
  <2>6. AbstractState' = [i \in Ids |-> IF seen[t] = i THEN "expired" ELSE phase'[i]]
    BY <2>3, <2>5 DEF AbstractState
  <2>7. AbstractState' = [phase EXCEPT ![seen[t]] = "expired"]
    BY <1>0, <2>2, <2>3, <2>6
  <2>8. Lifecycle!Expire(seen[t])
    BY <2>2, <2>3, <2>4, <2>7 DEF Lifecycle!Expire
  <2> QED
    BY <2>2, <2>8
<1>4. ASSUME NEW t \in Threads, NEW i \in Ids, EnqueueInsert(t, i) PROVE Move
  <2>1. TasksFree /\ tasksHeld' = tasksHeld
    BY <1>4 DEF EnqueueInsert
  <2>2. CASE phase[i] # "absent"
    BY <1>4, <1>c, <2>1, <2>2 DEF EnqueueInsert, entries
  <2>3. CASE phase[i] = "absent"
    <3>1. /\ phase' = [phase EXCEPT ![i] = "queued"]
          /\ claimant' = [claimant EXCEPT ![i] = NoWorker]
          /\ lease' = [lease EXCEPT ![i] = 0]
      BY <1>4, <2>3 DEF EnqueueInsert
    <3>2. Lifecycle!Submit(i)
      BY <1>b, <2>1, <2>3, <3>1 DEF Lifecycle!Submit
    <3> QED
      BY <3>2
  <2> QED
    BY <2>2, <2>3
<1>5. ASSUME NEW t \in Sessions, ClaimAttempt(t) PROVE Move
  <2>1. PICK i \in hand[t], n \in tnow[t] .. now :
          /\ i \in Ids /\ phase[i] = "queued"
          /\ \/ /\ phase' = [phase EXCEPT ![i] = "claimed"]
                /\ claimant' = [claimant EXCEPT ![i] = WorkerOf[t]]
                /\ lease' = [lease EXCEPT ![i] = n + Lease]
                /\ pc' = [pc EXCEPT ![t] = "idle"]
             \/ /\ phase' = [phase EXCEPT ![i] = "expired"]
                /\ claimant' = claimant /\ lease' = lease
                /\ pc' = [pc EXCEPT ![t] = "claim"]
          /\ hand' = [hand EXCEPT ![t] = {}]
    <3>1. TypeOK /\ DequeCoherent
      BY <1>0
    <3> QED
      BY <1>5, <3>1, AttemptEffect, Zenon
  <2>2. TasksFree /\ tasksHeld' = tasksHeld
    BY <1>5 DEF ClaimAttempt
  <2>3. AbstractState = phase /\ AbstractState' = phase'
    BY <1>b, <2>2
  <2>4. WorkerOf[t] \in Workers /\ <<WorkerOf[t], "attempt">> \in AbstractCalls
    BY <1>5 DEF ClaimAttempt, AbstractCalls
  <2>5. n + Lease \in 0 .. now + Lease
    <3>1. tnow[t] \in Nat
      BY <1>0 DEF TypeOK, Threads
    <3> QED
      BY <1>0, <3>1
  <2>6. CASE /\ phase' = [phase EXCEPT ![i] = "claimed"]
             /\ claimant' = [claimant EXCEPT ![i] = WorkerOf[t]]
             /\ lease' = [lease EXCEPT ![i] = n + Lease]
    <3>1. Lifecycle!Claim(i, WorkerOf[t])
      BY <2>1, <2>3, <2>4, <2>5, <2>6, Zenon DEF Lifecycle!Claim
    <3> QED
      BY <2>1, <2>4, <3>1, Zenon
  <2>7. CASE phase' = [phase EXCEPT ![i] = "expired"] /\ claimant' = claimant /\ lease' = lease
    <3>1. Lifecycle!Expire(i)
      BY <2>1, <2>3, <2>7 DEF Lifecycle!Expire
    <3> QED
      BY <2>1, <3>1, Zenon
  <2> QED
    BY <2>1, <2>6, <2>7, Zenon
<1>6. ASSUME NEW t \in Sessions, NEW i \in Ids, ApplyStatus(t, i) PROVE Move
  <2>1. TasksFree /\ tasksHeld' = tasksHeld /\ claimant' = claimant /\ lease' = lease
    BY <1>6 DEF ApplyStatus
  <2>2. WorkerOf[t] \in Workers /\ <<WorkerOf[t], "status">> \in AbstractCalls
    BY <1>6 DEF ApplyStatus, AbstractCalls
  <2>3. \/ phase' = phase
        \/ /\ phase[i] \in {"claimed", "running"} /\ phase' = [phase EXCEPT ![i] = "running"]
           /\ claimant[i] = WorkerOf[t] /\ now <= lease[i]
    <3>1. phase' = [phase EXCEPT ![i] = IF MayReport(t, i) THEN "running" ELSE phase[i]]
      BY <1>6, Zenon DEF ApplyStatus
    <3>2. MayReport(t, i) =>
            phase[i] \in {"claimed", "running"} /\ claimant[i] = WorkerOf[t] /\ now <= lease[i]
      BY <1>0 DEF MayReport, Active, LeasePassed
    <3>3. ~MayReport(t, i) => phase' = phase
      BY <1>0, <3>1
    <3> QED
      BY <3>1, <3>2, <3>3
  <2>4. phase' = phase \/ Lifecycle!Start(i, WorkerOf[t])
    BY <1>b, <2>1, <2>2, <2>3 DEF Lifecycle!Start, Lifecycle!InProgress
  <2> QED
    BY <1>c, <2>1, <2>2, <2>4
<1>7. ASSUME NEW t \in Sessions, NEW i \in Ids, NEW p \in Parts, ApplyComplete(t, i, p) PROVE Move
  <2>1. TasksFree /\ tasksHeld' = tasksHeld /\ claimant' = claimant /\ lease' = lease
    BY <1>7 DEF ApplyComplete
  <2>2. WorkerOf[t] \in Workers /\ <<WorkerOf[t], "complete">> \in AbstractCalls
    BY <1>7 DEF ApplyComplete, AbstractCalls
  <2>3. MayComplete(t, i) =>
          /\ claimant[i] = WorkerOf[t]
          /\ phase[i] \in {"claimed", "running", "completed", "failed"}
    BY <1>0, <2>2 DEF MayComplete, ClaimInv, Phases
  <2>4. \/ phase' = phase
        \/ MayComplete(t, i) /\ phase' = [phase EXCEPT ![i] = "failed"]
        \/ MayComplete(t, i) /\ phase' = [phase EXCEPT ![i] = "completed"]
    BY <1>0, <1>7 DEF ApplyComplete
  <2>5. phase' = phase \/ \E s \in {"completed", "failed"} : Lifecycle!Finish(i, WorkerOf[t], s)
    BY <1>b, <2>1, <2>2, <2>3, <2>4 DEF Lifecycle!Finish, Lifecycle!InProgress, Lifecycle!Finished
  <2> QED
    BY <1>c, <2>1, <2>2, <2>5
<1>8. ASSUME NEW t \in Threads, NEW what \in DOMAIN AfterPrune, Begin(t, what) PROVE Move
  <2>1. pc' = [pc EXCEPT ![t] = "recycle"] /\ pc[t] = "idle" /\ UNCHANGED <<seen, phase, claimant, lease>>
    BY <1>8 DEF Begin, Goto, entries
  <2> QED
    BY <1>0, <1>a, <2>1 DEF TypeOK
<1>9. ASSUME NEW t \in Threads, DiscardFront(t) \/ DiscardStale(t) PROVE Move
  <2>1. UNCHANGED <<phase, claimant, lease>> /\ pc[t] # "wedged"
    BY <1>9 DEF DiscardFront, DiscardStale, entries
  <2>2. CASE ExitPrune(t)
    <3>1. run[t] \in DOMAIN AfterPrune
      BY <1>0, <1>9 DEF DiscardFront, DiscardStale, ThreadInv, ThreadOK, Pruning
    <3>2. AfterPrune[run[t]] # "wedged"
      BY <3>1 DEF AfterPrune
    <3> QED
      BY <1>0, <1>a, <2>1, <2>2, <3>2 DEF ExitPrune, Goto, TypeOK
  <2>3. CASE /\ pc' = [pc EXCEPT ![t] = "stale"] \/ pc' = [pc EXCEPT ![t] = "pop"]
             /\ seen' = seen \/ seen' = [seen EXCEPT ![t] = Head(deque)]
    <3>1. seen' = [seen EXCEPT ![t] = seen'[t]]
      BY <1>0, <2>3 DEF TypeOK
    <3> QED
      BY <1>a, <2>1, <2>3, <3>1
  <2> QED
    BY <1>9, <2>2, <2>3 DEF DiscardFront, DiscardStale, Goto
<1>10. ASSUME NEW t \in Threads,
              \/ PushFront(t) \/ DiscardStart(t) \/ DiscardPop(t) \/ EnqueueCap(t) \/ EnqueuePush(t)
              \/ ClaimPop(t) \/ ClaimRetry(t) \/ ClaimTimeout(t)
       PROVE  Move
  <2>1. /\ pc[t] # "wedged"
        /\ UNCHANGED <<seen, phase, claimant, lease>>
        /\ \E l \in Pcs \ {"wedged"} : pc' = [pc EXCEPT ![t] = l]
    BY <1>10 DEF PushFront, DiscardStart, DiscardPop, EnqueueCap, EnqueuePush, ClaimPop, ClaimRetry,
       ClaimTimeout, Goto, entries, locals, Pcs
  <2>2. PICK l \in Pcs \ {"wedged"} : pc' = [pc EXCEPT ![t] = l]
    BY <2>1
  <2>3. seen' = [seen EXCEPT ![t] = seen'[t]]
    BY <1>0, <2>1 DEF TypeOK
  <2> QED
    BY <1>a, <2>1, <2>2, <2>3
<1> QED
  BY <1>1, <1>2, <1>3, <1>4, <1>5, <1>6, <1>7, <1>8, <1>9, <1>10, Zenon
  DEF Next, Step, Prune, Enqueue, Claim, Report, Threads

\* With all its interleavings the queue implements the task life cycle.
THEOREM QueueImplementsLifecycle == Spec => ImplementsLifecycle
<1>1. Init => Lifecycle!Init
  <2> SUFFICES ASSUME Init PROVE Lifecycle!Init
    OBVIOUS
  <2>1. \A t \in Threads : pc[t] = "idle"
    BY DEF Init
  <2>2. AbstractCalls = {}
    BY <2>1 DEF AbstractCalls, Threads
  <2>3. AbstractState = [i \in Ids |-> "absent"]
    BY <2>1 DEF AbstractState, Init
  <2> QED
    BY <2>2, <2>3 DEF Init, Lifecycle!Init
<1>2. QueueInv => TypeOK
  BY DEF QueueInv
<1>3. QueueInv /\ QueueInv' /\ WedgeInv /\ WedgeInv' /\ [Next]_vars => [Lifecycle!Next]_(Lifecycle!vars)
  BY LifecycleStep DEF QueueInv
<1> QED
  BY <1>1, <1>3, QueueInvariant, WedgeInvariant, PTL DEF Spec, ImplementsLifecycle, Lifecycle!Spec
=============================================================================
