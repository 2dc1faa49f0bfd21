------------------------------ MODULE TaskQueue ------------------------------
(***************************************************************************)
(* The in-memory task queue of one listener profile of stack-tun-api       *)
(* (server-stack/stack-tun-api/src/task_queue.rs).                         *)
(*                                                                         *)
(* HTTP handlers submit tasks, worker sessions claim them under a lease,   *)
(* report progress and complete them.  Every operation first runs          *)
(* prune_all (re-queue expired leases, discard tasks that waited too       *)
(* long).  The state is split over two mutexes, deque_ids and tasks, which *)
(* the code takes and releases several times per operation: a step of this *)
(* specification is one critical section, so operations of different       *)
(* threads interleave exactly at the points where the code unlocks.        *)
(***************************************************************************)
EXTENDS Integers, Sequences, FiniteSets, SequencesExt

CONSTANTS
  Ids,         \* request ids
  Workers,     \* worker public keys
  NoWorker,    \* claimant = None
  NoId,        \* no front id read yet
  Clients,     \* threads that run enqueue (HTTP handlers, bus rules)
  Sessions,    \* threads that run claim_next / apply_status / apply_complete
  WorkerOf,    \* the public key each session authenticated with
  Cap,         \* TaskQueueInner.cap
  Ttl,         \* TaskQueueInner.ttl
  Lease,       \* TaskQueueInner.lease
  MaxTime      \* bound on the clock, for TLC only

Threads == Clients \cup Sessions

ASSUME TaskQueueConstants ==
  /\ IsFiniteSet(Ids)
  /\ NoWorker \notin Workers
  /\ NoId \notin Ids
  /\ Clients \cap Sessions = {}
  /\ WorkerOf \in [Sessions -> Workers]
  /\ Cap \in Nat \ {0}
  /\ Ttl \in Nat
  /\ Lease \in Nat
  /\ MaxTime \in Nat

\* The phases as TLC and the proofs name them; "absent": no entry in the map.
Phases == {"absent", "queued", "claimed", "running", "completed", "failed", "expired"}
ActiveAndDone == {"claimed", "running", "completed"}
Active == {"claimed", "running"}
Terminal == {"completed", "failed", "expired"}

\* The operations a thread may run, and the step each goes to after prune_all.
AfterPrune == [enqueue |-> "cap", claim |-> "claim", status |-> "status", complete |-> "complete"]

Pcs == {"idle", "recycle", "requeue", "discard", "front", "stale", "pop", "remove", "wedged",
        "cap", "insert", "push", "claim", "attempt", "requeue_front", "wait",
        "status", "complete"}

VARIABLES
  now,         \* the monotonic clock behind Instant::now()
  deque,       \* deque_ids
  phase,       \* tasks[i].phase, "absent" when the map has no entry i
  claimant,    \* tasks[i].claimant
  lease,       \* tasks[i].lease_until
  queuedAt,    \* tasks[i].queued_at
  status,      \* the ids whose response_status is Some
  body,        \* the ids whose response_body is not empty
  tasksHeld,   \* a thread that keeps the tasks mutex across steps, if any
  pc,          \* where each thread is
  run,         \* the operation to go on with after prune_all
  tnow,        \* the local `now` in scope, 0 outside its scope
  seen,        \* the id discard_ttl_expired read at the front
  hand         \* ids the thread took out of, or has still to put into, deque_ids

entries == <<phase, claimant, lease, queuedAt, status, body>>
locals == <<run, tnow, seen, hand>>
vars == <<now, deque, entries, tasksHeld, pc, locals>>

TypeOK ==
  /\ now \in Nat
  /\ deque \in Seq(Ids)
  /\ phase \in [Ids -> Phases]
  /\ claimant \in [Ids -> Workers \cup {NoWorker}]
  /\ lease \in [Ids -> Nat]
  /\ queuedAt \in [Ids -> Nat]
  /\ status \in SUBSET Ids
  /\ body \in SUBSET Ids
  /\ tasksHeld \in SUBSET Threads
  /\ pc \in [Threads -> Pcs]
  /\ run \in [Threads -> DOMAIN AfterPrune \cup {"none"}]
  /\ tnow \in [Threads -> Nat]
  /\ seen \in [Threads -> Ids \cup {NoId}]
  /\ hand \in [Threads -> SUBSET Ids]

Init ==
  /\ now = 0
  /\ deque = <<>>
  /\ phase = [i \in Ids |-> "absent"]
  /\ claimant = [i \in Ids |-> NoWorker]
  /\ lease = [i \in Ids |-> 0]
  /\ queuedAt = [i \in Ids |-> 0]
  /\ status = {}
  /\ body = {}
  /\ tasksHeld = {}
  /\ pc = [t \in Threads |-> "idle"]
  /\ run = [t \in Threads |-> "none"]
  /\ tnow = [t \in Threads |-> 0]
  /\ seen = [t \in Threads |-> NoId]
  /\ hand = [t \in Threads |-> {}]

-----------------------------------------------------------------------------
(* Helpers *)

\* tasks.lock() returns only when no thread keeps the mutex.
TasksFree == tasksHeld = {}

Goto(t, l) == pc' = [pc EXCEPT ![t] = l]

\* prune_all returns: its locals are gone and the operation goes on.
ExitPrune(t) ==
  /\ Goto(t, AfterPrune[run[t]])
  /\ run' = [run EXCEPT ![t] = "none"]
  /\ tnow' = [tnow EXCEPT ![t] = 0]
  /\ seen' = [seen EXCEPT ![t] = NoId]

TtlPassed(i, n) == n - queuedAt[i] > Ttl

LeasePassedEarly(i, n) == n >= lease[i]
LeasePassed(i, n) == n > lease[i]

LeaseUntilPast(n) == n - Lease
LeaseUntil(n) == n + Lease

-----------------------------------------------------------------------------
(* prune_all, the prefix of every operation *)

\* A thread enters an operation; recycle_expired_leases reads the clock first.
Begin(t, what) ==
  /\ pc[t] = "idle"
  /\ what \in IF t \in Clients THEN {"enqueue"} ELSE {"claim", "status", "complete"}
  /\ run' = [run EXCEPT ![t] = what]
  /\ tnow' = [tnow EXCEPT ![t] = now]
  /\ Goto(t, "recycle")
  /\ UNCHANGED <<now, deque, entries, tasksHeld, seen, hand>>

\* Under the tasks lock every claimed or running task whose lease passed
\* goes back to queued; its response fields and queued_at are kept.
Recycle(t) ==
  LET R == {i \in Ids : phase[i] \in Active /\ LeasePassed(i, tnow[t])} IN
  /\ pc[t] = "recycle"
  /\ TasksFree
  /\ phase' = [i \in Ids |-> IF i \in R THEN "queued" ELSE phase[i]]
  /\ claimant' = [i \in Ids |-> IF i \in R THEN NoWorker ELSE claimant[i]]
  /\ lease' = [i \in Ids |-> IF i \in R THEN 0 ELSE lease[i]]
  /\ hand' = [hand EXCEPT ![t] = R]
  /\ tnow' = [tnow EXCEPT ![t] = 0]
  /\ Goto(t, IF R = {} THEN "discard" ELSE "requeue")
  /\ UNCHANGED <<now, deque, queuedAt, status, body, tasksHeld, run, seen>>


\* push_front under the deque lock: of the recycled ids not already queued
\* (HashMap order, so any order), or of the id a claim gave back.
PushFront(t) ==
  LET back == IF pc[t] = "requeue" THEN hand[t] \ ToSet(deque) ELSE hand[t] IN
  /\ pc[t] \in {"requeue", "requeue_front"}
  /\ \E s \in SetToSeqs(back) : deque' = s \o deque
  /\ hand' = [hand EXCEPT ![t] = {}]
  /\ Goto(t, IF pc[t] = "requeue" THEN "discard" ELSE "claim")
  /\ UNCHANGED <<now, entries, tasksHeld, run, tnow, seen>>

\* discard_ttl_expired reads the clock once, before its loop.
DiscardStart(t) ==
  /\ pc[t] = "discard"
  /\ tnow' = [tnow EXCEPT ![t] = now]
  /\ Goto(t, "front")
  /\ UNCHANGED <<now, deque, entries, tasksHeld, run, seen, hand>>

DiscardFront(t) ==
  /\ pc[t] = "front"
  /\ IF deque = <<>>
       THEN ExitPrune(t)
       ELSE /\ seen' = [seen EXCEPT ![t] = Head(deque)]
            /\ Goto(t, "stale")
            /\ UNCHANGED <<run, tnow>>
  /\ UNCHANGED <<now, deque, entries, tasksHeld, hand>>

DiscardStale(t) ==
  /\ pc[t] = "stale"
  /\ TasksFree
  /\ IF phase[seen[t]] = "queued" /\ TtlPassed(seen[t], tnow[t])
       THEN /\ Goto(t, "pop")
            /\ UNCHANGED <<run, tnow, seen>>
       ELSE ExitPrune(t)
  /\ UNCHANGED <<now, deque, entries, tasksHeld, hand>>

\* Pops whatever is at the front now; an id other than the one found stale
\* is dropped by the `continue`.
DiscardPop(t) ==
  /\ pc[t] = "pop"
  /\ IF deque = <<>>
       THEN /\ Goto(t, "front")
            /\ UNCHANGED <<deque, hand>>
       ELSE /\ deque' = Tail(deque)
            /\ IF Head(deque) = seen[t]
                 THEN /\ hand' = [hand EXCEPT ![t] = {seen[t]}]
                      /\ Goto(t, "remove")
                 ELSE /\ Goto(t, "front")
                      /\ UNCHANGED hand
  /\ UNCHANGED <<now, entries, tasksHeld, run, tnow, seen>>

\* `if let Some(mut e) = self.tasks.lock().remove(&id)`: the guard is a
\* temporary of the `if let`, alive to the end of its body, and the body
\* locks tasks again.  The second lock() never returns: no step leaves
\* "wedged", and tasks stays locked.
DiscardRemove(t) ==
  /\ pc[t] = "remove"
  /\ TasksFree
  /\ hand' = [hand EXCEPT ![t] = {}]
  /\ IF phase[seen[t]] = "absent"
       THEN /\ Goto(t, "front")
            /\ UNCHANGED <<phase, tasksHeld>>
       ELSE /\ phase' = [phase EXCEPT ![seen[t]] = "absent"]
            /\ tasksHeld' = {t}
            /\ Goto(t, "wedged")
  /\ UNCHANGED <<now, deque, claimant, lease, queuedAt, status, body, run, tnow, seen>>

-----------------------------------------------------------------------------
(* enqueue *)

EnqueueCap(t) ==
  /\ pc[t] = "cap"
  /\ Goto(t, IF Len(deque) >= Cap THEN "idle" ELSE "insert")
  /\ UNCHANGED <<now, deque, entries, tasksHeld, locals>>

EnqueueInsertTwice(t, i) ==
  /\ pc[t] = "insert"
  /\ TasksFree
  /\ phase' = [phase EXCEPT ![i] = "queued"]
  /\ queuedAt' = [queuedAt EXCEPT ![i] = now]
  /\ hand' = [hand EXCEPT ![t] = {i}]
  /\ Goto(t, "push")
  /\ UNCHANGED <<now, deque, claimant, lease, status, body, tasksHeld, run, tnow, seen>>

\* The entry is visible as queued before its id is in deque_ids.
EnqueueInsert(t, i) ==
  /\ pc[t] = "insert"
  /\ TasksFree
  /\ IF phase[i] # "absent"
       THEN /\ Goto(t, "idle")
            /\ UNCHANGED <<entries, hand>>
       ELSE /\ phase' = [phase EXCEPT ![i] = "queued"]
            /\ claimant' = [claimant EXCEPT ![i] = NoWorker]
            /\ lease' = [lease EXCEPT ![i] = 0]
            /\ queuedAt' = [queuedAt EXCEPT ![i] = now]
            /\ status' = status \ {i}
            /\ body' = body \ {i}
            /\ hand' = [hand EXCEPT ![t] = {i}]
            /\ Goto(t, "push")
  /\ UNCHANGED <<now, deque, tasksHeld, run, tnow, seen>>

EnqueuePush(t) ==
  /\ pc[t] = "push"
  /\ \E i \in hand[t] : deque' = Append(deque, i)
  /\ hand' = [hand EXCEPT ![t] = {}]
  /\ Goto(t, "idle")
  /\ UNCHANGED <<now, entries, tasksHeld, run, tnow, seen>>

-----------------------------------------------------------------------------
(* claim_next *)

\* try_claim_one pops an id, then attempt_claim_id reads the clock.
ClaimPop(t) ==
  /\ pc[t] = "claim"
  /\ IF deque = <<>>
       THEN /\ Goto(t, "wait")
            /\ UNCHANGED <<deque, tnow, hand>>
       ELSE /\ deque' = Tail(deque)
            /\ tnow' = [tnow EXCEPT ![t] = now]
            /\ hand' = [hand EXCEPT ![t] = {Head(deque)}]
            /\ Goto(t, "attempt")
  /\ UNCHANGED <<now, entries, tasksHeld, run, seen>>

ClaimOutcome(i, n) ==
  CASE phase[i] = "absent" -> "skip"
    [] phase[i] \notin {"absent", "queued"} -> "requeue_front"
    [] phase[i] = "queued" /\ TtlPassed(i, n) -> "expire"
    [] OTHER -> "taken"

\* The clock was read after the pop and before the tasks lock was obtained.
ClaimAttempt(t) ==
  /\ pc[t] = "attempt"
  /\ TasksFree
  /\ \E i \in hand[t], n \in tnow[t] .. now :
       LET o == ClaimOutcome(i, n) IN
       /\ phase' = [phase EXCEPT ![i] = CASE o = "taken" -> "claimed"
                                          [] o = "expire" -> "expired"
                                          [] OTHER -> @]
       /\ claimant' = [claimant EXCEPT ![i] = IF o = "taken" THEN WorkerOf[t] ELSE @]
       /\ lease' = [lease EXCEPT ![i] = IF o = "taken" THEN LeaseUntil(n) ELSE @]
       /\ hand' = [hand EXCEPT ![t] = IF o = "requeue_front" THEN @ ELSE {}]
       /\ tnow' = [tnow EXCEPT ![t] = 0]
       /\ Goto(t, CASE o = "taken" -> "idle"
                    [] o = "requeue_front" -> "requeue_front"
                    [] OTHER -> "claim")
  /\ UNCHANGED <<now, deque, queuedAt, status, body, tasksHeld, run, seen>>

\* The 250 ms timeout, or a notification, ends the wait and the loop prunes again.
ClaimRetry(t) ==
  /\ pc[t] = "wait"
  /\ run' = [run EXCEPT ![t] = "claim"]
  /\ tnow' = [tnow EXCEPT ![t] = now]
  /\ Goto(t, "recycle")
  /\ UNCHANGED <<now, deque, entries, tasksHeld, seen, hand>>

\* The deadline passed: pull_timeout.
ClaimTimeout(t) ==
  /\ pc[t] = "wait"
  /\ Goto(t, "idle")
  /\ UNCHANGED <<now, deque, entries, tasksHeld, locals>>

-----------------------------------------------------------------------------
(* apply_status, apply_complete: one critical section each after prune_all *)

MayReport(t, i) ==
  /\ claimant[i] = WorkerOf[t]
  /\ phase[i] \in Active
  /\ ~LeasePassed(i, now)

ApplyStatus(t, i) ==
  /\ pc[t] = "status"
  /\ TasksFree
  /\ phase' = [phase EXCEPT ![i] = IF MayReport(t, i) THEN "running" ELSE @]
  /\ Goto(t, "idle")
  /\ UNCHANGED <<now, deque, claimant, lease, queuedAt, status, body, tasksHeld, locals>>

\* What a TaskComplete message says, as far as apply_complete looks at it.
Parts == [status : BOOLEAN, chunk : BOOLEAN, finished : BOOLEAN, error : BOOLEAN]

MayCompleteAnyone(t, i) == phase[i] # "absent"
MayComplete(t, i) == phase[i] # "absent" /\ claimant[i] = WorkerOf[t]

\* A finished response without a status line gets 200.
StatusWhenDoneNoDefault(st, i) == st
StatusWhenDone(st, i) == st \cup {i}

ApplyComplete(t, i, p) ==
  LET fails == p.finished /\ p.error
      bdy   == IF p.chunk THEN body \cup {i} ELSE body
      st    == IF p.status /\ ~fails THEN status \cup {i} ELSE status
      done  == p.finished /\ ~fails /\ i \in st \cup bdy
  IN
  /\ pc[t] = "complete"
  /\ TasksFree
  /\ IF MayComplete(t, i)
       THEN /\ phase' = [phase EXCEPT ![i] = CASE fails -> "failed"
                                               [] done -> "completed"
                                               [] OTHER -> @]
            /\ status' = IF done THEN StatusWhenDone(st, i) ELSE st
            /\ body' = bdy
       ELSE UNCHANGED <<phase, status, body>>
  /\ Goto(t, "idle")
  /\ UNCHANGED <<now, deque, claimant, lease, queuedAt, tasksHeld, locals>>

-----------------------------------------------------------------------------
(* The specification *)

Tick ==
  /\ now < MaxTime
  /\ now' = now + 1
  /\ UNCHANGED <<deque, entries, tasksHeld, pc, locals>>

Prune(t) ==
  \/ Recycle(t)
  \/ PushFront(t)
  \/ DiscardStart(t)
  \/ DiscardFront(t)
  \/ DiscardStale(t)
  \/ DiscardPop(t)
  \/ DiscardRemove(t)

Enqueue(t) ==
  \/ EnqueueCap(t)
  \/ \E i \in Ids : EnqueueInsert(t, i)
  \/ EnqueuePush(t)

Claim(t) ==
  \/ ClaimPop(t)
  \/ ClaimAttempt(t)
  \/ ClaimRetry(t)
  \/ ClaimTimeout(t)

Report(t) ==
  \/ \E i \in Ids : ApplyStatus(t, i)
  \/ \E i \in Ids, p \in Parts : ApplyComplete(t, i, p)

\* A step of an operation that has begun.
Step(t) == Prune(t) \/ Enqueue(t) \/ (t \in Sessions /\ (Claim(t) \/ Report(t)))

Next ==
  \/ Tick
  \/ \E t \in Threads : (\E what \in DOMAIN AfterPrune : Begin(t, what)) \/ Step(t)

Spec == Init /\ [][Next]_vars

\* Operations run to their end once begun (tokio keeps polling them), and a
\* worker session pulls again and again (the loop of the tunnel worker).
FairSpec ==
  /\ Spec
  /\ \A t \in Threads : WF_vars(Step(t))
  /\ \A t \in Sessions : SF_vars(Begin(t, "claim"))

-----------------------------------------------------------------------------
(* Properties *)

\* A queued id is in one place: no id is twice in deque_ids, what is in
\* deque_ids is a queued entry, and no thread holds an id that is also in
\* deque_ids or in another thread's hand.  This is what makes
\* ClaimAttempt::RequeueFront and the None of tasks.remove dead code.
DequeCoherent ==
  /\ IsInjective(deque)
  /\ \A i \in ToSet(deque) : phase[i] = "queued"
  /\ \A t \in Threads : hand[t] \cap ToSet(deque) = {}
  /\ \A t, u \in Threads : t # u => hand[t] \cap hand[u] = {}
  /\ \A t \in Threads : \A i \in hand[t] : phase[i] = "queued"

\* While a lease runs, the claim belongs to the worker that took it: a step
\* takes a claim away, or gives it to another worker, only after lease_until
\* passed (recycle_expired_leases compares with a clock it read earlier).
LeaseNotStolen ==
  [][\A i \in Ids : phase[i] \in Active /\ claimant'[i] # claimant[i] => now > lease[i]]_vars

\* A task that completed, failed or expired in the map never becomes claimable
\* again; how it ended changes only in apply_complete of its own claimant, so
\* one that expired in the queue stays expired.
TerminalStays ==
  [][\A i \in Ids : phase[i] \in Terminal =>
       /\ phase'[i] \in Terminal
       /\ phase'[i] # phase[i] => \E t \in Sessions : pc[t] = "complete" /\ claimant[i] = WorkerOf[t]
    ]_vars

\* No response is reported as completed without a status line, whatever
\* parts its claimants sent and in whatever order they took turns.
CompletedHasStatus == \A i \in Ids : phase[i] = "completed" => i \in status

\* types.rs 142: "Max seconds a task stays in `queued` before expiring": a
\* queued task is where a claim or the discard can find it, so it can leave
\* `queued`.
QueuedIsReachable ==
  \A i \in Ids : phase[i] = "queued" => i \in ToSet(deque) \/ \E t \in Threads : i \in hand[t]

\* task_queue.rs 476: "Re-insert so GET /tasks/{id} can still see terminal
\* state briefly."
DiscardedIsReinserted ==
  \A t \in Threads : \A i \in Ids :
    (pc[t] = "wedged" /\ seen[t] = i) ~> (phase[i] = "expired")


\* The entry discard_ttl_expired removed is expired for good: the thread that
\* removed it holds the only copy, and the lock.
AbstractState ==
  [i \in Ids |-> IF \E t \in Threads : pc[t] = "wedged" /\ seen[t] = i THEN "expired" ELSE phase[i]]

\* The sessions that are past prune_all, by the key they authenticated with.
AbstractCalls ==
  {<<WorkerOf[t], pc[t]>> : t \in {u \in Sessions : pc[u] \in {"attempt", "status", "complete"}}}

Lifecycle == INSTANCE TaskLifecycle WITH
  state <- AbstractState, owner <- claimant, until <- lease, calls <- AbstractCalls

\* The queue implements the task life cycle: whatever the interleaving of
\* critical sections, a task is handed only to a worker in claim_next, goes back
\* to the queue only after lease_until, is not revived after it ended, and is
\* reported running or finished only by the worker it is handed to, in a call
\* of that worker, running only within the lease.
ImplementsLifecycle == Lifecycle!Spec
=============================================================================
