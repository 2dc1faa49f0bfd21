---------------------------- MODULE TaskLifecycle ----------------------------
(***************************************************************************)
(* What a task queue promises the submitters and the workers of a profile, *)
(* without the two mutexes and the deque: each task moves along one life   *)
(* cycle; it is handed to one worker at a time, for a lease; and only that *)
(* worker, in a call of its own, reports on it.                            *)
(***************************************************************************)
EXTENDS Naturals

CONSTANTS Ids, Workers, NoWorker, Lease

VARIABLES
  state,   \* where each task is in its life cycle
  owner,   \* the worker a task was handed to
  until,   \* when the lease of its owner ends
  now,     \* the time
  calls    \* the calls under way: pairs of a worker and what it asks for

vars == <<state, owner, until, now, calls>>

InProgress == {"claimed", "running"}
Finished == {"completed", "failed"}
Asks == {"attempt", "status", "complete"}

Init ==
  /\ state = [i \in Ids |-> "absent"]
  /\ owner = [i \in Ids |-> NoWorker]
  /\ until = [i \in Ids |-> 0]
  /\ now = 0
  /\ calls = {}

Submit(i) ==
  /\ state[i] = "absent"
  /\ state' = [state EXCEPT ![i] = "queued"]
  /\ owner' = [owner EXCEPT ![i] = NoWorker]
  /\ until' = [until EXCEPT ![i] = 0]

\* The worker that asks gets a queued task, for at most a lease from now.
Claim(i, w) ==
  /\ <<w, "attempt">> \in calls
  /\ state[i] = "queued"
  /\ state' = [state EXCEPT ![i] = "claimed"]
  /\ owner' = [owner EXCEPT ![i] = w]
  /\ \E u \in 0 .. now + Lease : until' = [until EXCEPT ![i] = u]

\* The owner reports progress, within its lease.
Start(i, w) ==
  /\ <<w, "status">> \in calls
  /\ owner[i] = w
  /\ now <= until[i]
  /\ state[i] \in InProgress
  /\ state' = [state EXCEPT ![i] = "running"]
  /\ UNCHANGED <<owner, until>>

\* The owner finishes, late or not, and may correct what it reported.
Finish(i, w, s) ==
  /\ <<w, "complete">> \in calls
  /\ owner[i] = w
  /\ state[i] \in InProgress \cup Finished
  /\ state' = [state EXCEPT ![i] = s]
  /\ UNCHANGED <<owner, until>>

\* Leases that have run out give their tasks back to the queue.
GiveBack(S) ==
  /\ \A i \in S : state[i] \in InProgress /\ now > until[i]
  /\ state' = [i \in Ids |-> IF i \in S THEN "queued" ELSE state[i]]
  /\ owner' = [i \in Ids |-> IF i \in S THEN NoWorker ELSE owner[i]]
  /\ until' = [i \in Ids |-> IF i \in S THEN 0 ELSE until[i]]

Expire(i) ==
  /\ state[i] = "queued"
  /\ state' = [state EXCEPT ![i] = "expired"]
  /\ UNCHANGED <<owner, until>>

\* Calls come and go, and time passes, with any of these steps or with none.
Next ==
  /\ \/ UNCHANGED <<state, owner, until>>
     \/ \E i \in Ids : Submit(i) \/ Expire(i)
     \/ \E i \in Ids, w \in Workers : Claim(i, w) \/ Start(i, w) \/ \E s \in Finished : Finish(i, w, s)
     \/ \E S \in SUBSET Ids : GiveBack(S)
  /\ now' \in Nat /\ now' >= now
  /\ calls' \in SUBSET (Workers \X Asks)

Spec == Init /\ [][Next]_vars
=============================================================================
