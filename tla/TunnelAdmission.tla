--------------------------- MODULE TunnelAdmission ---------------------------
(***************************************************************************)
(* Admission of proxy tunnels in the deploy server                         *)
(* (server-stack/server/src/tunnel_admission.rs): an atomic counter of     *)
(* taken slots, a priority list of waiters behind a mutex, and one Notify  *)
(* per waiter.                                                             *)
(*                                                                         *)
(* An id stands for one call of acquire; clients keep coming, so a         *)
(* returning id stands for call after call, the next one when nothing      *)
(* refers to the last any more.  The future that runs acquire is dropped   *)
(* when its client disconnects, at any await of acquire; the guard's Drop  *)
(* releases the slot when an admitted tunnel ends, however it ends.        *)
(***************************************************************************)
EXTENDS Integers, Sequences, FiniteSets, SequencesExt

CONSTANTS
  Tunnels,      \* tunnel ids (Uuid::new_v4, so one per call of acquire)
  Returning,    \* those that are opened again and again
  Priority,     \* tunnel_priority of each
  Limits,       \* values of DEPLOY_PROXY_MAX_CONCURRENT_TUNNELS, 0 for None
  NoTunnel,     \* no waiter was popped
  WaitTimeout   \* DEPLOY_PROXY_TUNNEL_WAIT_TIMEOUT_SEC is set

ASSUME TunnelAdmissionConstants ==
  /\ IsFiniteSet(Tunnels)
  /\ Returning \subseteq Tunnels
  /\ Priority \in [Tunnels -> Int]
  /\ NoTunnel \notin Tunnels
  /\ Limits \subseteq Nat
  /\ WaitTimeout \in BOOLEAN

Pcs == {"idle", "load", "cas", "full", "wait", "woken", "timedout", "holding", "popping",
        "notifying", "closed", "failed", "cancelled"}

VARIABLES
  max,       \* the limit the server was started with
  active,    \* the atomic counter
  waiters,   \* the ids in the Vec<Waiter>
  permits,   \* the tunnels whose current Notify stores a permit
  gauge,     \* metrics.tunnel_waiters_current
  pc,        \* where each tunnel is
  cur,       \* the value try_take_slot loaded
  popped     \* the waiter a release has taken off the list and not notified

vars == <<max, active, waiters, permits, gauge, pc, cur, popped>>

TypeOK ==
  /\ max \in Limits
  /\ active \in Nat
  /\ waiters \in Seq(Tunnels)
  /\ permits \in SUBSET Tunnels
  /\ gauge \in Nat
  /\ pc \in [Tunnels -> Pcs]
  /\ cur \in [Tunnels -> Nat]
  /\ popped \in [Tunnels -> Tunnels \cup {NoTunnel}]

Init ==
  /\ max \in Limits
  /\ active = 0
  /\ waiters = <<>>
  /\ permits = {}
  /\ gauge = 0
  /\ pc = [t \in Tunnels |-> "idle"]
  /\ cur = [t \in Tunnels |-> 0]
  /\ popped = [t \in Tunnels |-> NoTunnel]

Goto(t, l) == pc' = [pc EXCEPT ![t] = l]

Open(t) ==
  /\ \/ pc[t] = "idle"
     \/ /\ t \in Returning
        /\ pc[t] \in {"closed", "failed"}
        /\ t \notin ToSet(waiters) \cup {popped[u] : u \in Tunnels}
  /\ Goto(t, "load")
  /\ UNCHANGED <<active, waiters, permits, gauge, cur, popped>>

-----------------------------------------------------------------------------
(* try_take_slot *)

\* Without a limit the counter is only incremented.
TakeUnlimited(t) ==
  /\ pc[t] = "load"
  /\ max = 0
  /\ active' = active + 1
  /\ Goto(t, "holding")
  /\ UNCHANGED <<waiters, permits, gauge, cur, popped>>

SlotFreeOffByOne(n) == n <= max
SlotFree(n) == n < max

Load(t) ==
  /\ pc[t] = "load"
  /\ max > 0
  /\ IF SlotFree(active)
       THEN /\ cur' = [cur EXCEPT ![t] = active]
            /\ Goto(t, "cas")
       ELSE /\ Goto(t, "full")
            /\ UNCHANGED cur
  /\ UNCHANGED <<active, waiters, permits, gauge, popped>>

\* A plain store of cur + 1 instead of the compare-exchange.
StoreSlot(t) ==
  /\ pc[t] = "cas"
  /\ active' = cur[t] + 1
  /\ Goto(t, "holding")
  /\ cur' = [cur EXCEPT ![t] = 0]
  /\ UNCHANGED <<waiters, permits, gauge, popped>>

CompareExchange(t) ==
  /\ pc[t] = "cas"
  /\ IF active = cur[t]
       THEN /\ active' = cur[t] + 1
            /\ Goto(t, "holding")
       ELSE /\ Goto(t, "load")
            /\ UNCHANGED active
  /\ cur' = [cur EXCEPT ![t] = 0]
  /\ UNCHANGED <<waiters, permits, gauge, popped>>

\* compare_exchange_weak may fail although the values are equal.
SpuriousFailure(t) ==
  /\ pc[t] = "cas"
  /\ cur' = [cur EXCEPT ![t] = 0]
  /\ Goto(t, "load")
  /\ UNCHANGED <<active, waiters, permits, gauge, popped>>

-----------------------------------------------------------------------------
(* acquire: waiting *)

EnqueueUncounted(t) ==
  /\ pc[t] = "full"
  /\ permits' = permits \ {t}
  /\ waiters' = Append(waiters, t)
  /\ Goto(t, "wait")
  /\ UNCHANGED <<active, gauge, cur, popped>>

\* A new Notify, and the waiter pushed under the lock.
EnqueueWaiter(t) ==
  /\ pc[t] = "full"
  /\ gauge' = gauge + 1
  /\ permits' = permits \ {t}
  /\ waiters' = Append(waiters, t)
  /\ Goto(t, "wait")
  /\ UNCHANGED <<active, cur, popped>>

\* notified() consumes the stored permit; the redis call that follows is an
\* await of its own.
Wake(t) ==
  /\ pc[t] = "wait"
  /\ t \in permits
  /\ permits' = permits \ {t}
  /\ Goto(t, "woken")
  /\ UNCHANGED <<active, waiters, gauge, cur, popped>>

Retry(t) ==
  /\ pc[t] = "woken"
  /\ gauge' = gauge - 1
  /\ Goto(t, "load")
  /\ UNCHANGED <<active, waiters, permits, cur, popped>>

TimeOutIfPopped(t) ==
  /\ pc[t] = "wait"
  /\ WaitTimeout
  /\ t \notin permits \cup ToSet(waiters)
  /\ Goto(t, "timedout")
  /\ UNCHANGED <<active, waiters, permits, gauge, cur, popped>>

\* tokio::time::timeout polls notified() first: it fires only without a permit.
TimeOut(t) ==
  /\ pc[t] = "wait"
  /\ WaitTimeout
  /\ t \notin permits
  /\ Goto(t, "timedout")
  /\ UNCHANGED <<active, waiters, permits, gauge, cur, popped>>

IsOtherInverted(w, t) == w = t
IsOther(w, t) == w # t

LeaveQueue(t) ==
  /\ pc[t] = "timedout"
  /\ waiters' = SelectSeq(waiters, LAMBDA w : IsOther(w, t))
  /\ gauge' = gauge - 1
  /\ Goto(t, "failed")
  /\ UNCHANGED <<active, permits, cur, popped>>

\* The handler future is dropped at an await: nothing is undone.
Cancel(t) ==
  /\ pc[t] \in {"wait", "woken", "timedout"}
  /\ Goto(t, "cancelled")
  /\ UNCHANGED <<active, waiters, permits, gauge, cur, popped>>

-----------------------------------------------------------------------------
(* release_slot, from the guard's Drop *)

ReleaseTwice(t) ==
  /\ pc[t] = "holding"
  /\ active' = active - 2
  /\ Goto(t, "popping")
  /\ UNCHANGED <<waiters, permits, gauge, cur, popped>>

Release(t) ==
  /\ pc[t] = "holding"
  /\ active' = active - 1
  /\ Goto(t, "popping")
  /\ UNCHANGED <<waiters, permits, gauge, cur, popped>>

\* max_by keeps the last of equal elements, and enqueue_ms, the time elapsed
\* since an Instant taken in the same expression, is 0 for every waiter.
Best(q) ==
  CHOOSE k \in 1 .. Len(q) :
    /\ \A j \in 1 .. Len(q) : Priority[q[j]] <= Priority[q[k]]
    /\ \A j \in k + 1 .. Len(q) : Priority[q[j]] < Priority[q[k]]

PopBest(t) ==
  /\ pc[t] = "popping"
  /\ IF waiters = <<>>
       THEN /\ Goto(t, "closed")
            /\ UNCHANGED <<waiters, popped>>
       ELSE /\ popped' = [popped EXCEPT ![t] = waiters[Best(waiters)]]
            /\ waiters' = RemoveAt(waiters, Best(waiters))
            /\ Goto(t, "notifying")
  /\ UNCHANGED <<active, permits, gauge, cur>>

\* notify_one, after the lock: the permit goes to a waiter that may have timed
\* out or been dropped since, whose Notify nobody reads any more.
NotifyOne(t) ==
  /\ pc[t] = "notifying"
  /\ permits' = IF pc[popped[t]] = "wait" THEN permits \cup {popped[t]} ELSE permits
  /\ popped' = [popped EXCEPT ![t] = NoTunnel]
  /\ Goto(t, "closed")
  /\ UNCHANGED <<active, waiters, gauge, cur>>

-----------------------------------------------------------------------------
(* The specification *)

\* What a tunnel does by itself; clients disconnecting is not one of these.
Run(t) ==
  \/ TakeUnlimited(t)
  \/ Load(t)
  \/ CompareExchange(t)
  \/ EnqueueWaiter(t)
  \/ Wake(t)
  \/ Retry(t)
  \/ TimeOut(t)
  \/ LeaveQueue(t)
  \/ Release(t)
  \/ PopBest(t)
  \/ NotifyOne(t)

Next ==
  /\ \E t \in Tunnels : Open(t) \/ Run(t) \/ SpuriousFailure(t) \/ Cancel(t)
  /\ UNCHANGED max

Spec == Init /\ [][Next]_vars

\* Tasks are polled while they can run, timers fire, and tunnels end; the
\* compare-exchange does not fail spuriously for ever.
FairSpec ==
  /\ Spec
  /\ \A t \in Tunnels : WF_vars(Run(t) /\ UNCHANGED max) /\ SF_vars(CompareExchange(t) /\ UNCHANGED max)

-----------------------------------------------------------------------------
(* Properties *)

Holders == {t \in Tunnels : pc[t] = "holding"}

\* The counter is the number of guards alive, whatever was cancelled, timed
\* out or woken: no slot leaks and none is released twice.
ActiveIsGuards == active = Cardinality(Holders)

\* With a limit no more tunnels are admitted than it allows, although the
\* check and the increment of try_take_slot are separate atomic operations.
SlotsBounded == max > 0 => Cardinality(Holders) <= max

\* A waiting tunnel can still be found by a release, is in the hands of one, or
\* has been notified: no pop, time-out or cancellation of another tunnel takes
\* it off the list for good.
WaiterIsListed ==
  \A t \in Tunnels : pc[t] = "wait" =>
    t \in ToSet(waiters) \cup permits \cup {popped[u] : u \in Tunnels}

\* With a wait timeout an acquire ends, or it goes round its loop for ever only
\* because others are admitted again and again (each turn starts a new timeout,
\* and a newcomer may take the slot a woken waiter was woken for): neither a
\* slot released between the failed try and the push nor a wake-up given to a
\* tunnel that no longer waits leaves it stuck beside a free slot.
AcquireEndsOrIsOvertaken ==
  \A t \in Tunnels :
    <>[](pc[t] \in {"load", "cas", "full", "wait", "woken", "timedout"})
      => []<><<\E u \in Tunnels : pc[u] # "holding" /\ pc'[u] = "holding">>_vars

\* tunnel_admission.rs 68, "Acquire a tunnel slot": without a wait timeout a
\* waiting tunnel gets a slot as the tunnels before it end.
WaiterIsAdmitted ==
  \A t \in Tunnels : (pc[t] = "wait") ~> (pc[t] \in {"holding", "cancelled"})

\* The gauge of waiting tunnels (metrics_http.rs 54) counts at least those that
\* wait, so that its fetch_sub never wraps below zero.
GaugeCoversWaiters ==
  gauge >= Cardinality({t \in Tunnels : pc[t] \in {"wait", "woken", "timedout"}})
=============================================================================
