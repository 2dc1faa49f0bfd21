----------------------------- MODULE StreamQueue -----------------------------
(***************************************************************************)
(* The FIFO of accepted TCP streams of a tcpRelay listener profile         *)
(* (server-stack/stack-tun-api/src/queue.rs), fed by the accept loop of    *)
(* state.rs and drained by the pulls of tunnel_server_loop in relay.rs.    *)
(*                                                                         *)
(* Acceptors and pullers are tasks of a multi-threaded runtime: a step is  *)
(* one critical section of the queue's mutex, one read of the clock or one *)
(* operation on the Notify.  An aborted accept loop may still finish a     *)
(* try_enqueue while its successor accepts, so there may be two of them.   *)
(***************************************************************************)
EXTENDS Integers, Sequences, FiniteSets, SequencesExt

CONSTANTS
  Streams,     \* accepted sockets
  NoStream,    \* no socket in hand
  Acceptors,   \* listener_acceptor_loop tasks
  Pullers,     \* tunnel_server_loop sessions
  Cap,         \* max_pending_streams
  OfferTtl,    \* stream_offer_ttl_secs
  MaxTime      \* bound on the clock

ASSUME StreamQueueConstants ==
  /\ IsFiniteSet(Streams) /\ NoStream \notin Streams
  /\ Acceptors \cap Pullers = {}
  /\ Cap \in Nat \ {0} /\ OfferTtl \in Nat \ {0} /\ MaxTime \in Nat

Tasks == Acceptors \cup Pullers

Pcs == {"idle", "prune", "push", "stat", "notify", "pop", "listen", "wait"}

VARIABLES
  now,       \* Instant::now()
  q,         \* the VecDeque<Pending>
  accepts,   \* listener_accepts
  expired,   \* listener_dropped_expired
  full,      \* listener_dropped_queue_full
  offered,   \* the sockets that were accepted (never accepted again)
  taken,     \* the sockets handed to a pull
  pc,        \* where each task is
  tnow,      \* the clock as prune_expired read it
  sock,      \* the socket an acceptor holds
  woken      \* the waiting pulls that notify_waiters has reached

vars == <<now, q, accepts, expired, full, offered, taken, pc, tnow, sock, woken>>

TypeOK ==
  /\ now \in 0 .. MaxTime
  /\ q \in Seq([stream : Streams, enqueued : 0 .. MaxTime])
  /\ accepts \in Nat /\ expired \in Nat /\ full \in Nat
  /\ offered \in SUBSET Streams
  /\ taken \in SUBSET offered
  /\ pc \in [Tasks -> Pcs]
  /\ tnow \in [Tasks -> 0 .. MaxTime]
  /\ sock \in [Acceptors -> Streams \cup {NoStream}]
  /\ woken \in SUBSET Pullers

Init ==
  /\ now = 0
  /\ q = <<>>
  /\ accepts = 0 /\ expired = 0 /\ full = 0
  /\ offered = {} /\ taken = {}
  /\ pc = [t \in Tasks |-> "idle"]
  /\ tnow = [t \in Tasks |-> 0]
  /\ sock = [a \in Acceptors |-> NoStream]
  /\ woken = {}

Goto(t, l) == pc' = [pc EXCEPT ![t] = l]

Tick ==
  /\ now < MaxTime
  /\ now' = now + 1
  /\ UNCHANGED <<q, accepts, expired, full, offered, taken, pc, tnow, sock, woken>>

-----------------------------------------------------------------------------
(* prune_expired *)

Expired(t, p) == tnow[t] - p.enqueued > OfferTtl

FreshFromOnce(t) == IF q # <<>> /\ Expired(t, q[1]) THEN 2 ELSE 1

\* The position of the first element that the loop over the front leaves.
FreshFrom(t) ==
  CHOOSE k \in 1 .. Len(q) + 1 :
    /\ \A j \in 1 .. k - 1 : Expired(t, q[j])
    /\ k <= Len(q) => ~Expired(t, q[k])

CountPrunedOnce(t) == IF FreshFrom(t) > 1 THEN 1 ELSE 0
CountPruned(t) == FreshFrom(t) - 1

Prune(t) ==
  /\ pc[t] = "prune"
  /\ q' = SubSeq(q, FreshFrom(t), Len(q))
  /\ expired' = expired + CountPruned(t)
  /\ tnow' = [tnow EXCEPT ![t] = IF t \in Pullers THEN tnow[t] ELSE 0]
  /\ Goto(t, IF t \in Acceptors THEN "push" ELSE "pop")
  /\ UNCHANGED <<now, accepts, full, offered, taken, sock, woken>>

-----------------------------------------------------------------------------
(* listener_acceptor_loop and try_enqueue *)

Accept(a) ==
  /\ pc[a] = "idle"
  /\ \E s \in Streams \ offered :
       /\ offered' = offered \cup {s}
       /\ sock' = [sock EXCEPT ![a] = s]
  /\ tnow' = [tnow EXCEPT ![a] = now]
  /\ Goto(a, "prune")
  /\ UNCHANGED <<now, q, accepts, expired, full, taken, woken>>

\* The profile was disabled, or has no queue: the socket is closed.
AcceptDropped(a) ==
  /\ pc[a] = "idle"
  /\ \E s \in Streams \ offered : offered' = offered \cup {s}
  /\ UNCHANGED <<now, q, accepts, expired, full, taken, pc, tnow, sock, woken>>

IsFull == Len(q) >= Cap

PushedDeadline(s, t) == [stream |-> s, enqueued |-> t + OfferTtl]
Pushed(s, t) == [stream |-> s, enqueued |-> t]

\* The cap check and the push share one critical section, which also reads the
\* clock; a socket that does not fit is dropped.
Push(a) ==
  /\ pc[a] = "push"
  /\ IF IsFull
       THEN /\ full' = full + 1
            /\ Goto(a, "idle")
            /\ UNCHANGED q
       ELSE /\ q' = Append(q, Pushed(sock[a], now))
            /\ Goto(a, "stat")
            /\ UNCHANGED full
  /\ sock' = [sock EXCEPT ![a] = NoStream]
  /\ UNCHANGED <<now, accepts, expired, offered, taken, tnow, woken>>

CountAccept(a) ==
  /\ pc[a] = "stat"
  /\ accepts' = accepts + 1
  /\ Goto(a, "notify")
  /\ UNCHANGED <<now, q, expired, full, offered, taken, tnow, sock, woken>>

\* notify_waiters reaches the pulls whose notified() exists, and stores nothing.
NotifyWaiters(a) ==
  /\ pc[a] = "notify"
  /\ woken' = woken \cup {d \in Pullers : pc[d] = "wait"}
  /\ Goto(a, "idle")
  /\ UNCHANGED <<now, q, accepts, expired, full, offered, taken, tnow, sock>>

-----------------------------------------------------------------------------
(* dequeue *)

\* A pull, or another turn of its loop: the clock is read first.
Pull(d) ==
  /\ \/ pc[d] = "idle"
     \/ pc[d] = "wait" /\ d \in woken
  /\ woken' = woken \ {d}
  /\ tnow' = [tnow EXCEPT ![d] = now]
  /\ Goto(d, "prune")
  /\ UNCHANGED <<now, q, accepts, expired, full, offered, taken, sock>>

\* The socket, if any, goes to the relay leg of the session.
Pop(d) ==
  /\ pc[d] = "pop"
  /\ IF q = <<>>
       THEN /\ Goto(d, "listen")
            /\ UNCHANGED <<q, taken>>
       ELSE /\ taken' = taken \cup {Head(q).stream}
            /\ q' = Tail(q)
            /\ Goto(d, "idle")
  /\ tnow' = [tnow EXCEPT ![d] = 0]
  /\ UNCHANGED <<now, accepts, expired, full, offered, sock, woken>>

\* notified(), after the mutex was released.
Listen(d) ==
  /\ pc[d] = "listen"
  /\ Goto(d, "wait")
  /\ UNCHANGED <<now, q, accepts, expired, full, offered, taken, tnow, sock, woken>>

WaitElapsedIfReached(d) ==
  /\ pc[d] = "wait"
  /\ d \in woken
  /\ woken' = woken \ {d}
  /\ Goto(d, "idle")
  /\ UNCHANGED <<now, q, accepts, expired, full, offered, taken, tnow, sock>>

\* timeout polls the loop first, so a pull that was reached takes its turn.
WaitElapsed(d) ==
  /\ pc[d] = "wait"
  /\ d \notin woken
  /\ Goto(d, "idle")
  /\ UNCHANGED <<now, q, accepts, expired, full, offered, taken, tnow, sock, woken>>

-----------------------------------------------------------------------------
(* The specification *)

Enqueue(a) == Push(a) \/ CountAccept(a) \/ NotifyWaiters(a)
Dequeue(d) == (pc[d] # "idle" /\ Pull(d)) \/ Pop(d) \/ Listen(d) \/ WaitElapsed(d)

Next ==
  \/ Tick
  \/ \E t \in Tasks : Prune(t)
  \/ \E a \in Acceptors : Accept(a) \/ AcceptDropped(a) \/ Enqueue(a)
  \/ \E d \in Pullers : Pull(d) \/ Dequeue(d)

Spec == Init /\ [][Next]_vars

\* A call that was started is polled to its end; sockets need not arrive and
\* sessions need not pull.
FairSpec ==
  /\ Spec
  /\ \A a \in Acceptors : WF_vars(Prune(a) \/ Enqueue(a))
  /\ \A d \in Pullers : WF_vars(Prune(d) \/ Dequeue(d))

-----------------------------------------------------------------------------
(* Properties *)

\* Every socket counted as accepted (or about to be) is queued, was handed to
\* one pull, or was counted as expired: pulls, prunes and pushes racing for the
\* mutex neither lose a socket nor hand it out twice.
StreamsAccounted ==
  accepts + Cardinality({a \in Acceptors : pc[a] = "stat"})
    = Len(q) + Cardinality(taken) + expired

\* A pull that is about to pop finds at the front a socket that was within its
\* offer ttl when the pull read the clock, also when other tasks popped, pruned
\* or pushed since its own prune: expired sockets are never served.
FrontIsFresh ==
  \A d \in Pullers : pc[d] = "pop" /\ q # <<>> => ~Expired(d, Head(q))

\* A pull whose wait can elapse comes back, with a socket or without.
PullEnds == \A d \in Pullers : (pc[d] = "prune") ~> (pc[d] = "idle")
=============================================================================
