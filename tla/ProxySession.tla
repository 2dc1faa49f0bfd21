---------------------------- MODULE ProxySession ----------------------------
(***************************************************************************)
(* The tunnels of one managed proxy session: ProxyTunnel of                *)
(* server/src/deploy_service.rs from the admission to the end of the       *)
(* relay, the accounting of its traffic in the session's row               *)
(* (server/src/tunnel_flush.rs) and its entry in the registry of online    *)
(* tunnels in Redis (server/src/tunnel_registry.rs).                       *)
(*                                                                         *)
(* A step is one database or Redis command, or the code between two        *)
(* awaits.  One counter stands for bytes_in and bytes_out, which are kept   *)
(* alike; the checks of policy and token only refuse to open a tunnel or   *)
(* end a relay, which may end at any time.  The set of all online tunnels  *)
(* and tunnels_total are written and never read: they are left out.        *)
(***************************************************************************)
EXTENDS Integers, FiniteSets

CONSTANTS
  Tunnels,      \* tunnel ids, each opened at most once
  MaxDevices,   \* session_max_concurrent, 0 for no limit
  MaxBytes      \* bound on what each tunnel carries

ASSUME ProxySessionConstants ==
  /\ IsFiniteSet(Tunnels)
  /\ MaxDevices \in Nat
  /\ MaxBytes \in [Tunnels -> Nat]

Registering == {"hash", "script", "undo", "total"}
Unregistering == {"hget", "del", "srem"}
Pcs == {"new", "relay", "final", "flush", "refused", "gone", "dead"} \cup Registering \cup Unregistering
Cps == {"none", "wait", "loaded", "flush", "redis"}

VARIABLES
  pc,          \* where the task of each tunnel is
  cp,          \* where its checkpoint task is
  aborted,     \* the tunnels whose checkpoint task is aborted and not yet dropped
  bytes,       \* the counters of each tunnel
  base,        \* TunnelFlushCounters: last_flushed
  seen,        \* what the checkpoint task loaded and has not flushed
  delta,       \* each tunnel: what an UPDATE under way adds
  counters,    \* the tunnels whose counters mutex is held
  row,         \* what each tunnel has added to the session's row
  revoked,     \* the row is revoked
  lossy,       \* tunnels with an UPDATE that failed, was dropped or found no row,
               \* or that a restart of the server ended
  unflushed,   \* tunnels whose task returned without a final flush
  hash,        \* tunnels whose hash has a session_id
  session,     \* proxy:session:<id>:tunnels_online
  registered,  \* tunnels for which register_online returned Ok
  sid          \* the session_id an unregister task read

usage == <<bytes, base, seen, delta, counters, row, revoked, lossy, unflushed>>
registry == <<hash, session, registered, sid>>
vars == <<pc, cp, aborted, bytes, base, seen, delta, counters, row, revoked, lossy, unflushed,
          hash, session, registered, sid>>

TypeOK ==
  /\ pc \in [Tunnels -> Pcs]
  /\ cp \in [Tunnels -> Cps]
  /\ aborted \in SUBSET Tunnels
  /\ bytes \in [Tunnels -> Nat] /\ base \in [Tunnels -> Nat]
  /\ seen \in [Tunnels -> Nat] /\ delta \in [Tunnels -> Nat]
  /\ counters \in SUBSET Tunnels
  /\ row \in [Tunnels -> Nat]
  /\ revoked \in BOOLEAN
  /\ lossy \in SUBSET Tunnels /\ unflushed \in SUBSET Tunnels
  /\ hash \in SUBSET Tunnels /\ session \in SUBSET Tunnels
  /\ registered \in SUBSET Tunnels /\ sid \in SUBSET Tunnels

Zero == [t \in Tunnels |-> 0]

Init ==
  /\ pc = [t \in Tunnels |-> "new"]
  /\ cp = [t \in Tunnels |-> "none"]
  /\ aborted = {}
  /\ bytes = Zero /\ base = Zero /\ seen = Zero /\ delta = Zero /\ row = Zero
  /\ counters = {} /\ revoked = FALSE /\ lossy = {} /\ unflushed = {}
  /\ hash = {} /\ session = {} /\ registered = {} /\ sid = {}

Goto(t, l) == pc' = [pc EXCEPT ![t] = l]
CpGoto(t, l) == cp' = [cp EXCEPT ![t] = l]

-----------------------------------------------------------------------------
(* Opening a tunnel: register_online *)

\* The token names a row that is not revoked, and the tunnel is admitted.
Open(t) ==
  /\ pc[t] = "new"
  /\ ~revoked
  /\ Goto(t, "hash")
  /\ UNCHANGED <<cp, aborted, usage, registry>>

RegisterHash(t) ==
  /\ pc[t] = "hash"
  /\ hash' = hash \cup {t}
  /\ Goto(t, "script")
  /\ UNCHANGED <<cp, aborted, usage, session, registered, sid>>

LimitReachedLate == MaxDevices > 0 /\ Cardinality(session) > MaxDevices
LimitReached == MaxDevices > 0 /\ Cardinality(session) >= MaxDevices

\* The script SESSION_SADD_LIMIT, which Redis runs as one command.
RegisterSession(t) ==
  /\ pc[t] = "script"
  /\ IF LimitReached
       THEN Goto(t, "undo") /\ UNCHANGED session
       ELSE Goto(t, "total") /\ session' = session \cup {t}
  /\ UNCHANGED <<cp, aborted, usage, hash, registered, sid>>

\* The relay starts, with its checkpoint task.
Relay(t) == Goto(t, "relay") /\ CpGoto(t, "wait") /\ UNCHANGED aborted

\* The hash is deleted; the SREM of the set of all online tunnels that follows
\* succeeds, and the tunnel is refused, or is an error.
Undo(t) ==
  /\ pc[t] = "undo"
  /\ hash' = hash \ {t}
  /\ \/ Goto(t, "refused") /\ UNCHANGED <<cp, aborted>>
     \/ Relay(t)
  /\ UNCHANGED <<usage, session, registered, sid>>

RegisterTotal(t) ==
  /\ pc[t] = "total"
  /\ registered' = registered \cup {t}
  /\ Relay(t)
  /\ UNCHANGED <<usage, hash, session, sid>>

\* Any Redis error only warns: the tunnel is relayed all the same.
RegisterError(t) ==
  /\ pc[t] \in Registering
  /\ Relay(t)
  /\ UNCHANGED <<usage, registry>>

\* The client goes away; RedisTunnelDropGuard does not exist yet.
Cancel(t) ==
  /\ pc[t] \in Registering
  /\ Goto(t, "dead")
  /\ UNCHANGED <<cp, aborted, usage, registry>>

Register(t) ==
  \/ RegisterHash(t) \/ RegisterSession(t) \/ Undo(t) \/ RegisterTotal(t) \/ RegisterError(t)

-----------------------------------------------------------------------------
(* Accounting *)

Carry(t) ==
  /\ pc[t] = "relay"
  /\ bytes[t] < MaxBytes[t]
  /\ bytes' = [bytes EXCEPT ![t] = @ + 1]
  /\ UNCHANGED <<pc, cp, aborted, base, seen, delta, counters, row, revoked, lossy, unflushed, registry>>

TakeDeltasWrapping(t, n) ==
  /\ delta' = [delta EXCEPT ![t] = n - base[t]]
  /\ base' = [base EXCEPT ![t] = n]

TakeDeltasKeepBase(t, n) ==
  /\ delta' = [delta EXCEPT ![t] = IF n > base[t] THEN n - base[t] ELSE 0]
  /\ UNCHANGED base

TakeDeltasToNow(t, n) ==
  /\ delta' = [delta EXCEPT ![t] = IF n > base[t] THEN n - base[t] ELSE 0]
  /\ base' = [base EXCEPT ![t] = bytes[t]]

\* take_deltas: what is new since the baseline, which advances.
TakeDeltas(t, n) ==
  /\ delta' = [delta EXCEPT ![t] = IF n > base[t] THEN n - base[t] ELSE 0]
  /\ base' = [base EXCEPT ![t] = n]

\* increment_grpc_proxy_session_traffic: the UPDATE finds the row unless it
\* is revoked.
Added(t) == IF revoked THEN row ELSE [row EXCEPT ![t] = @ + delta[t]]
Lost(t) == IF delta[t] = 0 THEN lossy ELSE lossy \cup {t}

\* The end of flush_managed_session_deltas, which drops the guard: the UPDATE
\* is done or failed, or there was nothing to add.
Flushed(t) ==
  /\ \/ row' = Added(t) /\ lossy' = IF revoked THEN Lost(t) ELSE lossy
     \/ row' = row /\ lossy' = Lost(t)
  /\ delta' = [delta EXCEPT ![t] = 0]
  /\ counters' = counters \ {t}

\* run_checkpoint_loop: a tick, and the counters are loaded.  They do not change
\* once the relay has ended: a load after the end is as one just before it.
CpLoad(t) ==
  /\ cp[t] = "wait"
  /\ pc[t] = "relay"
  /\ seen' = [seen EXCEPT ![t] = bytes[t]]
  /\ CpGoto(t, "loaded")
  /\ UNCHANGED <<pc, aborted, bytes, base, delta, counters, row, revoked, lossy, unflushed, registry>>

CpLock(t) ==
  /\ cp[t] = "loaded"
  /\ t \notin counters
  /\ TakeDeltas(t, seen[t])
  /\ counters' = counters \cup {t}
  /\ seen' = [seen EXCEPT ![t] = 0]
  /\ CpGoto(t, "flush")
  /\ UNCHANGED <<pc, aborted, bytes, row, revoked, lossy, unflushed, registry>>

CpFlushed(t) ==
  /\ cp[t] = "flush"
  /\ Flushed(t)
  /\ CpGoto(t, "redis")
  /\ UNCHANGED <<pc, aborted, bytes, base, seen, revoked, unflushed, registry>>

\* update_fields
CpRedis(t) ==
  /\ cp[t] = "redis"
  /\ hash' \in {hash, hash \cup {t}}
  /\ CpGoto(t, "wait")
  /\ UNCHANGED <<pc, aborted, usage, session, registered, sid>>

\* The channel is closed or says true.
CpStop(t) ==
  /\ cp[t] = "wait"
  /\ pc[t] # "relay"
  /\ CpGoto(t, "none")
  /\ aborted' = aborted \ {t}
  /\ UNCHANGED <<pc, usage, registry>>

\* An aborted task is dropped at an await: that of the mutex, of Redis, or of
\* an UPDATE, which the database may apply all the same.
CpAbort(t) ==
  /\ t \in aborted
  /\ \/ /\ cp[t] = "redis" \/ (cp[t] = "loaded" /\ t \in counters)
        /\ UNCHANGED <<delta, counters, row, lossy>>
     \/ /\ cp[t] = "flush"
        /\ row' \in {row, Added(t)}
        /\ lossy' = Lost(t)
        /\ delta' = [delta EXCEPT ![t] = 0]
        /\ counters' = counters \ {t}
  /\ seen' = [seen EXCEPT ![t] = 0]
  /\ CpGoto(t, "none")
  /\ aborted' = aborted \ {t}
  /\ UNCHANGED <<pc, bytes, base, revoked, unflushed, registry>>

Checkpoint(t) == CpLoad(t) \/ CpLock(t) \/ CpFlushed(t) \/ CpRedis(t) \/ CpStop(t) \/ CpAbort(t)

\* The relay ends; shutdown and abort go to the checkpoint task.
End(t) ==
  /\ pc[t] = "relay"
  /\ aborted' = aborted \cup {t}
  /\ Goto(t, "final")
  /\ UNCHANGED <<cp, usage, registry>>

\* The task returns without a final flush: the target cannot be dialled, or the
\* first write of the bridge of wire_relay.rs fails.
EndUnflushed(t) ==
  /\ pc[t] = "relay"
  /\ unflushed' = unflushed \cup {t}
  /\ Goto(t, "hget")
  /\ UNCHANGED <<cp, aborted, bytes, base, seen, delta, counters, row, revoked, lossy, registry>>

\* flush_managed_tunnel_end
FinalLock(t) ==
  /\ pc[t] = "final"
  /\ t \notin counters
  /\ TakeDeltas(t, bytes[t])
  /\ counters' = counters \cup {t}
  /\ Goto(t, "flush")
  /\ UNCHANGED <<cp, aborted, bytes, seen, row, revoked, lossy, unflushed, registry>>

FinalFlushed(t) ==
  /\ pc[t] = "flush"
  /\ Flushed(t)
  /\ Goto(t, "hget")
  /\ UNCHANGED <<cp, aborted, bytes, base, seen, revoked, unflushed, registry>>

Revoke ==
  /\ ~revoked
  /\ revoked' = TRUE
  /\ UNCHANGED <<pc, cp, aborted, bytes, base, seen, delta, counters, row, lossy, unflushed, registry>>

-----------------------------------------------------------------------------
(* unregister, in the task that RedisTunnelDropGuard spawns *)

UnregisterGetAfterDel(t) ==
  /\ pc[t] = "hget"
  /\ hash' = hash \ {t}
  /\ sid' = IF t \in hash' THEN sid \cup {t} ELSE sid
  /\ Goto(t, "del")
  /\ UNCHANGED <<cp, aborted, usage, session, registered>>

UnregisterGet(t) ==
  /\ pc[t] = "hget"
  /\ sid' = IF t \in hash THEN sid \cup {t} ELSE sid
  /\ Goto(t, "del")
  /\ UNCHANGED <<cp, aborted, usage, hash, session, registered>>

UnregisterDel(t) ==
  /\ pc[t] = "del"
  /\ hash' = hash \ {t}
  /\ Goto(t, "srem")
  /\ UNCHANGED <<cp, aborted, usage, session, registered, sid>>

UnregisterSession(t) ==
  /\ pc[t] = "srem"
  /\ session' = IF t \in sid THEN session \ {t} ELSE session
  /\ sid' = sid \ {t}
  /\ Goto(t, "gone")
  /\ UNCHANGED <<cp, aborted, usage, hash, registered>>

\* A Redis error ends the task.
UnregisterError(t) ==
  /\ pc[t] \in Unregistering
  /\ Goto(t, "dead")
  /\ UNCHANGED <<cp, aborted, usage, registry>>

Unregister(t) ==
  \/ UnregisterGet(t) \/ UnregisterDel(t) \/ UnregisterSession(t) \/ UnregisterError(t)

\* The server restarts: rows and Redis stay, tunnels and their tasks do not.
Restart ==
  /\ pc' = [t \in Tunnels |-> IF pc[t] \in {"new", "refused", "gone"} THEN pc[t] ELSE "dead"]
  /\ cp' = [t \in Tunnels |-> "none"]
  /\ aborted' = {}
  /\ counters' = {}
  /\ seen' = Zero /\ delta' = Zero
  /\ sid' = {}
  /\ lossy' = lossy \cup {t \in Tunnels : pc[t] \in {"relay", "final", "flush"}}
  /\ \E done \in SUBSET Tunnels :
       row' = [t \in Tunnels |-> IF t \in done THEN Added(t)[t] ELSE row[t]]
  /\ UNCHANGED <<bytes, base, revoked, unflushed, hash, session, registered>>

-----------------------------------------------------------------------------
(* The specification *)

Next ==
  \/ \E t \in Tunnels :
       \/ Open(t) \/ Register(t) \/ Cancel(t)
       \/ Carry(t) \/ Checkpoint(t)
       \/ End(t) \/ EndUnflushed(t) \/ FinalLock(t) \/ FinalFlushed(t)
       \/ Unregister(t)
  \/ Revoke
  \/ Restart

Spec == Init /\ [][Next]_vars

-----------------------------------------------------------------------------
(* Properties *)

\* No traffic is billed twice: whatever the order of checkpoints, the abort
\* that meets one in the middle of its UPDATE, and the final flush, a tunnel
\* adds at most what it carried to the session's row.
NeverOvercounted == \A t \in Tunnels : row[t] <= bytes[t]

\* Checkpoints and the final flush together record all of a tunnel's traffic,
\* unless an UPDATE failed, was cut off by the abort or met a revoked row, the
\* server died, or the task returned without the final flush (the target could
\* not be dialled, or the first write of wire_relay.rs's bridge failed after
\* its bytes were counted): nothing is skipped by a checkpoint that ran late.
UsageExact ==
  \A t \in Tunnels :
    pc[t] \in Unregistering \cup {"gone"} /\ t \notin lossy \cup unflushed => row[t] = bytes[t]

\* At most max_concurrent_devices_per_session registered tunnels of a session
\* are relayed at a time.
DeviceLimit ==
  MaxDevices > 0 => Cardinality({t \in registered : pc[t] \in {"relay", "final", "flush"}}) <= MaxDevices

\* A tunnel whose unregister met no error holds no place of its session.
GoneIsUnlisted == \A t \in Tunnels : pc[t] = "gone" => t \notin session
=============================================================================
