------------------------- MODULE ProxySessionProofs -------------------------
(***************************************************************************)
(* The accounting and the device limit of ProxySession, for any number of  *)
(* tunnels, any traffic and any limit.                                     *)
(***************************************************************************)
EXTENDS ProxySession, FiniteSetTheorems, TLAPS

Opening == {"new"} \cup Registering
Running == {"relay", "final", "flush"}
BeforeFinal == Opening \cup {"relay", "final"}
Ended == {"flush", "gone"} \cup Unregistering

\* The guard of the counters is held exactly by a checkpoint or a final flush
\* in the middle of its UPDATE.
GuardHeldByFlush ==
  \A t \in Tunnels : /\ t \in counters <=> cp[t] = "flush" \/ pc[t] = "flush"
                     /\ ~(cp[t] = "flush" /\ pc[t] = "flush")

\* Nobody is in the middle of an UPDATE without the guard.
MutexInv ==
  \A t \in Tunnels :
    /\ t \notin counters => delta[t] = 0
    /\ pc[t] \in Opening => cp[t] = "none"

\* Up to the final flush the baseline is what the row has or is about to get,
\* less what was lost, and a checkpoint that has loaded the counters can only
\* advance it.
BaseInv ==
  \A t \in Tunnels :
    pc[t] \in BeforeFinal =>
      /\ row[t] + delta[t] <= base[t]
      /\ t \notin lossy => row[t] + delta[t] = base[t]
      /\ cp[t] = "loaded" => base[t] <= seen[t]

\* A checkpoint that comes after the final flush finds nothing to add.
LateInv ==
  \A t \in Tunnels :
    /\ base[t] <= bytes[t] /\ seen[t] <= bytes[t] /\ row[t] + delta[t] <= bytes[t]
    /\ cp[t] = "loaded" => seen[t] <= base[t] \/ row[t] + delta[t] <= base[t]
    /\ pc[t] \in Ended /\ t \notin lossy \cup unflushed =>
         /\ row[t] + delta[t] = bytes[t]
         /\ cp[t] = "loaded" => seen[t] <= base[t]
         /\ pc[t] # "flush" => delta[t] = 0

UsageInv == TypeOK /\ GuardHeldByFlush /\ MutexInv /\ BaseInv /\ LateInv

\* A tunnel is listed in its session from the script to its unregister, which
\* finds the session through the hash.
ListedInv ==
  \A t \in Tunnels :
    /\ pc[t] \in {"new", "hash", "script", "undo", "refused", "gone"} => t \notin session
    /\ pc[t] = "total" => t \in session
    /\ pc[t] \in Opening => t \notin registered
    /\ pc[t] \in {"script", "total"} => t \in hash
    /\ t \in registered /\ pc[t] \in Running => t \in session
    /\ pc[t] \in Running \cup {"hget"} /\ t \in session => t \in hash
    /\ pc[t] \in {"del", "srem"} /\ t \in session => t \in sid

PlacesInv == MaxDevices > 0 => Cardinality(session) <= MaxDevices

RegistryInv == TypeOK /\ ListedInv /\ PlacesInv

-----------------------------------------------------------------------------

\* The first state has the types.
LEMMA TypeInit == Init => TypeOK
<1> SUFFICES ASSUME Init PROVE TypeOK
  OBVIOUS
<1>1. pc \in [Tunnels -> Pcs] /\ cp \in [Tunnels -> Cps]
  BY DEF Init, Pcs, Cps
<1>2. Zero \in [Tunnels -> Nat]
  BY DEF Zero
<1>3. revoked \in BOOLEAN
  BY Zenon DEF Init
<1> QED
  BY <1>1, <1>2, <1>3 DEF Init, TypeOK

\* Every step keeps the types.
LEMMA TypeStep == TypeOK /\ [Next]_vars => TypeOK'
<1> SUFFICES ASSUME TypeOK, [Next]_vars PROVE TypeOK'
  OBVIOUS
<1> USE DEF TypeOK, Pcs, Cps, Registering, Unregistering, Goto, CpGoto, usage, registry
<1>1. ASSUME NEW t \in Tunnels, Open(t) \/ Register(t) \/ Cancel(t) PROVE TypeOK'
  BY <1>1 DEF Open, Register, RegisterHash, RegisterSession, Undo, RegisterTotal, RegisterError, Relay, Cancel
<1>2. ASSUME NEW t \in Tunnels, Carry(t) \/ CpLoad(t) \/ CpRedis(t) \/ CpStop(t) PROVE TypeOK'
  BY <1>2 DEF Carry, CpLoad, CpRedis, CpStop
<1>3. ASSUME NEW t \in Tunnels, CpLock(t) \/ FinalLock(t) PROVE TypeOK'
  BY <1>3 DEF CpLock, FinalLock, TakeDeltas
<1>4. ASSUME NEW t \in Tunnels PROVE Added(t) \in [Tunnels -> Nat] /\ Lost(t) \in SUBSET Tunnels
  BY DEF Added, Lost
<1>5. ASSUME NEW t \in Tunnels, CpFlushed(t) \/ FinalFlushed(t) PROVE TypeOK'
  <2>1. ASSUME Flushed(t) PROVE /\ row' \in [Tunnels -> Nat] /\ lossy' \in SUBSET Tunnels
                                /\ delta' \in [Tunnels -> Nat] /\ counters' \in SUBSET Tunnels
    BY <1>4, <2>1 DEF Flushed
  <2>2. CASE CpFlushed(t)
    BY <2>1, <2>2 DEF CpFlushed
  <2>3. CASE FinalFlushed(t)
    BY <2>1, <2>3 DEF FinalFlushed
  <2> QED
    BY <1>5, <2>2, <2>3
<1>6. ASSUME NEW t \in Tunnels, CpAbort(t) PROVE TypeOK'
  BY <1>4, <1>6 DEF CpAbort
<1>7. ASSUME NEW t \in Tunnels, End(t) \/ EndUnflushed(t) \/ Unregister(t) PROVE TypeOK'
  BY <1>7 DEF End, EndUnflushed, Unregister, UnregisterGet, UnregisterDel, UnregisterSession, UnregisterError
<1>8. CASE Revoke
  BY <1>8 DEF Revoke
<1>9. CASE Restart
  BY <1>4, <1>9 DEF Restart, Zero
<1>10. CASE UNCHANGED vars
  BY <1>10, SMTT(30) DEF vars
<1> QED
  BY <1>1, <1>2, <1>3, <1>5, <1>6, <1>7, <1>8, <1>9, <1>10 DEF Next, Checkpoint

\* Every step keeps the accounting.
LEMMA UsageStep == UsageInv /\ [Next]_vars => UsageInv'
<1> SUFFICES ASSUME UsageInv, [Next]_vars PROVE (GuardHeldByFlush /\ MutexInv /\ BaseInv /\ LateInv)'
  BY TypeStep DEF UsageInv
<1> DEFINE Goal == (GuardHeldByFlush /\ MutexInv /\ BaseInv /\ LateInv)'
<1> USE DEF UsageInv, TypeOK, GuardHeldByFlush, MutexInv, BaseInv, LateInv, Opening, BeforeFinal, Ended,
            Registering, Unregistering, Goto, CpGoto, usage
<1>1. ASSUME NEW t \in Tunnels, Open(t) \/ Cancel(t) PROVE Goal
  BY <1>1 DEF Open, Cancel
<1>2. ASSUME NEW t \in Tunnels, Register(t) PROVE Goal
  <2>1. /\ pc[t] \in Registering /\ UNCHANGED usage
        /\ \/ pc' = [pc EXCEPT ![t] = "relay"] /\ cp' = [cp EXCEPT ![t] = "wait"]
           \/ pc' = [pc EXCEPT ![t] = "refused"] /\ UNCHANGED cp
           \/ pc' = [pc EXCEPT ![t] = "undo"] /\ UNCHANGED cp
           \/ pc' = [pc EXCEPT ![t] = "total"] /\ UNCHANGED cp
           \/ pc' = [pc EXCEPT ![t] = "script"] /\ UNCHANGED cp
    BY <1>2 DEF Register, RegisterHash, RegisterSession, Undo, RegisterTotal, RegisterError, Relay
  <2> QED
    BY <2>1
<1>3. ASSUME NEW t \in Tunnels, Carry(t) PROVE Goal
  BY <1>3 DEF Carry
<1>4. ASSUME NEW t \in Tunnels, CpLoad(t) PROVE Goal
  BY <1>4 DEF CpLoad
<1>5. ASSUME NEW t \in Tunnels, CpLock(t) PROVE Goal
  BY <1>5 DEF CpLock, TakeDeltas
<1>6. ASSUME NEW t \in Tunnels, CpFlushed(t) PROVE Goal
  BY <1>6 DEF CpFlushed, Flushed, Added, Lost
<1>7. ASSUME NEW t \in Tunnels, CpRedis(t) \/ CpStop(t) PROVE Goal
  BY <1>7 DEF CpRedis, CpStop
<1>8. ASSUME NEW t \in Tunnels, CpAbort(t) PROVE Goal
  BY <1>8 DEF CpAbort, Added, Lost
<1>9. ASSUME NEW t \in Tunnels, End(t) \/ EndUnflushed(t) PROVE Goal
  BY <1>9 DEF End, EndUnflushed
<1>10. ASSUME NEW t \in Tunnels, FinalLock(t) PROVE Goal
  BY <1>10 DEF FinalLock, TakeDeltas
<1>11. ASSUME NEW t \in Tunnels, FinalFlushed(t) PROVE Goal
  BY <1>11 DEF FinalFlushed, Flushed, Added, Lost
<1>12. ASSUME NEW t \in Tunnels, Unregister(t) PROVE Goal
  BY <1>12 DEF Unregister, UnregisterGet, UnregisterDel, UnregisterSession, UnregisterError
<1>13. CASE Revoke
  BY <1>13 DEF Revoke
<1>14. CASE Restart
  BY <1>14 DEF Restart, Zero, Added
<1>15. CASE UNCHANGED vars
  BY <1>15 DEF vars
<1> QED
  BY <1>1, <1>2, <1>3, <1>4, <1>5, <1>6, <1>7, <1>8, <1>9, <1>10, <1>11, <1>12, <1>13, <1>14, <1>15
  DEF Next, Checkpoint

\* The accounting of a session holds throughout, for any number of tunnels.
THEOREM UsageInvariant == Spec => []UsageInv
<1>2. Init => GuardHeldByFlush /\ MutexInv /\ BaseInv /\ LateInv
  BY DEF Init, Zero, GuardHeldByFlush, MutexInv, BaseInv, LateInv, Ended, Unregistering
<1>3. Init => UsageInv
  BY <1>2, TypeInit DEF UsageInv
<1> QED
  BY <1>3, UsageStep, PTL DEF Spec

\* take_deltas under the mutex: no traffic is billed twice.
THEOREM NoTrafficTwice == Spec => []NeverOvercounted
<1>1. UsageInv => NeverOvercounted
  BY DEF UsageInv, TypeOK, LateInv, NeverOvercounted
<1> QED
  BY <1>1, UsageInvariant, PTL

\* Checkpoints and the final flush record all traffic of a tunnel that came to
\* its final flush and of which no UPDATE was lost.
THEOREM AllTrafficRecorded == Spec => []UsageExact
<1>1. UsageInv => UsageExact
  BY DEF UsageInv, TypeOK, LateInv, UsageExact, Ended, Unregistering
<1> QED
  BY <1>1, UsageInvariant, PTL

-----------------------------------------------------------------------------

\* Every step keeps a tunnel listed as long as it has a place.
LEMMA ListedStep == TypeOK /\ ListedInv /\ [Next]_vars => ListedInv'
<1> SUFFICES ASSUME TypeOK, ListedInv, [Next]_vars PROVE ListedInv'
  OBVIOUS
<1> USE DEF TypeOK, ListedInv, Opening, Running, Registering, Unregistering, Goto, registry
<1>1. ASSUME NEW t \in Tunnels, Open(t) \/ Cancel(t) PROVE ListedInv'
  BY <1>1 DEF Open, Cancel
<1>2. ASSUME NEW t \in Tunnels, Register(t) PROVE ListedInv'
  <2>1. CASE RegisterHash(t)
    BY <2>1 DEF RegisterHash
  <2>2. CASE RegisterSession(t)
    BY <2>2 DEF RegisterSession
  <2>3. CASE Undo(t)
    <3>1. pc' = [pc EXCEPT ![t] = "refused"] \/ pc' = [pc EXCEPT ![t] = "relay"]
      BY <2>3 DEF Undo, Relay
    <3> QED
      BY <2>3, <3>1 DEF Undo
  <2>4. CASE RegisterTotal(t)
    <3>1. pc' = [pc EXCEPT ![t] = "relay"]
      BY <2>4 DEF RegisterTotal, Relay
    <3> QED
      BY <2>4, <3>1 DEF RegisterTotal
  <2>5. CASE RegisterError(t)
    <3>1. pc' = [pc EXCEPT ![t] = "relay"]
      BY <2>5 DEF RegisterError, Relay
    <3> QED
      BY <2>5, <3>1 DEF RegisterError
  <2> QED
    BY <1>2, <2>1, <2>2, <2>3, <2>4, <2>5 DEF Register
<1>3. ASSUME NEW t \in Tunnels, Carry(t) \/ Checkpoint(t) PROVE ListedInv'
  <2>1. pc' = pc /\ session' = session /\ registered' = registered /\ sid' = sid /\ hash \subseteq hash'
    BY <1>3 DEF Carry, Checkpoint, CpLoad, CpLock, CpFlushed, CpRedis, CpStop, CpAbort
  <2> QED
    BY <2>1
<1>4. ASSUME NEW t \in Tunnels, End(t) \/ EndUnflushed(t) \/ FinalLock(t) \/ FinalFlushed(t) PROVE ListedInv'
  BY <1>4 DEF End, EndUnflushed, FinalLock, FinalFlushed
<1>5. ASSUME NEW t \in Tunnels, Unregister(t) PROVE ListedInv'
  BY <1>5 DEF Unregister, UnregisterGet, UnregisterDel, UnregisterSession, UnregisterError
<1>6. CASE Revoke
  BY <1>6 DEF Revoke
<1>7. CASE Restart
  BY <1>7 DEF Restart
<1>8. CASE UNCHANGED vars
  BY <1>8 DEF vars
<1> QED
  BY <1>1, <1>2, <1>3, <1>4, <1>5, <1>6, <1>7, <1>8 DEF Next

\* The script adds to the set of a session only below the limit.
LEMMA PlacesStep == TypeOK /\ PlacesInv /\ [Next]_vars => PlacesInv'
<1> SUFFICES ASSUME TypeOK, PlacesInv, [Next]_vars PROVE PlacesInv'
  OBVIOUS
<1>1. IsFiniteSet(session)
  BY ProxySessionConstants, FS_Subset DEF TypeOK
<1>2. CASE session' \subseteq session
  <2>1. Cardinality(session') <= Cardinality(session)
    BY <1>1, <1>2, FS_Subset
  <2>2. Cardinality(session') \in Nat /\ Cardinality(session) \in Nat
    BY <1>1, <1>2, FS_Subset, FS_CardinalityType
  <2> QED
    BY <2>1, <2>2, ProxySessionConstants DEF PlacesInv
<1>3. ASSUME NEW t \in Tunnels, RegisterSession(t) PROVE PlacesInv'
  <2>1. CASE LimitReached
    BY <1>2, <1>3, <2>1 DEF RegisterSession
  <2>2. CASE ~LimitReached
    <3>1. session' = session \cup {t}
      BY <1>3, <2>2 DEF RegisterSession
    <3>2. Cardinality(session) \in Nat
      BY <1>1, FS_CardinalityType
    <3>3. Cardinality(session') = IF t \in session THEN Cardinality(session) ELSE Cardinality(session) + 1
      BY <1>1, <3>1, FS_AddElement
    <3> QED
      BY <2>2, <3>2, <3>3, ProxySessionConstants DEF LimitReached, PlacesInv
  <2> QED
    BY <2>1, <2>2
<1>4. (\E t \in Tunnels : RegisterSession(t)) \/ session' \subseteq session
  BY DEF Next, vars, registry, Open, Register, RegisterHash, Undo, RegisterTotal, RegisterError, Cancel, Carry,
         Checkpoint, CpLoad, CpLock, CpFlushed, CpRedis, CpStop, CpAbort, End, EndUnflushed, FinalLock,
         FinalFlushed, Unregister, UnregisterGet, UnregisterDel, UnregisterSession, UnregisterError, Revoke, Restart
<1> QED
  BY <1>2, <1>3, <1>4

\* The registry of a session holds what its tunnels need, for any limit.
THEOREM RegistryInvariant == Spec => []RegistryInv
<1>2. Init => ListedInv
  BY DEF Init, ListedInv, Running
<1>3. Init => PlacesInv
  BY FS_EmptySet, ProxySessionConstants DEF Init, PlacesInv
<1>4. RegistryInv /\ [Next]_vars => RegistryInv'
  BY TypeStep, ListedStep, PlacesStep DEF RegistryInv
<1>5. Init => RegistryInv
  BY <1>2, <1>3, TypeInit DEF RegistryInv
<1> QED
  BY <1>4, <1>5, PTL DEF Spec

\* max_concurrent_devices_per_session bounds the registered tunnels relayed at
\* a time.
THEOREM DevicesAreLimited == Spec => []DeviceLimit
<1>1. RegistryInv => DeviceLimit
  <2> SUFFICES ASSUME RegistryInv, MaxDevices > 0
               PROVE Cardinality({t \in registered : pc[t] \in Running}) <= MaxDevices
    BY DEF DeviceLimit, Running
  <2> DEFINE Relayed == {t \in registered : pc[t] \in Running}
  <2>1. Relayed \subseteq session
    BY DEF RegistryInv, TypeOK, ListedInv
  <2>2. IsFiniteSet(session)
    BY ProxySessionConstants, FS_Subset DEF RegistryInv, TypeOK
  <2>3. Cardinality(Relayed) <= Cardinality(session) /\ Cardinality(Relayed) \in Nat /\ Cardinality(session) \in Nat
    BY <2>1, <2>2, FS_Subset, FS_CardinalityType
  <2>4. Cardinality(session) <= MaxDevices
    BY DEF RegistryInv, PlacesInv
  <2> HIDE DEF Relayed
  <2> QED
    BY <2>3, <2>4, ProxySessionConstants DEF Relayed
<1> QED
  BY <1>1, RegistryInvariant, PTL

\* A tunnel that was unregistered without error has left its session.
THEOREM UnregisteredIsUnlisted == Spec => []GoneIsUnlisted
<1>1. RegistryInv => GoneIsUnlisted
  BY DEF RegistryInv, ListedInv, GoneIsUnlisted
<1> QED
  BY <1>1, RegistryInvariant, PTL
=============================================================================
