------------------------ MODULE TunnelAdmissionProofs ------------------------
(***************************************************************************)
(* The slot counter of TunnelAdmission, for any number of tunnels, any     *)
(* limit and any priorities.                                               *)
(***************************************************************************)
EXTENDS TunnelAdmission, FiniteSetTheorems, TLAPS

\* The compare-exchange is attempted only with a value below the limit.
SlotInv ==
  /\ max \in Nat
  /\ active \in Nat
  /\ pc \in [Tunnels -> Pcs]
  /\ cur \in [Tunnels -> Nat]
  /\ ActiveIsGuards
  /\ \A t \in Tunnels : pc[t] = "cas" => cur[t] < max
  /\ max > 0 => active <= max

\* The guards alive can be counted.
LEMMA HoldersFinite == IsFiniteSet(Holders)
BY TunnelAdmissionConstants, FS_Subset DEF Holders

\* A server that has just started satisfies the invariant.
LEMMA SlotInvInit == Init => SlotInv
<1> SUFFICES ASSUME Init PROVE SlotInv
  OBVIOUS
<1>1. Holders = {}
  BY DEF Init, Holders
<1>2. ActiveIsGuards
  BY <1>1, FS_EmptySet DEF Init, ActiveIsGuards
<1> QED
  BY <1>2, TunnelAdmissionConstants DEF Init, SlotInv, Pcs

\* Every step preserves it.
LEMMA SlotInvStep == SlotInv /\ [Next]_vars => SlotInv'
<1> SUFFICES ASSUME SlotInv, [Next]_vars PROVE SlotInv'
  OBVIOUS
<1>m. max' = max
  BY DEF Next, vars
<1> USE <1>m, TunnelAdmissionConstants DEF Pcs, Goto
<1>0. active \in Nat /\ pc \in [Tunnels -> Pcs] /\ cur \in [Tunnels -> Nat] /\ ActiveIsGuards
  BY DEF SlotInv
<1>1. ASSUME NEW t \in Tunnels, pc[t] # "holding", pc' = [pc EXCEPT ![t] = "holding"], active' = active + 1
      PROVE  ActiveIsGuards'
  <2>1. Holders' = Holders \cup {t} /\ t \notin Holders
    BY <1>0, <1>1 DEF Holders
  <2>2. Cardinality(Holders') = Cardinality(Holders) + 1
    BY <2>1, HoldersFinite, FS_AddElement
  <2> QED
    BY <1>0, <1>1, <2>2 DEF ActiveIsGuards
<1>2. ASSUME NEW t \in Tunnels, NEW l \in Pcs \ {"holding"}, pc[t] # "holding", pc' = [pc EXCEPT ![t] = l],
             active' = active
      PROVE  ActiveIsGuards'
  <2>1. Holders' = Holders
    BY <1>0, <1>2 DEF Holders
  <2> QED
    BY <1>0, <1>2, <2>1 DEF ActiveIsGuards
<1>3. CASE UNCHANGED vars
  <2>1. Holders' = Holders
    BY <1>3 DEF vars, Holders
  <2> QED
    BY <1>3, <2>1 DEF vars, SlotInv, ActiveIsGuards
<1>4. ASSUME NEW t \in Tunnels, TakeUnlimited(t) PROVE SlotInv'
  <2>1. ActiveIsGuards'
    BY <1>1, <1>4 DEF TakeUnlimited
  <2> QED
    BY <1>4, <2>1 DEF TakeUnlimited, SlotInv
<1>5. ASSUME NEW t \in Tunnels, Load(t) PROVE SlotInv'
  <2>1. ActiveIsGuards'
    BY <1>2, <1>5 DEF Load
  <2> QED
    BY <1>5, <2>1 DEF Load, SlotInv, SlotFree
<1>6. ASSUME NEW t \in Tunnels, CompareExchange(t) PROVE SlotInv'
  <2>1. CASE active = cur[t]
    <3>1. active' = active + 1 /\ pc' = [pc EXCEPT ![t] = "holding"] /\ pc[t] = "cas"
      BY <1>6, <2>1 DEF CompareExchange
    <3>2. ActiveIsGuards'
      BY <1>1, <3>1
    <3>3. max > 0 => active' <= max
      BY <1>0, <2>1, <3>1 DEF SlotInv
    <3> QED
      BY <1>6, <3>1, <3>2, <3>3 DEF CompareExchange, SlotInv
  <2>2. CASE active # cur[t]
    <3>1. ActiveIsGuards'
      BY <1>2, <1>6, <2>2 DEF CompareExchange
    <3> QED
      BY <1>6, <2>2, <3>1 DEF CompareExchange, SlotInv
  <2> QED
    BY <2>1, <2>2
<1>7. ASSUME NEW t \in Tunnels, Release(t) PROVE SlotInv'
  <2>1. Holders' = Holders \ {t} /\ t \in Holders
    BY <1>0, <1>7 DEF Release, Holders
  <2>2. Cardinality(Holders') = Cardinality(Holders) - 1
    BY <2>1, HoldersFinite, FS_RemoveElement
  <2>3. Cardinality(Holders') \in Nat
    BY <2>1, HoldersFinite, FS_Subset, FS_CardinalityType
  <2>4. ActiveIsGuards' /\ active' \in Nat
    BY <1>0, <1>7, <2>2, <2>3 DEF Release, ActiveIsGuards
  <2> QED
    BY <1>7, <2>4 DEF Release, SlotInv
<1>8. ASSUME NEW t \in Tunnels, NEW l \in Pcs \ {"holding", "cas"}, pc[t] # "holding",
             pc' = [pc EXCEPT ![t] = l], UNCHANGED <<active, cur>>
      PROVE  SlotInv'
  <2>1. ActiveIsGuards'
    BY <1>2, <1>8
  <2> QED
    BY <1>8, <2>1 DEF SlotInv
<1>9. ASSUME NEW t \in Tunnels,
             \/ Open(t) \/ EnqueueWaiter(t) \/ Wake(t) \/ Retry(t) \/ TimeOut(t) \/ LeaveQueue(t)
             \/ Cancel(t) \/ PopBest(t) \/ NotifyOne(t)
      PROVE  SlotInv'
  <2>1. /\ UNCHANGED <<active, cur>>
        /\ pc[t] # "holding"
        /\ \E l \in Pcs \ {"holding", "cas"} : pc' = [pc EXCEPT ![t] = l]
    BY <1>9 DEF Open, EnqueueWaiter, Wake, Retry, TimeOut, LeaveQueue, Cancel, PopBest, NotifyOne
  <2> QED
    BY <1>8, <2>1
<1>10. ASSUME NEW t \in Tunnels, SpuriousFailure(t) PROVE SlotInv'
  <2>1. ActiveIsGuards'
    BY <1>2, <1>10 DEF SpuriousFailure
  <2> QED
    BY <1>10, <2>1 DEF SpuriousFailure, SlotInv
<1> QED
  BY <1>3, <1>4, <1>5, <1>6, <1>7, <1>9, <1>10 DEF Next, Run

\* The slot invariant holds in every execution.
THEOREM SlotInvariant == Spec => []SlotInv
BY SlotInvInit, SlotInvStep, PTL DEF Spec

\* The counter is exactly the number of admission guards alive.
THEOREM CounterIsGuards == Spec => []ActiveIsGuards
<1>1. SlotInv => ActiveIsGuards
  BY DEF SlotInv
<1> QED
  BY <1>1, SlotInvariant, PTL

\* The limit on concurrent tunnels holds for every number of tunnels racing
\* in try_take_slot.
THEOREM LimitHolds == Spec => []SlotsBounded
<1>1. SlotInv => SlotsBounded
  BY DEF SlotInv, SlotsBounded, ActiveIsGuards
<1> QED
  BY <1>1, SlotInvariant, PTL
=============================================================================
