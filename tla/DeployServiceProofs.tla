------------------------- MODULE DeployServiceProofs -------------------------
(***************************************************************************)
(* The managed process of DeployService, for any number of concurrent      *)
(* requests, releases and processes, with handlers dropped at any await.   *)
(***************************************************************************)
EXTENDS DeployService, TLAPS

\* The handlers that have stopped the child and not started another.
Between == {"link", "ports", "start"}

TypeInv ==
  /\ child \in Procs \cup {None}
  /\ version \in Versions \cup {None}
  /\ live \in SUBSET Procs
  /\ stray \in SUBSET Procs
  /\ from \in Versions \cup {None}
  /\ lock \in Requests \cup {None}
  /\ pc \in [Requests -> Pcs]
  /\ arg \in [Requests -> Versions \cup {None}]
  /\ link \in Versions \cup {None}

\* The mutex excludes, and its holder is the only one to change the child.
LockInv ==
  /\ \A r \in Requests : pc[r] \in Locked => lock = r
  /\ \A r \in Requests : pc[r] \in Between => child = None

\* RunningHasChild without its restriction to the moments the mutex is free.
StatusInv ==
  state = "running" /\ child = None =>
    dropped \/ \E r \in Requests : pc[r] \in Between \cup {"gap"}

ProcInv == TypeInv /\ LockInv /\ ChildrenAreHeld /\ ChildIsCurrent /\ StatusInv

\* A server that has just been installed satisfies the invariant.
LEMMA ProcInvInit == Init => ProcInv
BY DeployServiceConstants
   DEF Init, ProcInv, TypeInv, LockInv, ChildrenAreHeld, ChildIsCurrent, StatusInv, Pcs, Locked, Between

\* Every step keeps the types.
LEMMA TypeStep == ProcInv /\ [Next]_vars => TypeInv'
<1> SUFFICES ASSUME ProcInv, [Next]_vars PROVE TypeInv'
  OBVIOUS
<1> USE DeployServiceConstants DEF TypeInv, Pcs, Locked, Goto, Done
<1>0. TypeInv
  BY DEF ProcInv
<1>1. ASSUME NEW r \in Requests, Begin(r) PROVE TypeInv'
  BY <1>0, <1>1 DEF Begin, files, app, procs, db
<1>2. ASSUME NEW r \in Requests, UnpackStart(r) \/ UnpackEnd(r) \/ Check(r) PROVE TypeInv'
  <2>1. CASE UnpackStart(r)
    BY <1>0, <2>1 DEF UnpackStart, app, db, procs
  <2>2. CASE UnpackEnd(r)
    BY <1>0, <2>2 DEF UnpackEnd, app, db, procs
  <2>3. CASE Check(r)
    BY <1>0, <2>3 DEF Check, app, procs, db, files
  <2> QED
    BY <1>2, <2>1, <2>2, <2>3
<1>3. ASSUME NEW r \in Requests, Acquire(r) \/ AcquireStop(r) \/ AcquireRestart(r) PROVE TypeInv'
  <2>1. CASE Acquire(r)
    BY <1>0, <2>1 DEF Acquire, app, procs, db, files
  <2>2. CASE AcquireStop(r)
    BY <1>0, <2>2 DEF AcquireStop, Refresh, db, files
  <2>3. CASE AcquireRestart(r)
    BY <1>0, <2>3 DEF AcquireRestart, Refresh, RestartVersion, db, files
  <2> QED
    BY <1>3, <2>1, <2>2, <2>3
<1>4. ASSUME NEW r \in Requests, StopChild(r) PROVE TypeInv'
  BY <1>0, <1>4 DEF StopChild, Kill, StopVersion, files
<1>5. ASSUME NEW r \in Requests, LinkOk(r) \/ LinkFail(r) \/ KillListeners(r) \/ PortsFree(r) \/ PortsBusy(r)
      PROVE  TypeInv'
  <2>1. CASE LinkOk(r)
    BY <1>0, <2>1 DEF LinkOk, app, procs
  <2>2. CASE LinkFail(r) \/ PortsBusy(r)
    BY <1>0, <2>2 DEF LinkFail, PortsBusy, Fail, files, procs
  <2>3. CASE PortsFree(r)
    BY <1>0, <2>3 DEF PortsFree, app, files, procs
  <2>4. CASE KillListeners(r)
    BY <1>0, <2>4 DEF KillListeners, files
  <2> QED
    BY <1>5, <2>1, <2>2, <2>3, <2>4
<1>6. ASSUME NEW r \in Requests, Start(r) \/ StartFail(r) PROVE TypeInv'
  <2>1. CASE Start(r)
    BY <1>0, <2>1 DEF Start, files
  <2>2. CASE StartFail(r)
    BY <1>0, <2>2 DEF StartFail, Fail, files, procs
  <2> QED
    BY <1>6, <2>1, <2>2
<1>7. ASSUME NEW r \in Requests, RemoveBusy(r) \/ RemoveState(r) \/ RemoveFiles(r) \/ RemoveRows(r)
      PROVE  TypeInv'
  <2>1. CASE RemoveBusy(r)
    BY <1>0, <2>1 DEF RemoveBusy, Fail, files, procs
  <2>2. CASE RemoveState(r)
    BY <1>0, <2>2 DEF RemoveState, files, procs
  <2>3. CASE RemoveFiles(r)
    BY <1>0, <2>3 DEF RemoveFiles, app, procs
  <2>4. CASE RemoveRows(r)
    BY <1>0, <2>4 DEF RemoveRows, app, files, procs
  <2> QED
    BY <1>7, <2>1, <2>2, <2>3, <2>4
<1>8. ASSUME NEW r \in Requests, Cancel(r) PROVE TypeInv'
  BY <1>0, <1>8 DEF Cancel, Kill, files
<1>9. CASE GetStatus \/ ReconcileRead
  BY <1>0, <1>9 DEF GetStatus, ReconcileRead, Refresh, files
<1>10. ASSUME NEW p \in Procs, Exit(p) PROVE TypeInv'
  BY <1>0, <1>10 DEF Exit, files
<1>11. ASSUME NEW k, DbRecord(k) \/ ReconcileWrite PROVE TypeInv'
  BY <1>0, <1>11 DEF DbRecord, ReconcileWrite, files, app, procs
<1>12. CASE Restart
  BY <1>0, <1>12 DEF Restart, files
<1>13. CASE UNCHANGED vars
  BY <1>0, <1>13 DEF vars
<1> QED
  BY <1>1, <1>2, <1>3, <1>4, <1>5, <1>6, <1>7, <1>8, <1>9, <1>10, <1>11, <1>12, <1>13 DEF Next, Handle

\* Every step keeps the mutual exclusion, the hold on the child, the agreement
\* of child and version, and the honesty of the state.
LEMMA ProcStep == ProcInv /\ [Next]_vars => (LockInv /\ ChildrenAreHeld /\ ChildIsCurrent /\ StatusInv)'
<1> DEFINE Goal == (LockInv /\ ChildrenAreHeld /\ ChildIsCurrent /\ StatusInv)'
<1> SUFFICES ASSUME ProcInv, [Next]_vars PROVE Goal
  OBVIOUS
<1> USE DeployServiceConstants DEF Pcs, Locked, Between, Goto, Done
<1>0. TypeInv /\ LockInv /\ ChildrenAreHeld /\ ChildIsCurrent /\ StatusInv
  BY DEF ProcInv
<1> USE <1>0 DEF TypeInv, LockInv, ChildrenAreHeld, ChildIsCurrent, StatusInv
<1>1. ASSUME NEW r \in Requests, Begin(r) PROVE Goal
  BY <1>1 DEF Begin, app, procs
<1>2. ASSUME NEW r \in Requests, UnpackStart(r) \/ UnpackEnd(r) \/ Check(r) PROVE Goal
  <2>1. CASE UnpackStart(r)
    BY <2>1 DEF UnpackStart, app, procs
  <2>2. CASE UnpackEnd(r)
    BY <2>2 DEF UnpackEnd, app, procs
  <2>3. CASE Check(r)
    BY <2>3 DEF Check, app, procs
  <2> QED
    BY <1>2, <2>1, <2>2, <2>3
<1>3. ASSUME NEW r \in Requests, Acquire(r) \/ AcquireStop(r) \/ AcquireRestart(r) PROVE Goal
  <2>1. CASE Acquire(r)
    BY <2>1 DEF Acquire, app, procs
  <2>2. CASE AcquireStop(r)
    BY <2>2 DEF AcquireStop, Refresh
  <2>3. CASE AcquireRestart(r)
    BY <2>3 DEF AcquireRestart, Refresh
  <2> QED
    BY <1>3, <2>1, <2>2, <2>3
<1>4. ASSUME NEW r \in Requests, StopChild(r) PROVE Goal
  BY <1>4 DEF StopChild, Kill
<1>5. ASSUME NEW r \in Requests, LinkOk(r) \/ LinkFail(r) \/ KillListeners(r) \/ PortsFree(r) \/ PortsBusy(r)
      PROVE  Goal
  <2>1. CASE LinkOk(r)
    BY <2>1 DEF LinkOk, app, procs
  <2>2. CASE LinkFail(r) \/ PortsBusy(r)
    BY <2>2 DEF LinkFail, PortsBusy, Fail, procs
  <2>3. CASE PortsFree(r)
    BY <2>3 DEF PortsFree, app, procs
  <2>4. CASE KillListeners(r)
    BY <2>4 DEF KillListeners
  <2> QED
    BY <1>5, <2>1, <2>2, <2>3, <2>4
<1>6. ASSUME NEW r \in Requests, Start(r) \/ StartFail(r) PROVE Goal
  <2>1. CASE Start(r)
    BY <2>1 DEF Start
  <2>2. CASE StartFail(r)
    BY <2>2 DEF StartFail, Fail, procs
  <2> QED
    BY <1>6, <2>1, <2>2
<1>7. ASSUME NEW r \in Requests, RemoveBusy(r) \/ RemoveState(r) \/ RemoveFiles(r) \/ RemoveRows(r)
      PROVE  Goal
  <2>1. CASE RemoveBusy(r)
    BY <2>1 DEF RemoveBusy, Fail, procs
  <2>2. CASE RemoveState(r)
    BY <2>2 DEF RemoveState, procs
  <2>3. CASE RemoveFiles(r)
    BY <2>3 DEF RemoveFiles, app, procs
  <2>4. CASE RemoveRows(r)
    BY <2>4 DEF RemoveRows, app, procs
  <2> QED
    BY <1>7, <2>1, <2>2, <2>3, <2>4
<1>8. ASSUME NEW r \in Requests, Cancel(r) PROVE Goal
  BY <1>8 DEF Cancel, Kill
<1>9. CASE GetStatus \/ ReconcileRead
  BY <1>9 DEF GetStatus, ReconcileRead, Refresh
<1>10. ASSUME NEW p \in Procs, Exit(p) PROVE Goal
  BY <1>10 DEF Exit
<1>11. ASSUME NEW k, DbRecord(k) \/ ReconcileWrite PROVE Goal
  BY <1>11 DEF DbRecord, ReconcileWrite, app, procs
<1>12. CASE Restart
  BY <1>12 DEF Restart
<1>13. CASE UNCHANGED vars
  BY <1>13 DEF vars
<1> QED
  BY <1>1, <1>2, <1>3, <1>4, <1>5, <1>6, <1>7, <1>8, <1>9, <1>10, <1>11, <1>12, <1>13 DEF Next, Handle

\* The invariant holds in every execution.
THEOREM ProcInvariant == Spec => []ProcInv
<1>1. ProcInv /\ [Next]_vars => ProcInv'
  BY TypeStep, ProcStep DEF ProcInv
<1> QED
  BY <1>1, ProcInvInit, PTL DEF Spec

\* A spawned child that runs is the one the server can stop, or one try_wait
\* failed for: no handler loses the handle of a running child.
THEOREM NoHandleIsLost == Spec => []ChildrenAreHeld
<1>1. ProcInv => ChildrenAreHeld
  BY DEF ProcInv
<1> QED
  BY <1>1, ProcInvariant, PTL

\* The managed process runs the release the server has in memory.
THEOREM ProcessIsCurrent == Spec => []ChildIsCurrent
<1>1. ProcInv => ChildIsCurrent
  BY DEF ProcInv
<1> QED
  BY <1>1, ProcInvariant, PTL

\* With the mutex free, "running" means a child, up to removals under way and
\* dropped handlers.
THEOREM RunningIsHonest == Spec => []RunningHasChild
<1>1. ProcInv => RunningHasChild
  BY DeployServiceConstants
     DEF ProcInv, LockInv, StatusInv, RunningHasChild, Between, Locked
<1> QED
  BY <1>1, ProcInvariant, PTL
=============================================================================
