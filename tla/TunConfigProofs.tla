--------------------------- MODULE TunConfigProofs ---------------------------
(***************************************************************************)
(* The file and the tables of TunConfig follow the configuration in        *)
(* memory, for any number of PUTs, profiles and routes.                    *)
(***************************************************************************)
EXTENDS TunConfig, TLAPS

\* The places from which a handler still uses the root it read.
Holding == {"replace", "open", "write"} \cup Syncing

HoldInv == \A h \in Handlers : pc[h] \in Holding => root[h] \in Roots

\* While a guard is held the root cannot be replaced, so all guarded writes
\* write the same; a write without a guard was abandoned.
GuardInv ==
  /\ \A h \in readers : pc[h] \in {"open", "write", "wrote"}
  /\ \A h \in readers : pc[h] \in {"open", "write"} => root[h] = mem
  /\ Orphans # {} => unsaved

\* The file is right, or will be once the saves that are due have been made.
FileInv ==
  ~unsaved =>
    \/ \E h \in Handlers : pc[h] \in {"save", "open"}
    \/ (\E h \in Handlers : pc[h] = "write") /\ disk \in {Empty, mem}
    \/ (\A h \in Handlers : pc[h] # "write") /\ Loaded = mem

SaveInv == TypeOK /\ HoldInv /\ GuardInv /\ FileInv

-----------------------------------------------------------------------------

\* The default is a root.
LEMMA DefaultIsRoot == Default \in Roots
BY TunConfigConstants DEF Default, Roots, Kinds

\* What load returns is a root.
LEMMA LoadedIsRoot == TypeOK => Loaded \in Roots
BY DefaultIsRoot DEF TypeOK, Loaded

\* A first start satisfies the invariant.
LEMMA SaveInvInit == Init => SaveInv
<1> SUFFICES ASSUME Init PROVE SaveInv
  OBVIOUS
<1>1. TypeOK
  BY DefaultIsRoot DEF Init, TypeOK, Unreadable, Pcs
<1>2. Loaded = mem
  BY DEF Init, Loaded, Unreadable
<1> QED
  BY <1>1, <1>2 DEF Init, SaveInv, HoldInv, Holding, Syncing, GuardInv, Orphans, FileInv

\* Every step keeps the types.
LEMMA TypeStep == TypeOK /\ HoldInv /\ [Next]_vars => TypeOK'
<1> SUFFICES ASSUME TypeOK, HoldInv, [Next]_vars PROVE TypeOK'
  OBVIOUS
<1> USE DEF TypeOK, Pcs, Syncing, Goto, Done, tables
<1>1. ASSUME NEW h \in Handlers, Put(h) \/ ReadRoot(h) PROVE TypeOK'
  BY <1>1 DEF Put, ReadRoot
<1>2. ASSUME NEW h \in Handlers, ReplaceRoot(h) PROVE TypeOK'
  <2>1. root[h] \in Roots
    BY <1>2 DEF ReplaceRoot, HoldInv, Holding
  <2>2. mem' \in Roots
    BY <1>2, <2>1 DEF ReplaceRoot, Merged, Roots
  <2> QED
    BY <1>2, <2>2 DEF ReplaceRoot
<1>3. ASSUME NEW h \in Handlers, Save(h) \/ Truncate(h) PROVE TypeOK'
  BY <1>3, ZenonT(30) DEF Save, Truncate, Unreadable
<1>4. ASSUME NEW h \in Handlers, Write(h) PROVE TypeOK'
  BY <1>4 DEF Write, HoldInv, Holding, Unreadable
<1>5. ASSUME NEW h \in Handlers, SaveFails(h) \/ Saved(h) PROVE TypeOK'
  BY <1>5 DEF SaveFails, Saved, Unreadable
<1>6. ASSUME NEW h \in Handlers, Resync(h) \/ SyncStreams(h) \/ UpsertTasks(h) \/ RetainTasks(h) PROVE TypeOK'
  BY <1>6, ZenonT(30) DEF Resync, SyncStreams, UpsertTasks, RetainTasks, Of, Tcp
<1>7. ASSUME NEW h \in Handlers, SpawnListeners(h) \/ RetainConnectors(h) \/ SpawnConnectors(h) PROVE TypeOK'
  BY <1>7 DEF SpawnListeners, RetainConnectors, SpawnConnectors, Of
<1>8. ASSUME NEW h \in Handlers, Cancel(h) PROVE TypeOK'
  BY <1>8 DEF Cancel
<1>9. CASE Restart
  BY <1>9, LoadedIsRoot DEF Restart, Of, Tcp
<1>10. CASE UNCHANGED vars
  BY <1>10 DEF vars
<1> QED
  BY <1>1, <1>2, <1>3, <1>4, <1>5, <1>6, <1>7, <1>8, <1>9, <1>10 DEF Next, Step

\* Every step keeps the roots in hand, the guards and the file.
LEMMA SaveStep == SaveInv /\ [Next]_vars => (HoldInv /\ GuardInv /\ FileInv)'
<1> DEFINE Goal == (HoldInv /\ GuardInv /\ FileInv)'
<1> SUFFICES ASSUME SaveInv, [Next]_vars PROVE Goal
  OBVIOUS
<1>0. TypeOK /\ HoldInv /\ GuardInv /\ FileInv
  BY DEF SaveInv
<1> USE <1>0 DEF HoldInv, Holding, Syncing, GuardInv, Orphans, FileInv, Loaded, Goto, Done
<1>1. ASSUME NEW h \in Handlers, Put(h) \/ ReadRoot(h) PROVE Goal
  BY <1>1 DEF Put, ReadRoot, TypeOK
<1>2. ASSUME NEW h \in Handlers, ReplaceRoot(h) PROVE Goal
  BY <1>2 DEF ReplaceRoot, TypeOK
<1>3. ASSUME NEW h \in Handlers, Save(h) PROVE Goal
  BY <1>3 DEF Save, TypeOK
<1>4. ASSUME NEW h \in Handlers, Truncate(h) PROVE Goal
  BY <1>4 DEF Truncate, TypeOK
<1>5. ASSUME NEW h \in Handlers, Write(h) PROVE Goal
  BY <1>5, RootsConstants DEF Write, TypeOK, Unreadable
<1>6. ASSUME NEW h \in Handlers, SaveFails(h) PROVE Goal
  BY <1>6 DEF SaveFails, TypeOK
<1>7. ASSUME NEW h \in Handlers, Saved(h) PROVE Goal
  BY <1>7 DEF Saved, TypeOK
<1>8. ASSUME NEW h \in Handlers, Resync(h) \/ SyncStreams(h) \/ UpsertTasks(h) \/ RetainTasks(h) PROVE Goal
  BY <1>8 DEF Resync, SyncStreams, UpsertTasks, RetainTasks, TypeOK
<1>9. ASSUME NEW h \in Handlers, SpawnListeners(h) \/ RetainConnectors(h) \/ SpawnConnectors(h) PROVE Goal
  BY <1>9 DEF SpawnListeners, RetainConnectors, SpawnConnectors, TypeOK
<1>10. ASSUME NEW h \in Handlers, Cancel(h) PROVE Goal
  BY <1>10, ZenonT(30) DEF Cancel, TypeOK
<1>11. CASE Restart
  BY <1>11 DEF Restart, TypeOK
<1>12. CASE UNCHANGED vars
  BY <1>12 DEF vars
<1> QED
  BY <1>1, <1>2, <1>3, <1>4, <1>5, <1>6, <1>7, <1>8, <1>9, <1>10, <1>11, <1>12 DEF Next, Step

\* The invariant of the saves holds in every execution.
THEOREM SaveInvariant == Spec => []SaveInv
<1>1. SaveInv /\ [Next]_vars => SaveInv'
  BY TypeStep, SaveStep DEF SaveInv
<1> QED
  BY <1>1, SaveInvInit, PTL DEF Spec

\* A restart loads the configuration that was in memory, unless a save was due
\* or failed.
THEOREM FileFollowsMemory == Spec => []RestartKeepsConfig
<1>1. SaveInv => RestartKeepsConfig
  BY DEF SaveInv, FileInv, RestartKeepsConfig
<1> QED
  BY <1>1, SaveInvariant, PTL

-----------------------------------------------------------------------------

TablesRight ==
  /\ Of("tcp", mem) \subseteq listeners /\ listeners \subseteq Tcp(mem) /\ Tcp(mem) \subseteq queues
  /\ task_queues = Of("bus", mem)
  /\ connectors = Of("conn", mem)

\* How far the tables are right when handler h is where it is.
SyncedUpTo(h) ==
  /\ pc[h] \in Syncing => root[h].profiles = mem.profiles
  /\ pc[h] \in Syncing \ {"streams"} => listeners \subseteq Tcp(mem) /\ Tcp(mem) \subseteq queues
  /\ pc[h] \in Syncing \ {"streams", "tasks"} => Of("bus", mem) \subseteq task_queues
  /\ pc[h] \in {"spawn", "conns", "dial"} => task_queues \subseteq Of("bus", mem)
  /\ pc[h] \in {"conns", "dial"} => Of("tcp", mem) \subseteq listeners
  /\ pc[h] = "dial" => connectors \subseteq Of("conn", mem)

TableInv ==
  fresh =>
    /\ \A h \in Handlers : SyncedUpTo(h)
    /\ (\A h \in Handlers : pc[h] \notin Syncing) => TablesRight

\* Which ids get which task depends on the profiles alone.
LEMMA OfProfiles ==
  ASSUME NEW r, NEW s, r.profiles = s.profiles
  PROVE  Tcp(r) = Tcp(s) /\ \A k : Of(k, r) = Of(k, s)
BY SMTT(30) DEF Of, Tcp

\* Every step keeps the tables as right as they have to be.
LEMMA TableStep == TypeOK /\ TableInv /\ [Next]_vars => TableInv'
<1> SUFFICES ASSUME TypeOK, TableInv, [Next]_vars, fresh' PROVE TableInv'
  BY DEF TableInv
<1> USE DEF TypeOK, TableInv, SyncedUpTo, TablesRight, Syncing, Goto, Done, tables
<1>1. ASSUME NEW h \in Handlers, Put(h) \/ ReadRoot(h) PROVE TableInv'
  BY <1>1, ZenonT(30) DEF Put, ReadRoot
<1>2. ASSUME NEW h \in Handlers, ReplaceRoot(h) PROVE TableInv'
  <2>1. mem'.profiles = mem.profiles /\ fresh
    BY <1>2 DEF ReplaceRoot
  <2>2. Tcp(mem') = Tcp(mem) /\ \A k : Of(k, mem') = Of(k, mem)
    BY <2>1, OfProfiles
  <2>3. Tcp(mem)' = Tcp(mem) /\ Of("tcp", mem)' = Of("tcp", mem) /\ Of("bus", mem)' = Of("bus", mem)
        /\ Of("conn", mem)' = Of("conn", mem)
    BY <2>2 DEF Of, Tcp
  <2> QED
    BY <1>2, <2>1, <2>3 DEF ReplaceRoot
<1>3. ASSUME NEW h \in Handlers, Save(h) \/ Truncate(h) \/ Write(h) PROVE TableInv'
  BY <1>3, ZenonT(30) DEF Save, Truncate, Write
<1>4. ASSUME NEW h \in Handlers, SaveFails(h) \/ Saved(h) PROVE TableInv'
  BY <1>4, ZenonT(30) DEF SaveFails, Saved
<1>5. ASSUME NEW h \in Handlers, Resync(h) PROVE TableInv'
  BY <1>5 DEF Resync
<1>6. ASSUME NEW h \in Handlers,
             SyncStreams(h) \/ UpsertTasks(h) \/ RetainTasks(h) \/ SpawnListeners(h)
               \/ RetainConnectors(h) \/ SpawnConnectors(h)
      PROVE  TableInv'
  <2>1. fresh /\ mem' = mem
    BY <1>6 DEF SyncStreams, UpsertTasks, RetainTasks, SpawnListeners, RetainConnectors, SpawnConnectors
  <2>2. root[h].profiles = mem.profiles
    BY <1>6, <2>1 DEF SyncStreams, UpsertTasks, RetainTasks, SpawnListeners, RetainConnectors, SpawnConnectors
  <2>3. Tcp(root[h]) = Tcp(mem) /\ \A k : Of(k, root[h]) = Of(k, mem)
    BY <2>2, OfProfiles
  <2>4. Of("tcp", mem) \subseteq Tcp(mem)
    BY DEF Tcp
  <2> USE <2>1, <2>3, <2>4
  <2>5. CASE SyncStreams(h)
    BY <2>5 DEF SyncStreams
  <2>6. CASE UpsertTasks(h)
    BY <2>6 DEF UpsertTasks
  <2>7. CASE RetainTasks(h)
    BY <2>7 DEF RetainTasks
  <2>8. CASE SpawnListeners(h)
    BY <2>8 DEF SpawnListeners
  <2>9. CASE RetainConnectors(h)
    BY <2>9 DEF RetainConnectors
  <2>10. CASE SpawnConnectors(h)
    BY <2>10 DEF SpawnConnectors
  <2> QED
    BY <1>6, <2>5, <2>6, <2>7, <2>8, <2>9, <2>10
<1>7. ASSUME NEW h \in Handlers, Cancel(h) PROVE TableInv'
  BY <1>7 DEF Cancel
<1>8. CASE Restart
  BY <1>8 DEF Restart, Tcp
<1>9. CASE UNCHANGED vars
  BY <1>9 DEF vars
<1> QED
  BY <1>1, <1>2, <1>3, <1>4, <1>5, <1>6, <1>7, <1>8, <1>9 DEF Next, Step

\* After resyncs that did not overlap an older one, every enabled profile has
\* its task and no other has.
THEOREM TablesFollowMemory == Spec => []TablesFollowConfig
<1>1. Init => TableInv
  BY DEF Init, TableInv, SyncedUpTo, TablesRight, Syncing, Default, Of, Tcp
<1>2. SaveInv => TypeOK
  BY DEF SaveInv
<1>3. TableInv => TablesFollowConfig
  BY DEF TableInv, TablesRight, TablesFollowConfig
<1> QED
  BY <1>1, <1>2, <1>3, SaveInvariant, TableStep, PTL DEF Spec
=============================================================================
