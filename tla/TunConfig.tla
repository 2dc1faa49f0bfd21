------------------------------ MODULE TunConfig ------------------------------
(***************************************************************************)
(* The configuration of stack-tun-api: the PersistRoot in memory behind an *)
(* async RwLock (stack-tun-api/src/store.rs), its copy in profiles.json,   *)
(* PUT config and PUT routes (http_api.rs), and the tables of listeners,   *)
(* queues and connectors that follow it (state.rs).                        *)
(*                                                                         *)
(* A step is the code between two awaits or two critical sections.  The    *)
(* handler of a client that went away is dropped at an await; the blocking *)
(* task of its fs::write, an open that truncates and a write, runs on.     *)
(* Of a profile only what decides which task it gets is kept.              *)
(***************************************************************************)
CONSTANTS
  Handlers,    \* PUT requests that may run at the same time
  Ids,         \* profile ids
  RouteLists,  \* the values of PersistRoot.routes
  NoRoutes,    \* the empty list of routes
  NoRoot,      \* a handler holds no root
  Empty, Mixed \* profiles.json without contents, or with parts of two roots

ASSUME TunConfigConstants == NoRoutes \in RouteLists

\* A profile that is disabled or missing, a tcpRelay listener whose address
\* parses or does not, a requestBus listener, a connector.
Kinds == {"off", "tcp", "badtcp", "bus", "conn"}

Roots == [profiles : [Ids -> Kinds], routes : RouteLists]

ASSUME RootsConstants == {NoRoot, Empty, Mixed} \cap Roots = {} /\ NoRoot # Empty /\ NoRoot # Mixed /\ Empty # Mixed

\* PersistRoot::default()
Default == [profiles |-> [i \in Ids |-> "off"], routes |-> NoRoutes]

\* What profiles.json may hold that serde_json cannot parse.
Unreadable == {Empty, Mixed}

Syncing == {"streams", "tasks", "retain", "spawn", "conns", "dial"}
Pcs == {"idle", "read", "replace", "save", "open", "write", "wrote", "resync"} \cup Syncing

VARIABLES
  mem,           \* ConfigStore.inner
  readers,       \* the handlers that hold its read guard across awaits
  disk,          \* the contents of profiles.json
  pc, op, root,  \* each handler: where it is, its method, the root it works on
  unsaved,       \* a save failed or was abandoned, and none began since with no
                 \* abandoned write still under way
  fresh,         \* the last resync to begin saw the profiles of now
  listeners,     \* ids with an acceptor task
  queues,        \* ids with a StreamQueue
  task_queues,   \* ids with a TaskQueue
  connectors     \* ids with a connector task

tables == <<listeners, queues, task_queues, connectors>>
vars == <<mem, readers, disk, pc, op, root, unsaved, fresh, listeners, queues, task_queues, connectors>>

TypeOK ==
  /\ mem \in Roots
  /\ readers \in SUBSET Handlers
  /\ disk \in Roots \cup Unreadable
  /\ pc \in [Handlers -> Pcs]
  /\ op \in [Handlers -> {"config", "routes"}]
  /\ root \in [Handlers -> Roots \cup {NoRoot}]
  /\ unsaved \in BOOLEAN /\ fresh \in BOOLEAN
  /\ listeners \in SUBSET Ids /\ queues \in SUBSET Ids
  /\ task_queues \in SUBSET Ids /\ connectors \in SUBSET Ids

\* ConfigStore::load: what cannot be parsed is the default, and so is no file.
\* (A file that cannot be read makes the start fail: no Restart takes place.)
Loaded == IF disk \in Unreadable THEN Default ELSE disk

Of(kind, r) == {i \in Ids : r.profiles[i] = kind}
Tcp(r) == Of("tcp", r) \cup Of("badtcp", r)

\* A first start, without profiles.json; Empty stands for that as well.
Init ==
  /\ mem = Default /\ readers = {} /\ disk = Empty
  /\ pc = [h \in Handlers |-> "idle"]
  /\ op = [h \in Handlers |-> "config"]
  /\ root = [h \in Handlers |-> NoRoot]
  /\ unsaved = FALSE /\ fresh = TRUE
  /\ listeners = {} /\ queues = {} /\ task_queues = {} /\ connectors = {}

-----------------------------------------------------------------------------
(* put_config and put_routes *)

Goto(h, l) == pc' = [pc EXCEPT ![h] = l] /\ UNCHANGED op

Done(h) ==
  /\ pc' = [pc EXCEPT ![h] = "idle"]
  /\ op' = [op EXCEPT ![h] = "config"]
  /\ root' = [root EXCEPT ![h] = NoRoot]

\* A request whose profiles do not validate ends without a trace.  What it
\* carries is chosen in ReplaceRoot, the first step that looks at it.
Put(h) ==
  /\ pc[h] = "idle"
  /\ \E o \in {"config", "routes"} : op' = [op EXCEPT ![h] = o]
  /\ pc' = [pc EXCEPT ![h] = "read"]
  /\ UNCHANGED <<mem, readers, disk, root, unsaved, fresh, tables>>

ReadRoot(h) ==
  /\ pc[h] = "read"
  /\ root' = [root EXCEPT ![h] = mem]
  /\ Goto(h, "replace")
  /\ UNCHANGED <<mem, readers, disk, unsaved, fresh, tables>>

\* The new root: one half from the request, the other as it was read.
Merged(h) ==
  IF op[h] = "config" THEN {[root[h] EXCEPT !.profiles = p] : p \in [Ids -> Kinds]}
                      ELSE {[root[h] EXCEPT !.routes = l] : l \in RouteLists}

\* The write lock waits until nobody holds a read guard.
ReplaceRoot(h) ==
  /\ pc[h] = "replace"
  /\ readers = {}
  /\ mem' \in Merged(h)
  /\ fresh' = (fresh /\ mem'.profiles = mem.profiles)
  /\ pc' = [pc EXCEPT ![h] = "save"]
  /\ root' = [root EXCEPT ![h] = NoRoot]
  /\ UNCHANGED <<readers, disk, op, unsaved, tables>>

-----------------------------------------------------------------------------
(* save_to_disk *)

\* Writes whose handler was dropped.
Orphans == {g \in Handlers : pc[g] \in {"open", "write"} /\ g \notin readers}

SaveUnguarded(h) ==
  /\ pc[h] = "save"
  /\ unsaved' = (unsaved /\ Orphans # {})
  /\ root' = [root EXCEPT ![h] = mem]
  /\ Goto(h, "open")
  /\ UNCHANGED <<mem, readers, disk, fresh, tables>>

\* The read guard is taken, and kept until the file is written.
Save(h) ==
  /\ pc[h] = "save"
  /\ readers' = readers \cup {h}
  /\ unsaved' = (unsaved /\ Orphans # {})
  /\ root' = [root EXCEPT ![h] = mem]
  /\ Goto(h, "open")
  /\ UNCHANGED <<mem, disk, fresh, tables>>

TruncateTakesBody(h) ==
  /\ pc[h] = "open"
  /\ disk' = Empty
  /\ root' = [root EXCEPT ![h] = NoRoot]
  /\ Goto(h, "write")
  /\ UNCHANGED <<mem, readers, unsaved, fresh, tables>>

\* fs::write opens with O_TRUNC ...
Truncate(h) ==
  /\ pc[h] = "open"
  /\ disk' = Empty
  /\ Goto(h, "write")
  /\ UNCHANGED <<mem, readers, root, unsaved, fresh, tables>>

\* ... and writes at its own offset, over what another write put there.
Write(h) ==
  /\ pc[h] = "write"
  /\ disk' \in IF disk \in {Empty, root[h]} THEN {root[h]} ELSE {root[h], Mixed}
  /\ root' = [root EXCEPT ![h] = NoRoot]
  /\ Goto(h, "wrote")
  /\ UNCHANGED <<mem, readers, unsaved, fresh, tables>>

\* create_dir_all, the open or the write fails: the handler answers 500.
SaveFails(h) ==
  /\ pc[h] \in {"open", "write"}
  /\ disk' \in IF pc[h] = "open" THEN {disk} ELSE {disk, Mixed}
  /\ readers' = readers \ {h}
  /\ unsaved' = TRUE
  /\ Done(h)
  /\ UNCHANGED <<mem, fresh, tables>>

\* The guard is dropped; put_routes is done, put_config goes on to resync_all.
\* A write whose handler was dropped has nobody to return to.
Saved(h) ==
  /\ pc[h] = "wrote"
  /\ readers' = readers \ {h}
  /\ IF h \in readers /\ op[h] = "config" THEN Goto(h, "resync") /\ UNCHANGED root ELSE Done(h)
  /\ UNCHANGED <<mem, disk, unsaved, fresh, tables>>

-----------------------------------------------------------------------------
(* resync_all: sync_listen and sync_connector, one critical section a step *)

Resync(h) ==
  /\ pc[h] = "resync"
  /\ root' = [root EXCEPT ![h] = mem]
  /\ fresh' = (fresh \/ \A g \in Handlers : pc[g] \notin Syncing)
  /\ Goto(h, "streams")
  /\ UNCHANGED <<mem, readers, disk, unsaved, tables>>

\* Queues are made and never taken away; acceptors not wanted are aborted.
SyncStreams(h) ==
  /\ pc[h] = "streams"
  /\ queues' = queues \cup Tcp(root[h])
  /\ listeners' = listeners \cap Tcp(root[h])
  /\ Goto(h, "tasks")
  /\ UNCHANGED <<mem, readers, disk, root, unsaved, fresh, task_queues, connectors>>

UpsertTasks(h) ==
  /\ pc[h] = "tasks"
  /\ task_queues' = task_queues \cup Of("bus", root[h])
  /\ Goto(h, "retain")
  /\ UNCHANGED <<mem, readers, disk, root, unsaved, fresh, listeners, queues, connectors>>

RetainTasksListen(h) ==
  /\ pc[h] = "retain"
  /\ task_queues' = task_queues \cap (Of("bus", root[h]) \cup Tcp(root[h]))
  /\ Goto(h, "spawn")
  /\ UNCHANGED <<mem, readers, disk, root, unsaved, fresh, listeners, queues, connectors>>

RetainTasks(h) ==
  /\ pc[h] = "retain"
  /\ task_queues' = task_queues \cap Of("bus", root[h])
  /\ Goto(h, "spawn")
  /\ UNCHANGED <<mem, readers, disk, root, unsaved, fresh, listeners, queues, connectors>>

\* An acceptor that is there already is left alone, whatever its address.
SpawnListeners(h) ==
  /\ pc[h] = "spawn"
  /\ listeners' = listeners \cup Of("tcp", root[h])
  /\ Goto(h, "conns")
  /\ UNCHANGED <<mem, readers, disk, root, unsaved, fresh, queues, task_queues, connectors>>

RetainConnectors(h) ==
  /\ pc[h] = "conns"
  /\ connectors' = connectors \cap Of("conn", root[h])
  /\ Goto(h, "dial")
  /\ UNCHANGED <<mem, readers, disk, root, unsaved, fresh, listeners, queues, task_queues>>

SpawnConnectors(h) ==
  /\ pc[h] = "dial"
  /\ connectors' = connectors \cup Of("conn", root[h])
  /\ Done(h)
  /\ UNCHANGED <<mem, readers, disk, unsaved, fresh, listeners, queues, task_queues>>

-----------------------------------------------------------------------------
(* Dropped handlers and restarts *)

\* A handler is dropped where it awaits; resync_all never waits once it read.
Cancel(h) ==
  /\ \/ /\ pc[h] \in {"read", "replace", "save", "resync"}
        /\ unsaved' = (unsaved \/ pc[h] = "save")
        /\ Done(h)
        /\ UNCHANGED readers
     \/ /\ pc[h] \in {"open", "write", "wrote"}
        /\ h \in readers
        /\ readers' = readers \ {h}
        /\ unsaved' = TRUE
        /\ UNCHANGED <<pc, op, root>>
  /\ UNCHANGED <<mem, disk, fresh, tables>>

\* bootstrap loads the file and resyncs before the first request is served.
Restart ==
  /\ mem' = Loaded
  /\ readers' = {}
  /\ pc' = [h \in Handlers |-> "idle"]
  /\ op' = [h \in Handlers |-> "config"]
  /\ root' = [h \in Handlers |-> NoRoot]
  /\ unsaved' = FALSE /\ fresh' = TRUE
  /\ listeners' = Of("tcp", Loaded) /\ queues' = Tcp(Loaded)
  /\ task_queues' = Of("bus", Loaded) /\ connectors' = Of("conn", Loaded)
  /\ UNCHANGED disk

-----------------------------------------------------------------------------
(* The specification *)

Step(h) ==
  \/ ReadRoot(h) \/ ReplaceRoot(h)
  \/ Save(h) \/ Truncate(h) \/ Write(h) \/ SaveFails(h) \/ Saved(h)
  \/ Resync(h) \/ SyncStreams(h) \/ UpsertTasks(h) \/ RetainTasks(h)
  \/ SpawnListeners(h) \/ RetainConnectors(h) \/ SpawnConnectors(h)

Next ==
  \/ \E h \in Handlers : Put(h) \/ Step(h) \/ Cancel(h)
  \/ Restart

Spec == Init /\ [][Next]_vars

-----------------------------------------------------------------------------
(* Properties *)

\* What a restart would load is the configuration in memory, whenever no save
\* is under way or owed, and a save has begun, with no abandoned write still
\* under way, since the last one that failed or lost its handler: save_to_disk's
\* read guard keeps PUTs that overlap from leaving the older of two roots, or
\* parts of both, in profiles.json.  Nothing is said of a save that begins while
\* an abandoned write is under way: that write may land later and win.  Nor of
\* a restart in the middle of a write, which loads the default.
RestartKeepsConfig ==
  (\A h \in Handlers : pc[h] \notin {"save", "open", "write", "wrote"}) /\ ~unsaved => Loaded = mem

\* After a resync that overlapped no other one of older profiles, exactly the
\* enabled profiles have their acceptor, task queue or connector, and every
\* acceptor its queue, whatever they were before.  (A listener whose new
\* address does not parse keeps the acceptor it may have had.)
TablesFollowConfig ==
  (\A h \in Handlers : pc[h] \notin Syncing) /\ fresh =>
    /\ Of("tcp", mem) \subseteq listeners /\ listeners \subseteq Tcp(mem)
    /\ Tcp(mem) \subseteq queues
    /\ task_queues = Of("bus", mem)
    /\ connectors = Of("conn", mem)
=============================================================================
