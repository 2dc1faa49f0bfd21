---------------------------- MODULE DeployService ----------------------------
(***************************************************************************)
(* The life of one deployed project, "default", in the deploy server:      *)
(* Upload, Rollback, StopProcess, RestartProcess, RemoveProject and        *)
(* GetStatus (server-stack/server/src/deploy_service.rs), over the         *)
(* AppState and the directory layout of deploy-core/src/lib.rs.            *)
(*                                                                         *)
(* The handlers share one async mutex over the map of AppStates.  A step   *)
(* is the code between two awaits.  The handler of a client that went away *)
(* is dropped at an await, which releases the mutex and leaves everything  *)
(* else as it is; blocking tasks it started run on.                        *)
(*                                                                         *)
(* A release is started as `sh run.sh` (or as a binary): the child is the  *)
(* shell, and what stop_child kills is the shell alone, so that the        *)
(* application it started may run on as a stray.  The shipped systemd unit *)
(* kills the whole control group together with the server.                 *)
(***************************************************************************)
EXTENDS Naturals, Sequences, SequencesExt

CONSTANTS
  Requests,    \* handlers that may run at the same time
  Versions,    \* release labels
  Procs,       \* process ids
  None,        \* no version, process or request
  WithDb,      \* the metadata database is configured
  MaxRecords   \* bound on the spawn_db_record tasks under way

ASSUME DeployServiceConstants ==
  /\ None \notin Requests \cup Versions \cup Procs
  /\ WithDb \in BOOLEAN
  /\ MaxRecords \in Nat

Ops == {"upload", "rollback", "stop", "restart", "remove"}

\* Where a handler is; it holds the mutex at the places in Locked.
Locked == {"stopping", "link", "ports", "start"}
Pcs == Locked \cup {"idle", "unpack", "unpacking", "abandoned", "check", "lock", "gap", "files", "rows"}

VARIABLES
  rel,         \* the directories releases/<version>
  link,        \* the target of the symlink current
  child,       \* AppState.child
  version,     \* AppState.current_version
  state,       \* AppState.state
  live,        \* the children the server spawned (shell or binary) that run
  stray,       \* what runs without a handle: applications that outlived their
               \* shell, and children forgotten after an error of try_wait
  from,        \* the release the child was started from
  lock,        \* the handler that holds the mutex
  pc, op, arg, \* each handler: where it is, its method, its version
  mixed,       \* the uploads whose directory another request changed
  dropped,     \* a handler was dropped while the AppState was between states
  row,         \* the project's row of project_snapshots
  pending,     \* the snapshots of the spawn_db_record tasks that have not run
  read         \* the status the reconciler of control-api is about to write

files == <<rel, link>>
procs == <<live, stray>>
app == <<child, from, version, state, procs, dropped>>
db == <<row, pending, read>>
vars == <<rel, link, child, version, state, live, stray, from, lock, pc, op, arg, mixed, dropped, row, pending, read>>

Snapshots == [version : Versions \cup {None}, state : {"stopped", "running", "error"}]

TypeOK ==
  /\ rel \in [Versions -> {"absent", "partial", "complete"}]
  /\ link \in Versions \cup {None}
  /\ child \in Procs \cup {None}
  /\ version \in Versions \cup {None}
  /\ state \in {"stopped", "running", "error"}
  /\ live \in SUBSET Procs
  /\ stray \in SUBSET Procs
  /\ from \in Versions \cup {None}
  /\ lock \in Requests \cup {None}
  /\ pc \in [Requests -> Pcs]
  /\ op \in [Requests -> Ops \cup {"none"}]
  /\ arg \in [Requests -> Versions \cup {None}]
  /\ mixed \in SUBSET Requests
  /\ dropped \in BOOLEAN
  /\ row \in Snapshots \cup {None}
  /\ pending \in Seq(Snapshots)
  /\ read \in Snapshots \cup {None}

Init ==
  /\ rel = [v \in Versions |-> "absent"]
  /\ link = None
  /\ child = None /\ version = None /\ state = "stopped"
  /\ live = {} /\ stray = {} /\ from = None
  /\ lock = None
  /\ pc = [r \in Requests |-> "idle"]
  /\ op = [r \in Requests |-> "none"]
  /\ arg = [r \in Requests |-> None]
  /\ mixed = {} /\ dropped = FALSE
  /\ row = None /\ pending = <<>> /\ read = None

-----------------------------------------------------------------------------
(* Helpers *)

Goto(r, l) == pc' = [pc EXCEPT ![r] = l] /\ UNCHANGED <<op, arg, mixed>>

\* The handler returns.
Done(r) ==
  /\ pc' = [pc EXCEPT ![r] = "idle"]
  /\ op' = [op EXCEPT ![r] = "none"]
  /\ arg' = [arg EXCEPT ![r] = None]
  /\ mixed' = mixed \ {r}

\* spawn_db_record: a task of its own, so tasks may run in any order.
SpawnDbRecord(v, st) ==
  IF WithDb
    THEN /\ Len(pending) < MaxRecords
         /\ pending' = Append(pending, [version |-> v, state |-> st])
         /\ UNCHANGED <<row, read>>
    ELSE UNCHANGED db

\* An error return with the mutex held: the AppState records it.
Fail(r) ==
  /\ state' = "error"
  /\ dropped' = FALSE
  /\ lock' = None
  /\ Done(r)

\* refresh_process_state.  How a process exited is not tracked.  An error of
\* try_wait forgets the child, whether it runs or not.
Refresh ==
  /\ \/ /\ child = None
        /\ state' = IF version = None THEN "stopped" ELSE state
        /\ UNCHANGED <<child, from, stray, dropped>>
     \/ /\ child \in live
        /\ state' = "running"
        /\ UNCHANGED <<child, from, stray, dropped>>
     \/ /\ child \in Procs
        /\ child' = None /\ from' = None
        /\ state' \in IF child \in live THEN {"error"} ELSE {"stopped", "error"}
        /\ stray' = stray \cup (live \cap {child})
        /\ dropped' = FALSE
  /\ UNCHANGED live

Unpackers(v) == {r \in Requests : pc[r] \in {"unpacking", "abandoned"} /\ arg[r] = v}

\* The uploads that have put something into releases/v.
Uploaders(v) == Unpackers(v) \cup {r \in Requests : op[r] = "upload" /\ pc[r] \in {"lock"} \cup Locked /\ arg[r] = v}

-----------------------------------------------------------------------------
(* The handlers up to the mutex *)

\* A stream that fails its checks ends here and leaves no release behind.
Begin(r) ==
  /\ pc[r] = "idle"
  /\ \E o \in Ops :
       \E v \in IF o \in {"upload", "rollback"} THEN Versions ELSE {None} :
         /\ op' = [op EXCEPT ![r] = o]
         /\ arg' = [arg EXCEPT ![r] = v]
         /\ pc' = [pc EXCEPT ![r] =
              CASE o = "upload" -> "unpack" [] o = "rollback" -> "check" [] OTHER -> "lock"]
  /\ UNCHANGED <<files, app, db, lock, mixed>>

\* A blocking task: the old directory goes, an empty one takes its place.
UnpackStart(r) ==
  /\ pc[r] = "unpack"
  /\ rel' = [rel EXCEPT ![arg[r]] = "partial"]
  /\ mixed' = mixed \cup Uploaders(arg[r]) \cup (IF Unpackers(arg[r]) = {} THEN {} ELSE {r})
  /\ pc' = [pc EXCEPT ![r] = "unpacking"]
  /\ UNCHANGED <<link, app, db, lock, op, arg>>

UnpackEndUnchecked(r) ==
  /\ pc[r] \in {"unpacking", "abandoned"}
  /\ \/ rel' = [rel EXCEPT ![arg[r]] = IF r \in mixed THEN "partial" ELSE "complete"]
     \/ UNCHANGED rel
  /\ \/ pc[r] = "unpacking" /\ Goto(r, "lock")
     \/ Done(r)
  /\ UNCHANGED <<link, app, db, lock>>

\* tar succeeds or fails; so does the sidecar manifest after it.
UnpackEnd(r) ==
  /\ pc[r] \in {"unpacking", "abandoned"}
  /\ \/ /\ rel' = [rel EXCEPT ![arg[r]] = IF r \in mixed THEN "partial" ELSE "complete"]
        /\ \/ pc[r] = "unpacking" /\ Goto(r, "lock")
           \/ Done(r)
     \/ /\ UNCHANGED rel
        /\ Done(r)
  /\ UNCHANGED <<link, app, db, lock>>

\* Rollback only looks whether the directory exists.
Check(r) ==
  /\ pc[r] = "check"
  /\ IF rel[arg[r]] # "absent" THEN Goto(r, "lock") ELSE Done(r)
  /\ UNCHANGED <<files, app, db, lock>>

-----------------------------------------------------------------------------
(* With the mutex *)

Acquire(r) ==
  /\ pc[r] = "lock"
  /\ op[r] \in {"upload", "rollback", "remove"}
  /\ lock = None
  /\ lock' = r
  /\ Goto(r, "stopping")
  /\ UNCHANGED <<files, app, db>>

AcquireStop(r) ==
  /\ pc[r] = "lock"
  /\ op[r] = "stop"
  /\ lock = None
  /\ lock' = r
  /\ Refresh
  /\ Goto(r, "stopping")
  /\ UNCHANGED <<files, version, db>>

\* The release to restart: the one in memory, or else the symlink's.
RestartVersion == IF version # None THEN version ELSE link

AcquireRestart(r) ==
  /\ pc[r] = "lock"
  /\ op[r] = "restart"
  /\ lock = None
  /\ Refresh
  /\ IF RestartVersion # None /\ rel[RestartVersion] # "absent"
       THEN /\ lock' = r
            /\ pc' = [pc EXCEPT ![r] = "stopping"]
            /\ arg' = [arg EXCEPT ![r] = RestartVersion]
            /\ UNCHANGED <<op, mixed>>
       ELSE Done(r) /\ UNCHANGED lock
  /\ UNCHANGED <<files, version, db>>

\* stop_child, when there is one: the shell dies, and the application dies with
\* it or becomes a stray.
KillNothing == UNCHANGED <<live, stray>>
Kill ==
  /\ live' = live \ {child}
  /\ stray' \in {stray, stray \cup (live \cap {child})}

\* An empty version in memory is filled in from the symlink.
StopVersionShown == IF version # None THEN version ELSE IF link # None THEN link ELSE "stack"
StopVersion == IF version # None THEN version ELSE link

\* StopProcess ends after it, RemoveProject gives the mutex up for as long as it
\* waits for the ports.
StopChild(r) ==
  /\ pc[r] = "stopping"
  /\ Kill
  /\ child' = None /\ from' = None
  /\ \/ /\ op[r] \in {"upload", "rollback"}
        /\ Goto(r, "link")
        /\ UNCHANGED <<lock, version, state, dropped, db>>
     \/ /\ op[r] = "restart"
        /\ Goto(r, "ports")
        /\ UNCHANGED <<lock, version, state, dropped, db>>
     \/ /\ op[r] = "remove"
        /\ Goto(r, "gap")
        /\ lock' = None
        /\ UNCHANGED <<version, state, dropped, db>>
     \/ /\ op[r] = "stop"
        /\ state' = "stopped"
        /\ dropped' = FALSE
        /\ version' = StopVersion
        /\ SpawnDbRecord(StopVersion, "stopped")
        /\ lock' = None
        /\ Done(r)
  /\ UNCHANGED files

LinkOk(r) ==
  /\ pc[r] = "link"
  /\ link' = arg[r]
  /\ Goto(r, "start")
  /\ UNCHANGED <<rel, app, db, lock>>

LinkFail(r) ==
  /\ pc[r] = "link"
  /\ Fail(r)
  /\ UNCHANGED <<files, child, from, version, procs, db>>

\* RestartProcess waits for the ports of the project with the mutex held,
\* RemoveProject without it.  A port counts as free when all that listens on it
\* belongs to this deployment; otherwise those of its listeners that can be
\* attributed to the deployment are killed, and the ports are looked at again.
KillListeners(r) ==
  /\ pc[r] \in {"ports", "gap"}
  /\ \E hit \in SUBSET (live \cup stray) :
       /\ live' = live \ hit
       /\ stray' = stray \ hit
  /\ UNCHANGED <<files, child, from, version, state, dropped, lock, pc, op, arg, mixed, db>>

PortsFree(r) ==
  /\ pc[r] = "ports"
  /\ Goto(r, "start")
  /\ UNCHANGED <<files, app, db, lock>>

PortsBusy(r) ==
  /\ pc[r] = "ports"
  /\ Fail(r)
  /\ UNCHANGED <<files, child, from, version, procs, db>>

StartOldVersion(r) ==
  /\ pc[r] = "start"
  /\ rel[arg[r]] # "absent"
  /\ \E p \in Procs \ (live \cup stray) :
       /\ child' = p
       /\ live' = live \cup {p}
  /\ from' = arg[r]
  /\ UNCHANGED version
  /\ state' = "running"
  /\ dropped' = FALSE
  /\ SpawnDbRecord(arg[r], "running")
  /\ lock' = None
  /\ Done(r)
  /\ UNCHANGED <<files, stray>>

\* spawn_release and what follows it, nothing of which awaits.
Start(r) ==
  /\ pc[r] = "start"
  /\ rel[arg[r]] # "absent"
  /\ \E p \in Procs \ (live \cup stray) :
       /\ child' = p
       /\ live' = live \cup {p}
  /\ from' = arg[r]
  /\ version' = arg[r]
  /\ state' = "running"
  /\ dropped' = FALSE
  /\ SpawnDbRecord(arg[r], "running")
  /\ lock' = None
  /\ Done(r)
  /\ UNCHANGED <<files, stray>>

StartFailUnnoticed(r) ==
  /\ pc[r] = "start"
  /\ lock' = None
  /\ Done(r)
  /\ UNCHANGED <<files, app, db>>

\* No run.sh and no binary, or the spawn itself fails.
StartFail(r) ==
  /\ pc[r] = "start"
  /\ Fail(r)
  /\ UNCHANGED <<files, child, from, version, procs, db>>

-----------------------------------------------------------------------------
(* RemoveProject after it gave the mutex up *)

RemoveBusy(r) ==
  /\ pc[r] = "gap"
  /\ lock = None
  /\ Fail(r)
  /\ UNCHANGED <<files, child, from, version, procs, db>>

RemoveState(r) ==
  /\ pc[r] = "gap"
  /\ lock = None
  /\ version' = None
  /\ state' = "stopped"
  /\ dropped' = FALSE
  /\ Goto(r, "files")
  /\ UNCHANGED <<files, child, from, procs, db, lock>>

\* First the symlink, unless it dangles (exists() follows it) or the ignored
\* remove_file failed; then the releases, of which an error leaves some.
RemoveFiles(r) ==
  /\ pc[r] = "files"
  /\ link' \in IF link # None /\ rel[link] = "absent" THEN {link} ELSE {link, None}
  /\ \/ /\ rel' = [v \in Versions |-> "absent"]
        /\ pc' = [pc EXCEPT ![r] = "rows"]
        /\ UNCHANGED <<op, arg>>
     \/ /\ \E gone \in SUBSET Versions : rel' = [v \in Versions |-> IF v \in gone THEN "absent" ELSE rel[v]]
        /\ pc' = [pc EXCEPT ![r] = "idle"]
        /\ op' = [op EXCEPT ![r] = "none"]
        /\ UNCHANGED arg
  /\ mixed' = mixed \cup UNION {Uploaders(v) : v \in Versions}
  /\ UNCHANGED <<app, db, lock>>

\* delete_project_data, and the answer "ok"; or a database error.
RemoveRows(r) ==
  /\ pc[r] = "rows"
  /\ row' \in {None, row}
  /\ Done(r)
  /\ UNCHANGED <<files, app, pending, read, lock>>

-----------------------------------------------------------------------------
(* GetStatus, dropped handlers and the world *)

GetStatus ==
  /\ lock = None
  /\ Refresh
  /\ UNCHANGED <<files, version, lock, pc, op, arg, mixed, db>>

\* The client goes away while its handler awaits.  The unpacking task runs on.
Cancel(r) ==
  /\ \/ /\ pc[r] = "unpacking"
        /\ Goto(r, "abandoned")
        /\ UNCHANGED <<lock, live, stray, dropped>>
     \/ /\ pc[r] \in {"unpack", "lock", "rows"}
        /\ Done(r)
        /\ UNCHANGED <<lock, live, stray, dropped>>
     \/ /\ pc[r] = "stopping" \* the signal may have been sent
        /\ Kill \/ UNCHANGED <<live, stray>>
        /\ lock' = None
        /\ Done(r)
        /\ UNCHANGED dropped
     \/ /\ \/ pc[r] = "ports"
           \/ pc[r] = "start" /\ op[r] = "upload" \* while nginx is reconfigured
        /\ dropped' = TRUE
        /\ lock' = None
        /\ Done(r)
        /\ UNCHANGED <<live, stray>>
     \/ /\ pc[r] = "gap"
        /\ dropped' = TRUE
        /\ Done(r)
        /\ UNCHANGED <<lock, live, stray>>
  /\ UNCHANGED <<files, child, from, version, state, db>>

\* A process ends; an application may outlive its shell here too.
Exit(p) ==
  /\ p \in live \cup stray
  /\ live' = live \ {p}
  /\ stray' \in {stray \ {p}, stray \cup (live \cap {p})}
  /\ UNCHANGED <<files, child, from, version, state, dropped, lock, pc, op, arg, mixed, db>>

DbRecord(k) ==
  /\ row' = pending[k]
  /\ pending' = RemoveAt(pending, k)
  /\ UNCHANGED <<files, app, lock, pc, op, arg, mixed, read>>

\* status_current_version_display, with None for the label stack@...
Shown(st) == [version |-> IF version # None THEN version ELSE link, state |-> st]

\* Every 30 s control-api asks for the status and writes the answer.
ReconcileRead ==
  /\ WithDb /\ read = None
  /\ lock = None
  /\ Refresh
  /\ read' = Shown(state')
  /\ UNCHANGED <<files, version, lock, pc, op, arg, mixed, row, pending>>

ReconcileSkip ==
  /\ read # None
  /\ row' = IF row = None THEN read ELSE row
  /\ read' = None
  /\ UNCHANGED <<files, app, lock, pc, op, arg, mixed, pending>>

ReconcileWrite ==
  /\ read # None
  /\ row' = read
  /\ read' = None
  /\ UNCHANGED <<files, app, lock, pc, op, arg, mixed, pending>>

\* The server restarts: the map of AppStates starts empty.
Restart ==
  /\ child' = None /\ version' = None /\ state' = "stopped"
  /\ live' = {} /\ stray' = {} /\ from' = None
  /\ lock' = None
  /\ pc' = [r \in Requests |-> "idle"]
  /\ op' = [r \in Requests |-> "none"]
  /\ arg' = [r \in Requests |-> None]
  /\ mixed' = {} /\ dropped' = FALSE
  /\ pending' = <<>>
  /\ UNCHANGED <<files, row, read>>

-----------------------------------------------------------------------------
(* The specification *)

Handle(r) ==
  \/ UnpackStart(r) \/ UnpackEnd(r) \/ Check(r)
  \/ Acquire(r) \/ AcquireStop(r) \/ AcquireRestart(r)
  \/ StopChild(r) \/ LinkOk(r) \/ LinkFail(r) \/ KillListeners(r) \/ PortsFree(r) \/ PortsBusy(r) \/ Start(r) \/ StartFail(r)
  \/ RemoveBusy(r) \/ RemoveState(r) \/ RemoveFiles(r) \/ RemoveRows(r)

Next ==
  \/ \E r \in Requests : Begin(r) \/ Handle(r) \/ Cancel(r)
  \/ GetStatus
  \/ \E p \in Procs : Exit(p)
  \/ \E k \in DOMAIN pending : DbRecord(k)
  \/ ReconcileRead
  \/ ReconcileWrite
  \/ Restart

Spec == Init /\ [][Next]_vars

\* Handlers and tasks are polled to their end and the reconciler keeps ticking.
FairSpec ==
  /\ Spec
  /\ \A r \in Requests : WF_vars(Handle(r))
  /\ WF_vars(\E k \in DOMAIN pending : DbRecord(k))
  /\ WF_vars(ReconcileRead) /\ WF_vars(ReconcileWrite)

-----------------------------------------------------------------------------
(* Properties *)

\* A child the server spawned and that runs is the one it can stop, unless
\* try_wait failed for it: no interleaving of handlers, no dropped handler and
\* no failed start loses the handle of a child and leaves it running.  It says
\* nothing of the application a killed shell leaves behind (885-890 kills the
\* shell alone), beside which upload and rollback do start another.
ChildrenAreHeld == live \subseteq {child} \cup stray

\* The process that runs was started from the release GetStatus names from
\* memory, also after failed deploys and after a removal raced with a deploy.
ChildIsCurrent == child # None /\ version # None => from = version

\* Between handlers the AppState says "running" without a child only while a
\* RemoveProject waits for the ports, or after a handler was dropped in the
\* middle: every error path records itself.
RunningHasChild ==
  lock = None /\ state = "running" /\ child = None
    => dropped \/ \E r \in Requests : pc[r] = "gap"

\* What an upload is about to start is the release it was sent, unpacked
\* completely, unless a removal or another upload of the same version got at
\* the directory in the meantime: no error of tar or of the manifest and no
\* abandoned unpacking goes unnoticed.
UploadStartsWhole ==
  \A r \in Requests :
    op[r] = "upload" /\ pc[r] \in {"lock"} \cup Locked /\ r \notin mixed => rel[arg[r]] = "complete"

\* proto/deploy.proto 18, RemoveProject is to "Stop managed app process": the
\* AppState has no child that runs when it answers.
RemovedIsStopped ==
  [][\A r \in Requests : pc[r] = "rows" /\ pc'[r] = "idle" => child \notin live]_vars

\* The AppState is mirrored to the database: once nothing changes any more the
\* row becomes, and stays, the status, whatever the order in which records,
\* reconciliation and deletion reached the database.
MirrorConverges ==
  <>[][FALSE]_<<app, link, pc>> => <>[](row = Shown(state))
=============================================================================
