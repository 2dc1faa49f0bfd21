# PirateServer: a TLA+ verification project

PirateServer deploys applications to a host, keeps their processes running and
carries network tunnels for them.  This directory models the parts of it whose
correctness depends on the order of events: queues shared by threads, handlers
that await with a lock held or between two locks, files and rows that outlive
the process.  Paths below are relative to `src/`.

## The system and its parts

| part | code | state | operations | what makes it hard |
|---|---|---|---|---|
| deploy server | `server-stack/server/src/deploy_service.rs`, `deploy-core/src/lib.rs` | `AppState` per project behind one async mutex; `releases/<v>`, the symlink `current`; the child process | Upload, Rollback, StopProcess, RestartProcess, RemoveProject, GetStatus | unpacking outside the mutex, RemoveProject in two critical sections, errors half-way, clients that go away, server restarts |
| snapshot mirror | `spawn_db_record`, `deploy-control/src/service.rs` `reconcile_snapshot`, `deploy-db` | row of `project_snapshots` | record, reconcile, delete | records are independent tasks, the reconciler writes what it read earlier |
| tunnel admission | `server-stack/server/src/tunnel_admission.rs` | atomic counter, list of waiters, gauge | acquire, drop of the guard | compare-exchange loop, wake-up between two awaits, timeouts, dropped futures |
| task queue | `server-stack/stack-tun-api/src/task_queue.rs` | `deque_ids` and `tasks`, two mutexes | enqueue, claim_next, apply_status, apply_complete, prune_all | the two mutexes are never held together, leases and TTLs expire at any time |
| stream queue | `server-stack/stack-tun-api/src/queue.rs`, `state.rs`, `relay.rs` | queue of accepted sockets, counters, `Notify` | try_enqueue, dequeue, prune_expired | `notify_waiters` leaves no permit, clock read before the lock |
| stack-tun configuration | `stack-tun-api/src/{store,http_api,state}.rs` | `PersistRoot` in memory and in `profiles.json`, tables of queues and tasks | put_config, put_routes, resync_all | read-modify-write over awaits, torn file after a crash |
| stack-tun sessions | `stack-tun-api/src/grpc_svc.rs`, `local-stack/client/src/tunnel.rs` | a bidirectional stream | claim, status, complete, ack | both ends wait on messages |
| proxy accounting | `server/src/{tunnel_flush,tunnel_registry,proxy_session}.rs` | counters, baselines, rows, Redis sets | checkpoint, final flush, register, unregister | a flush that fails, an abort in the middle of one |
| authentication | `deploy-auth`, `challenge-response-auth` | nonce cache, challenges, tokens | verify, issue | expiry against re-use |
| certificates, nginx, storage, migrations | `server/src/ssl`, `deploy-control` | files, external programs | issue, renew, apply | roll-back when a step fails |
| clients and user interfaces | `local-stack` | local files | commands | mostly I/O |

`PROJECT.json` lists every component with its status, the hazards at the line
where each bites, and the source lines every definition stands for.

## Modules

`TaskQueue` (`TaskLifecycle`, `TaskQueueProofs`, `TaskQueueRefinement`, `MCTaskQueue`).
A thread is a call of an operation on a tokio worker thread; each critical
section on one of the two mutexes is one step.  `tnow` is the `Instant` an
operation read earlier and still uses, `hand` the ids it popped or has yet to
push.  `prune_all` is inlined in every operation as in the code:
`Recycle`, `PushFront`, `DiscardStart`..`DiscardRemove`.  `DiscardRemove` models
the guard of the `if let`: the thread keeps `tasks` locked and never goes on
(`tasksHeld`).  `TaskLifecycle` is the abstract promise, with the owner of each
task, the time its lease runs to and the calls the workers have under way: a
submitted task is claimed by a worker that asked for one, started within the
lease and finished by its owner alone, given back only after the lease, expired
only from the queue.  `AbstractCalls` maps the places of the threads to those
calls.

`TunnelAdmission` (`TunnelAdmissionProofs`, `MCTunnelAdmission`).  One process
per tunnel; the load, the compare-exchange, the entry in the waiters, the wait,
the wake-up or the timeout, the release and its two halves (pop the best waiter,
notify it) are separate steps.  `Cancel` drops the future at any await.  The ids
in `Returning` stand for tunnels that come one after another: an id whose tunnel
ended is opened again.  Dropped ids are not, so that the gauge, which a dropped
future leaves raised, stays bounded.

`StreamQueue` (`MCStreamQueue`).  Acceptors (`listener_acceptor_loop` and
`try_enqueue`) and pullers (`tunnel_server_loop` and `dequeue`); the prune, the
pop, the creation of the `notified()` future, the push, the counter and
`notify_waiters` are separate steps.

`DeployService` (`DeployServiceProofs`, `MCDeployService`).  Handlers for the
project `default` with the code between two awaits as a step.  `rel` is the
contents of `releases/<v>` (`partial` while, or after, an unpacking that did not
succeed), `live` the children the server spawned.  A child is the shell of
`run.sh` (or a binary), and `stop_child` kills that alone: the application may run
on, as may a child that an error of `try_wait` made the server forget; both are in
`stray`.  `KillListeners` is the SIGKILL of listeners attributed to the
deployment, while RestartProcess or RemoveProject waits for its ports; which of
them listen is left open.  `Cancel` drops a handler at an await:
the mutex is released, a blocking unpack goes on as `abandoned`.  `Restart` is
the server restarted by systemd, whose unit kills the process group, so managed
processes and strays die with it.  How a child exited, authentication, nginx and
the manifest are not modelled.  `dropped` and
`mixed` are history: they say that a handler was dropped between states, and
that another request changed the directory an upload put its release in.

`TunConfig` (`TunConfigProofs`, `MCTunConfig`).  Handlers of PUT config and PUT
routes; reading the root, replacing it, taking the read guard, the truncation and
the write of `profiles.json`, and each critical section of `resync_all` are
separate steps.  A dropped handler leaves its blocking write behind (`Orphans`).
`unsaved` and `fresh` are history: a save failed or was abandoned and none began
since with no abandoned write still under way; the last resync to begin saw the
profiles of now.  So `RestartKeepsConfig` says nothing of a save that begins beside
an abandoned write, which may land later and leave the older root.  An I/O error
while the file is read makes the start fail (`ConfigStore::load` returns it), and
then no `Restart` takes place.  Of a profile only what decides which task it gets
is kept.

`ProxySession` (`ProxySessionProofs`, `MCProxySession`).  The tunnels of one
managed session over the raw and the wire relays: registration in Redis command by
command, the relay, its checkpoint task, the abort, the final flush and the
unregistration.  A checkpoint that has loaded the counters and not locked them is
running on a thread: an abort does not stop it there.  The row of the session is
kept as what each tunnel added to it, since the code only ever increments it.
`lossy` and `unflushed` are history: the tunnels with an UPDATE that failed, was
cut off or found the row revoked, or that a restart ended; and those whose task
returned without a final flush, because the target could not be dialled or the
first write of the bridge in `wire_relay.rs` failed after its bytes were counted.
The active time, whose delta is signed, is left out, and no property depends on it.

## Runs

Bounds are chosen so that every action fires in some run.  Time is a counter
bounded by `MaxTime`; the TTL and lease constants are small enough to pass
inside it, except where a run says otherwise.

| run | question | result |
|---|---|---|
| `TaskQueueDeque` | two ids, a submitter and a session, capacity 1, tasks that expire: is an id ever in two places; is a terminal task revived? | holds |
| `TaskQueueLease` | one id, two workers, leases that pass at once: can a lease be stolen, a completed task lack a status; does the queue implement `TaskLifecycle`; is a queued task served while a worker keeps pulling? | holds |
| `TaskQueueLost` | `types.rs` 142, a task does not stay queued | violated: the wrong id is popped and dropped |
| `TaskQueueReinsert` | `task_queue.rs` 476, the expired entry is re-inserted | violated: second lock of the same mutex |
| `Admission` | four tunnels, coming again and again, on one slot, two slots or no limit: is the counter the number of guards, is the limit kept, is a waiter in the list, is the gauge at least the waiters, and does every acquire end, or is it overtaken again and again, when there is a timeout? | holds |
| `AdmissionLostWakeup` | three tunnels, one slot, no timeout: a waiter is admitted while slots are free | violated: lost wake-up |
| `StreamQueue` | three sockets, capacity 2, one acceptor, two pullers: is every socket accounted for once, the front fresh, and does every pull end? | holds |
| `DeploySafety` | two handlers, two releases, two processes: can a spawned child lose its handle, the AppState lie about it, an upload start something other than what it was sent? | holds |
| `DeployMirror` | one handler, the database and the reconciler: does the row converge to the status? | holds |
| `TunConfig` | two PUTs at a time, failing and abandoned writes, restarts: does a restart load what is in memory once a save has gone through alone, do the tables follow the profiles? | holds |
| `ProxySession` | two tunnels of a session limited to one: is traffic recorded twice or skipped, is the limit kept, does an unregistered tunnel give its place back? | holds |
| `DeployRemove` | `proto/deploy.proto` 18, the process is stopped | violated: deploy in the gap |

The runs that are expected to be violated state what a document or a comment
says; `findings` in `PROJECT.json` quote the line.  Two handlers suffice for the
deploy runs, because handlers interact pairwise through one mutex.  Admission
needs three parties (a holder, a waiter, a newcomer), and a fourth tunnel for two
waiters of different priority at a release.  `TaskQueueDeque` needs a second id
for a pop that finds another id than the one seen before; `TaskQueueLease` a
second worker to take over a passed lease.  In `DeploySafety` strays may use up
the two processes; a start then waits for one to exit.  `DeployMirror` needs one handler and
two records under way for out-of-order writes.  `TunConfig` has one profile id,
which takes every kind in turn (ids do not interact), and two lists of routes.
In `ProxySession` one tunnel carries two units, so that a checkpoint can record
the first and the final flush the second; the other carries none and competes
for the place.

What the models also show, and no run states: `max_pending_tasks` is exceeded
by recycled tasks, a newcomer overtakes a woken waiter of higher priority, and
since each turn of `acquire` starts a new timeout this can go on for ever; the
waiters gauge stays raised after a dropped future (`GaugeCoversWaiters` is the
half that holds), a pull can miss a stream until its timeout, and after a failed
start the symlink and the version in memory differ, so that RestartProcess
starts another release than `current`.  An application that outlives its shell may
run on beside the next one: before RestartProcess kills any listener it takes the
ports held only by this deployment for free, and Upload and Rollback do not look
at all.  Overlapping PUTs undo each other's half of
the configuration; a write of `profiles.json` cut off by a crash resets every
profile; a failed UPDATE of a session's row loses its traffic for good, because
the baseline has advanced; a client that goes away during `register_online`, and a
restart, leave places of a session taken; an error while a refused tunnel is taken
back lets it run above the limit.

Symmetry is used in safety runs only.

## Fairness

* A tokio task that can run is polled: weak fairness of every step of an
  operation that has begun.
* A worker session pulls again after each answer: strong fairness of
  `Begin(t, "claim")`, because other operations of the session may come between.
* `compare_exchange_weak` does not fail spuriously for ever: strong fairness of
  `CompareExchange`.
* Timers fire: `TimeOut` and `WaitElapsed` are steps of the waiting task.  The
  reconciler's 30 s interval keeps ticking.
* Nothing is assumed of clients: no new call, no disconnection, no arriving
  socket is fair.  Guards are assumed to be dropped eventually (tunnels end).

## Proofs

All are invariance proofs for any number of threads, ids, tunnels, handlers,
releases and processes; the assumptions on constants are the named ASSUMEs of
the components.

* `TaskQueueProofs`: `QueueInv == TypeOK /\ ThreadInv /\ ClaimInv /\ DequeCoherent`
  is inductive.  `DequeCoherent` alone is not: that a push cannot duplicate an id
  needs to know what each thread holds at each place (`ThreadInv`) and what is
  true of claimed entries (`ClaimInv`).
* `TaskQueueRefinement`: from `QueueInv`, a lease is not stolen, a task
  that ended is not revived (`EndedEntry`: only a late TaskComplete of its own
  claimant still changes how it ended), and every step of the queue is a
  step of `TaskLifecycle` or a stutter.
* `TunnelAdmissionProofs`: the counter is the cardinality of the set of guards,
  hence the limit.  The strengthening says what the value loaded earlier is worth
  at the compare-exchange.
* `DeployServiceProofs`: `ProcInv` adds to the three properties which handler
  holds the mutex at which place (`LockInv`) and that between stop and start there
  is no child (`StatusInv`).  `NoHandleIsLost` is about spawned children; that
  their applications end with them is neither true nor claimed.
* `TunConfigProofs`: `SaveInv` says that guarded writes all write the root in
  memory, since it cannot be replaced under a read guard, and where the file stands
  while saves are due (`FileInv`); a second invariant follows the tables through
  the places of a resync.
* `ProxySessionProofs`: `UsageInv` says that up to the final flush the baseline is
  what the row has or is about to get and a loaded checkpoint can only advance it
  (`BaseInv`), and that a checkpoint overtaken by the final flush finds nothing to
  add (`LateInv`), although it moves the baseline back.  `RegistryInv` says where in
  its life a tunnel is listed and that the set of the session never exceeds the
  limit; that the relayed tunnels are a subset of it gives `DeviceLimit`.

Only model-checked: everything under fairness, `CompletedHasStatus`,
`WaiterIsListed`, `GaugeCoversWaiters`, `UploadStartsWhole`, the
whole of `StreamQueue`, `MirrorConverges`.

## Plan

1. `WorkerSession`: the message protocol between the gRPC session and the
   worker, composed with `TaskLifecycle`.
2. Active time and limits in `ProxySession`, with the signed delta of a late
   checkpoint, and the comment on its baseline as a property; the QUIC relay.
3. `RequestBus` rule order, the nonce window, challenges and tokens, QUIC tickets.
4. Storage uploads, nginx apply with roll-back, certificates.
5. Proofs: the accounting of `StreamQueue`.
