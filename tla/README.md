# Chitragupta: TLA+ models and proofs

This directory models the coordination core of the repository in TLA+, checks
the models with TLC on small instances, and proves the safety of eight components
with TLAPS for every value of the constants.
Paths are relative to `src/packages/` unless they start with `docs/`;
`PROJECT.json` names, for every definition, the source lines it stands for.

## 1. The system

Chitragupta is an agent runtime in TypeScript. A **daemon** owns the durable
state and serves JSON-RPC over a local socket; **worker processes** run agent
and workflow code; operators use a command line, an HTTP API and MCP servers;
nodes form a mesh over sockets.

| Part | State it keeps | Operations | Talks to | Module |
|---|---|---|---|---|
| schedule table (`smriti/src/research-loop-scheduler.ts`) | a row per (project, loop key): status, retry time, lease, cancellation, outcome | queued upsert, list, claim, heartbeat, cancel, complete | daemon helpers | `ResearchLoopRow` |
| schedule helpers (`daemon/src/services-research-scheduler.ts`) | none; each reads, awaits, writes | enqueue, claim, dispatch, heartbeat, cancel, complete, requeue | table, control plane, dispatcher | `ResearchLoopSchedule` |
| loop control plane, checkpoints, overnight worker (`daemon/src/services-research-loops.ts`, `smriti/src/research-loop-checkpoints.ts`, `prana/src/chitragupta-nodes-research-*.ts`) | in-memory record, durable checkpoint, the worker's rounds and summary | start, resume, heartbeat, cancel, complete, restore, save, clear | each other over RPC | `ResearchLoopControl` |
| startup (`daemon/src/process.ts`, `server-bind.ts`, `entry.ts`) | spawn lock, pid file, socket | spawn, probe, bind, serve, stop | clients | `DaemonStartup` |
| daemon client (`daemon/src/client.ts`, `resilience.ts`) | socket, pending calls, health | call, connect, heal, restart, heartbeat | daemon | `DaemonClient` |
| bridge (`cli/src/modes/daemon-bridge-core.ts`) | shared client, direct mode | call, probe, fall back | client | `DaemonBridge` |
| resident daemon (`anina/src/chitragupta-daemon.ts`) | flags of its duties | consolidate, refresh, dispatch, backfill, stop | sleep cycle, table | `ResidentDaemon` |
| sleep cycle (`anina/src/nidra-daemon.ts`) | state, pending sessions, one row | touch, notify, dream, deep sleep, wake | handlers | `Nidra` |
| daemon manager (`anina/src/daemon-manager.ts`) | restart timer, error window | start, stop, restart | resident daemon | `DaemonManager` |
| refinement queue (`smriti/src/research-refinement-queue.ts`) | rows of scopes to repair | widen, defer, drain, clear | daily pass, refresh | `RefinementQueue` |
| job scheduler (`niyanta/src/scheduler.ts`, `job-queue.ts`) | heap, active set, timers | submit, dispatch, time out, retry, cancel, stop | handlers | `JobScheduler`, `JobHeap` |
| worker pool (`prana/src/worker-pool.ts`) | threads, queue | submit, time out, replace, shut down | threads | `WorkerPool`, `TaskPool` |
| workflow executor (`prana/src/executor.ts`, `executor-lifecycle.ts`) | ready and running steps, pause promise | execute, cancel, pause, resume | actions of steps | `WorkflowExecutor` |
| hub (`sutra/src/hub*.ts`, `patterns.ts`, `deadlock*.ts`) | locks, semaphores, barriers, channels, regions, collectors | acquire, release, arrive, publish, request, write, collect, saga, detect, resolve | agents of one process | `Hub*`, `DeadlockSearch`, `Banker` |
| actors (`sutra/src/mesh/actor*.ts`, `mesh-router.ts`) | mailboxes, pending asks | tell, ask, reply, broadcast, spawn, stop | each other | `ActorMesh` |
| mesh between nodes (`sutra/src/mesh/*gossip*.ts`, `peer-connection.ts`, `ws-peer-channel.ts`) | views, locations, channels, timers | heartbeat, sweep, exchange, merge, dial, reconnect | nodes | `GossipMesh`, `PeerLinks` |
| approval gate (`dharma/src/approval-gate.ts`) | requests, timers, waiters | request, wait, approve, deny, clean up | operators | `ApprovalGate` |
| MCP servers (`tantra/src/server-lifecycle.ts` and others) | state, client, timers, quarantine | start, stop, restart, check, recover | MCP servers | `ServerLifecycle`, `CircuitBreaker` |
| provider queues (`swara/src/request-queue.ts`, `process-pool.ts`, `rate-limiter.ts`) | lines, active calls, window | enqueue, cancel, drain, acquire | providers, child processes | `RequestQueue`, `ProcessPool`, `RateLimiter` |
| job queue of the HTTP server (`cli/src/job-queue.ts`) | jobs, slots | submit, cancel, drain, destroy | runners | `KaryaQueue` |

The remaining packages (memory and search, agent runtime, councils, user
interfaces, proxy, vision, skills, tools, core) are listed in `PROJECT.json` and
in section 7 with the reason they are not modelled.

### What is hard

* *Awaits.* Each process is single-threaded, but almost every handler awaits
  between what it reads and what it writes. Anything can run in between.
* *Five places for one loop.* The durable row, the daemon's record, the durable
  checkpoint, the recorded summary and the worker itself; no two are updated
  atomically, and each process may die between two writes.
* *Leases.* Takeover, late heartbeats, late completions and retries meet on one row.
* *Late answers.* A promise nobody can cancel outlives its timeout: jobs,
  threads, handlers, requests, asks, probes, approvals, healing calls.
* *Processes on one file system.* Lock file, pid file and socket are probed and
  unlinked in separate system calls by processes that may die in between.
* *Lines.* Locks, semaphores, queues and pools hand places over; a place must
  neither be lost, nor given twice, nor lie idle while somebody waits.
* *Reentrancy.* Listeners, watchers and close events run inside the operation
  that caused them, and may call the object back.
* *News.* Views of a mesh come late, in circles, and from before a crash.

`PROJECT.json` lists forty such hazards at the lines where they bite, each with
the properties that would catch it going wrong and, where these hold only with an
exception or in some instances, with a note that says which.

## 2. The modules

```
ResearchLoopRow                  one row and every function that writes it
 |- ResearchLoopSchedule          the table and all processes that move its rows;
 |   |                             INSTANCEs ResearchLease per loop
 |   `- MCResearchLoopSchedule    run: schedule, and the violation runs
 `- ResearchLoopControl           one loop: daemon record, row, checkpoint,
                                  summary, workers, operator (control runs)
ResearchLease                    what the row promises, abstractly
MCCoordination                   run: coordination.  EXTENDS WorkerPool (which
 |                                INSTANCEs TaskPool) and INSTANCEs
 |- HubLocks, DeadlockSearch, Banker, HubSemaphore, HubBarrier,
 |  HubMessages, HubRegion, HubCollector, HubSaga, ActorMesh
 |- JobScheduler, JobHeap, WorkflowExecutor
 |- KaryaQueue, RequestQueue, ProcessPool, RateLimiter
 `- ApprovalGate, CircuitBreaker, ServerLifecycle
MCDaemonLife                     run: daemon_life.  EXTENDS RefinementQueue and
 |                                INSTANCEs
 |- DaemonStartup, DaemonClient, DaemonBridge
 |- DaemonManager, ResidentDaemon, Nidra
 `- GossipMesh, PeerLinks
X_proofs                         theorems about X and the lemmas they rest on, for
                                 X = ResearchLoopSchedule, ResearchLoopControl,
                                 JobScheduler, WorkerPool, HubLocks, ActorMesh,
                                 DaemonStartup and RefinementQueue
```

Each module begins with a comment that says which code it stands for, what one
action is, and what it leaves out. The general rules are these. An action is a
stretch of code between two awaits (or between two system calls, for processes
that share files); what runs inside it, listeners included, is part of it. What
the environment does (a handler that answers, fails or never ends, a thread, a
process, a person, a server) is an action without fairness, unless the code
bounds it with a timer. Times are kept as ages or as what is left, cut at the
point from which the code no longer tells them apart.

### The research loop

**ResearchLoopRow.** The functions of `research-loop-scheduler.ts` read a row,
decide and write it back without yielding, so each is an operator on a row
(`UpsertQueued`, `Claim`, `Cancel`, `Complete`) with a predicate for its
refusals (`Claimable`, `Completable`); `Runnable` is the list's filter.
`ClaimStatus` and `DispatchRetryOutcome` are the daemon's own readings of a row,
written separately in the source and here. `StopReasons` has one member per
class the code tells apart. The stop reason `dispatch-failed` is a failure for
the row and not for `isFailureResearchLoopStopReason`; only the dispatcher
reports it, so the control model does not use it.

**ResearchLoopSchedule.** `row` is the table. Each owner is the lease identity
of one process, with a `stage` and the loop it drives. Helpers that await between
reading and writing are several actions: `BeginClaim`, `QueueForClaim`,
`FinishClaim` for `claimResearchLoopLease`, `BeginRequeue`, `FinishRequeue` for
`requeueDurableResearchLoopDispatch`. Helpers that do not are one:
`DispatchNext`, `Refresh`, `CompleteLoop`, `CancelLoop`, `Enqueue`.
`ReconcileTerminal` is a completion by a process that never claimed. Two history
variables: `grant`, the time left of the lease a process was last granted and
still acts on, and `displaced`, the owners whose live lease a queued rewrite
wiped. Any working owner may requeue, although only the resident dispatcher
does: an over-approximation.

**ResearchLoopControl.** One loop, several workers, one operator, one daemon.
`mem` is the entry of `activeResearchLoops`, `ckpt` the checkpoint, `ledger` the
recorded summary. `call[w]` is the handler serving worker `w`'s current request
and `beat[w]` the one serving its timer's heartbeat; each carries what it
captured before its await, so the stale write-backs of the code are there. A
durable write and the in-memory write that follows it without an await are one
action. `at[w]` follows `executeOvernightResearchLoop`. `GiveUp` is a worker that
got no answer (its handler runs on), `PollLost` a heartbeat without one, `Crash`
a worker process, `DaemonCrash` the daemon. Requests of one worker travel on one
socket, so its heartbeat is handled before its later completion arrives. The resume
leaves out the merge of the checkpoint's `cancelRequestedAt`: no checkpoint carries
one that could be resumed, since a pending one is saved without a cancel state and an
active one is not saved once the signal has fired.
Histories: `acked` (cancels answered), `rewound` (a queued upsert rewrote an
existing row), and `known` in a completion (the cancellation was durable when it
arrived).

**ResearchLease** states what one row promises in four variables: waiting,
held or ended work; its holder; the time left; a cancellation. The mapping is by
owner, not by status, because a claimed row keeps its owner while `cancelling`.

### The hub, the mesh and the queues

**HubLocks** keeps both lists the code keeps of those in line (the waiters with
their promises, and the agents' names in `waitQueue`). Its `DeadlockSpec` puts
the detector and `resolveDeadlock` on top; **DeadlockSearch** is the detector's
depth-first search, one iteration an action, started from every wait-for graph of
three agents; **Banker** is the prevention, with `isSafe` compared to the
existence of a safe order. **HubSemaphore**, **HubBarrier**, **HubMessages**
(subscriptions, requests, replies), **HubRegion** (an entry with watchers that
write back), **HubCollector** and **HubSaga** are the rest of the hub.

**ActorMesh** is a node's actors: an actor handles one envelope at a time, may
await an ask meanwhile, may be stopped and spawned again under its id.
**GossipMesh** is what nodes know of actors elsewhere: `view` is the gossip
protocol's map, `place` the location map, `wire` a view in flight, `beat` a
history of the true last heartbeat. **PeerLinks** is the dialer's side of a
connection: channels, their listeners, and the reconnect timers that belong to
the entry they were set for.

**JobScheduler** is the scheduler with its promise and timer callbacks and
listeners that call back; **JobHeap** the indexed binary heap under it.
**WorkerPool** is the thread pool and implements **TaskPool**.
**WorkflowExecutor** is the loop of `runDAG`, the calls of `executeStep` and the
handlers of their promises, where microtasks run before anything else.
**KaryaQueue**, **RequestQueue**, **ProcessPool** and **RateLimiter** are four
further lines with limits. **ApprovalGate**, **CircuitBreaker** and
**ServerLifecycle** (with its registry and quarantine listeners) are gates.

### The daemon's life

**DaemonStartup** has one action per system call of clients and daemons on lock
file, pid file and socket. **DaemonClient** is one process's client with its
health machine, the healing call and the heartbeat. **DaemonBridge** is the
sharing of that client and the direct mode. **ResidentDaemon** is the duties and
the flags by which they give way; **Nidra** the sleep cycle with handlers that
answer in a later sleep; **DaemonManager** the restarts, with or without a listener
for the errors it emits; **RefinementQueue** the durable rows of repairs, widened
while they are drained and possibly unreadable.

Definitions called *slips* (`ClaimForgetsCancel`, `BeatRevives`,
`WaitTimesOutInLine`, ...) precede the definition they imitate. They are
plausible bugs of it, used only by the mutation runs that show which property
would notice.

## 3. The runs

| Run | Distinct states | Shows |
|---|---|---|
| `schedule` | about 344,000 | 2 owners, 2 loops, TTL 2, delay up to 1: the invariants and step properties of the table, and that it implements `ResearchLease` |
| `control` | about 2,100,000 | 2 workers, loop enqueued, 1 cancel: record, row, checkpoint and summary stay consistent |
| `control_unqueued` | about 1,000,000 | the same while the row is created inside a claim |
| `coordination` | 154,379 | the parts of `MCCoordination` |
| `daemon_life` | 316,466 | the parts of `MCDaemonLife` |

Seven runs expect a violation: the repository states something that the code,
as it is, does not do. Each checks one property and is reported under `findings`;
section 5 has more disagreements of the same kind.

| Run | The statement | What happens |
|---|---|---|
| `no_overlap` | overlapping workers are refused (comment on `claimResearchLoopLease`) | a claim sees the row missing; an operator enqueues it and another worker claims it; the first claim's upsert wipes that lease |
| `removed_once_repaired` | a queued scope is removed once it has been repaired (comment on `clearQueuedResearchRefinementScope`) | what the repair of the day leaves in debt is queued, and the drain of the same pass takes it for covered by that repair and removes it |
| `cancel_beats_retry` | a cancellation before the retry rewrite wins (same document) | it lands between classification and rewrite, and the row is queued |
| `acked_cancel_visible` | heartbeats make a cancel observable to a running round | a heartbeat that captured the record earlier writes the cancel away |
| `advertised_is_resumed` | a timeout pickup can resume without the old daemon | resume refuses the active checkpoint that the list offers |
| `pending_recovers` | the checkpoint is the source of truth for completion-pending recovery | the completion did go through, and its row now refuses every attach |
| `outcome_final` | the stop reason is authoritative once the completion succeeded | a second completion replaces it |

`no_overlap` and `cancel_beats_retry` use `FreshSpec`, in which operators enqueue
only keys the table does not hold, so that what they show is not due to a
repeated enqueue.

### Several components in one run

`MCCoordination` and `MCDaemonLife` put components together that share no state.
Taking all interleavings of them would multiply their state spaces and show
nothing, so in each behaviour one component moves, named by `part`, and the
others stand still in their initial state. This is sound: a component's
behaviours are all there (those with its `part`), a property of one component
holds of the composition exactly if it holds of the component, and a failure of
any part is a failure of the run. Invariants of a part are guarded by it where
its initial state need not matter. For liveness the run states `[]<>` of a
conjunction of state predicates: in a behaviour of one part the predicates of
the others are constant, so the conjunction recurs exactly if that part's
predicate does. A part with two predicates in it has to reach them together,
which is stronger than each by itself. Where several calls, sessions or scopes
are interchangeable, the property is stated for one of them: by symmetry it
holds for all. Fairness is conditioned on the part, so it constrains only the
component that moves.

The instances, with the distinct states of each part:

| Part | Instance | States |
|---|---|---|
| locks | 3 agents with 2 calls each on 1 lock | 2,528 |
| deadlock | 3 agents, 2 locks, detector and resolution | 3,968 |
| search | every wait-for graph of 3 agents | 1,910 |
| banker | 3 processes, 2 resources of 1 unit | 3,812 |
| semaphore | 2 permits, 4 calls, 2 stray releases | 286 |
| barrier | 3 of 4 agents, one with two calls | 374 |
| messages | 2 agents, 3 subscriptions, 2 requests | 2,665 |
| region | 2 writers, an outsider, 3 watchers of which one writes | 8,654 |
| collector | 3 agents, 2 waits | 486 |
| saga | 4 steps | 596 |
| jobs / listeners | 2 jobs and an unhandled one, 1 slot, 1 retry / 2 jobs with listeners that cancel | 9,600 / 2,592 |
| heap | 6 jobs of 3 priorities | 4,257 |
| pool | 2 threads, 4 tasks, room for 1 in line | 17,130 |
| gate | 3 requests of which 2 may be pending, 2 waits | 8,060 |
| breaker | 3 calls, threshold 2, window 2, cooldown 2 | 376 |
| server | 1 restart, 1 crash, 2 starts at a time | 26,619 |
| workflow | a diamond of 4 steps, one without a timeout, 1 retry, 1 pause, 2 at a time | 11,821 |
| karya / cancels | 3 jobs on 1 slot, not cancelled / cancelled while they run | 336 / 2,714 |
| requests / processes | 3 requests on 2 slots / 4 children on 2 | 5,578 / 2,212 |
| mesh | 2 actors, a broadcast, an ask in each direction | 35,248 |
| rates | 4 calls, limits that change once | 2,557 |
| startup | 2 clients, 3 daemons, 1 daemon crash, 1 shutdown | 2,696 |
| faults | 3 clients, 3 daemons, 1 client crash, 1 slow start, 1 late probe | 70,586 |
| client | 2 calls, 5 sockets, 2 failed spawns, 1 loss (crash, severed or refused connection, disposal) | 77,808 |
| bridge | 2 callers, 4 clients | 35,401 |
| manager | 2 starts, a budget of 2 errors, 3 flows, 2 failed starts, with and without a listener | 2,581 |
| nidra | 3 sessions, a deep sleep after 3, 4 calls, 1 stop | 14,931 |
| resident | 2 missed days, 2 duties, 1 queued loop, from each state of the sleep cycle | 8,988 |
| queue | 2 scopes of 2 items, 1 replay a pass, 1 request, 1 day, 1 spoiled row | 85,704 |
| gossip | 2 nodes, 1 actor, 2 troubles | 13,211 |
| links | 3 channels, 1 fault | 4,560 |

**Bounds.** Two owners are what a race over one lease needs, two loops what is
needed to see that a step on one row leaves the other alone. TTL 2 makes a lease
pass through "fresh", "about to lapse" and "lapsed"; in the control model TTL 1
and StaleAfter 1 give "live" and "lapsed", "recent" and "silent", independently.
MaxDelay bounds a retry window to open or not; the proofs have no such bound.
MaxCancels bounds the acknowledged cancels to one: a second one finds the same
row and record fields set. A worker has one heartbeat in flight, and a process is
replaced only after the handlers serving its predecessor ended.

In the other two runs the numbers of calls, jobs and agents are those at which
the races in the hazards first occur: two calls of an agent on a lock, a third
agent to inherit a place, a third client to break the lock another has just taken, as many tasks as threads, room and one to refuse, six
jobs so that a removal from the middle of the heap must sift up, a diamond so that
two handlers see the same dependent. Faults (`MaxCrashes`, `MaxFaults`,
`MaxTroubles`, `MaxStops`, ...) are bounded because without a bound nothing would
ever have to end; each such constant is marked "bound" where it is declared. The
gossip was also checked with three troubles (122,946 states) and with a line of
three nodes, on which news are passed on (21,538 states).

**Deadlock** is checked in the runs of the research loop, where the clock always
can tick. It is not in `coordination` and `daemon_life`: everything may be
answered, stopped, crashed or at its bound, and the properties say in which
states that is all right.

**Fairness** is asked of what the code itself schedules: timers that are set
fire; promise callbacks and the continuations of awaits run; sockets that were
closed tell so; a poll of an interval happens again and again; and calls whose
duration the code limits end. It is not asked of handlers, threads, users,
providers, runners of jobs, actions of steps without a timeout, the resumption of a
paused workflow, the callers of a breaker, or the agents that hold a lock. Where
something cannot end without them, the property says so: `RunEnds` excepts a
workflow that waits for a resume or for an action without a timeout, `JobsEnd` of
`KaryaQueue` a queue with a runner that is still out, and `HealthyCloses` assumes
callers that go on. Two exceptions remain: a permit and a result are given back by
agents, since nothing in the code would take them away. An `\E` under a single `WF`
is weaker than one condition per object; it suffices where the action is a timer of
any of them.

The queue of refinements is drained for certain only by the nightly pass; nothing is
asked of the refresh, which waits for a budget that need not come. A nightly pass
needs strong fairness, since it is possible only between others, and one without
scopes of its own is what comes again and again once research rests. That the repair
of scope k1 succeeds in the end when it is tried again and again is a hypothesis of
`DutiesEnd`, not of the code; the other scope's repair may fail for ever, and rows that
cannot be parsed stay for ever. For the gossip, nodes and connections are fast enough,
but for as many delays as `MaxTroubles` says: `Tick` counts one each time a heartbeat
takes longer to get around than `SuspectAfter`.

## 4. The properties

On the table (`ResearchLoopSchedule`):

* `RowsWellFormed`: no interleaving leaves a row that mixes the fields of two
  writes.
* `GrantBackedByLease`, `Exclusive`: a process acts on a lease only while the row
  says so, down to the time left, except after a queued rewrite wiped it; two
  processes act on one loop only in that case.
* `HolderNeverRefused`: a live, unwiped holder always gets its next heartbeat, in
  spite of cancellations and retry windows.
* `DispatchNeverSkips`: what the list offers, the claim accepts.
* `CancelSticky`, `LiveLeaseKept`: a step may not take a cancellation back, nor a
  live lease away, other than by lapse, queued rewrite or the holder's own
  completion.
* `ImplementsLease`: the refinement.

On one loop (`ResearchLoopControl`):

* `RecordMatchesRow`, `NeverRevived`: unless the row was rewritten, a finished
  record goes with a row finished the same way, and only a cancel accepted before
  the completion can turn a finished record back.
* `AckedCancelDurable`: an acknowledged cancel is on the row, or the loop had
  finished.
* `CancelOutranksSuccess`: a completion that arrived after the cancel was durable
  does not end as a success, even if the record was lost.
* `OutcomeRecoverable`: a finished loop always has a checkpoint or a summary.

In `MCCoordination`, each a conjunction of the parts' own properties, which are
stated in their modules:

* `LocksSound`: one holder, who was told so; both lists of those in line agree;
  nobody waits for a free lock (two agents with two calls each, expiry, timeouts,
  forced releases).
* `DeadlocksForeseen`: the detector sees the true waits and reports only, and at
  least one of, the circles there are; the banker keeps a safe sequence.
  `DeadlocksBroken`: a resolution breaks its circle, and no circle lasts.
* `LinesKept`: permits are accounted for, in order, none idle while somebody
  waits; nobody passes a barrier early.
* `MessagesSound`: subscribed means heard and the reverse; a reply in time
  reaches its requester; watchers know the current version; collectors count.
* `StepsInOrder`: sagas undo all they completed in reverse order; steps of a
  workflow run once, after their dependencies, within the limit, none forgotten.
* `JobsAccounted`, `BestJobFirst`: one place, one call per attempt, exact counters
  and slots, and what ended stays ended. With listeners that cancel from their
  callbacks only counters, calls and slots are claimed: a job can then have two
  places and come back (`CancelledNeverRuns`, section 5). A late answer does decide
  the next attempt (`LateAnswerIgnored`); it is counted once even so. The heap is one,
  and its index exact.
* `QueuesServed`: the lines of jobs, requests, processes and rates. The slots of the
  HTTP server's jobs are exact and within their limits as long as none is cancelled
  while it runs; with such cancellations they are given back twice (`LimitKept`), and
  what is claimed is that none is lost, the line is in order, and outcomes stay.
* `PoolImplements`: the worker pool implements `TaskPool`, by the mapping in
  `WorkerPool` from places, line and results, and its statistics add up.
* `MeshSound`: no envelope lies unseen in a living actor's mailbox; the router
  waits for just the asks whose callers wait.
* `GatesSound`, `ServersSound`: one decision for all waits; the breaker closes
  only below its threshold and stays open for a cooldown; no server is left in a
  state where somebody would have to act and nobody will.
* `HubWaitsEnd`, `WorkEnds`: liveness. Every wait at the hub ends; jobs, tasks,
  shutdowns, approvals, restarts, requests, children, asks and jobs, tasks,
  shutdowns, approvals, restarts, requests, children, asks and waits for a rate come
  to an end, although handlers may never answer. Workflows and jobs of the HTTP server
  do so, and breakers close again, under the conditions named with *Fairness* above.

In `MCDaemonLife`:

* `StartupSound`: one daemon serves and is reachable, and one client spawns. With
  three clients of which one may crash, a slow start and a late probe, it is
  that one client spawns while none has crashed (`OneSpawnerUncrashed`), and that
  however many daemons get started, one at most serves and can be reached, unless a
  probe came too late (`SocketDecides`). Both exceptions are real: `NoSpawnRace` and
  `NeverClobbers`, section 5.
* `StartupEnds`: every call of `spawnDaemon` ends, and no lock stays behind but that
  of a crashed client.
* `HealingSound`: one call heals; no more calls are sent again than there were losses
  (a crash of the daemon, a failed start, a connection destroyed or refused, a
  disposal), however the calls interleave, and a timeout on a good connection repeats
  none. That a living daemon executes a call twice is possible (`OnceWhileAlive`). A
  client being connected is shared; a lost peer has a dial or a timer; news that go
  round do not keep a gone actor alive, and a host knows its own actors.
* `CallsAnswered`: liveness. Calls of client and bridge end, with an answer, an error
  or an open circuit; healing is over some time, direct mode is left, a lost peer is
  reached again, views agree.
* `SessionsKept`: the row of the sleep cycle covers what a crash would lose, and
  only the answer of its own handler strikes a session off.
* `DutiesApart`: refresh and consolidation exclude each other; no consolidation,
  refresh or dispatch begins after a stop (the periodic reports of the backfill do,
  see `StoppedIsSilent`); a crash has a restart under way if somebody listens for errors
  (`AlwaysRetried` without one).
* `DutiesEnd`: duties, sleeps, backfill, stops, dispatches and restarts end; a row of
  the queue leaves it if its repair succeeds in the end and its text can be read.
* `WorkKept`: what was asked for stays queued until it was repaired, with two
  exceptions that the code makes: what is asked for after a pass has read the row of
  its scope or repaired the same work, and what the repair of the day left in debt. The
  rest of such a scope's work is not excepted.

## 5. Disagreements found while modelling

Besides what the seven violation runs show, the models have *strict* properties: what a
comment, a document or a test says and the code does not do. They are at the end
of their modules, with the quotation. No run lists them; each is violated when
TLC checks it alone on the named component with the given constants (where
nothing is said, those of its part).

| Module | Property | Instance | Where | What happens |
|---|---|---|---|---|
| ResearchLoopSchedule | `TerminalNotReopened` | 2 owners, 1 loop | `daemon/src/services-research-scheduler.ts:485` | research.loops.enqueue upserts the row as queued whatever its state, which clears the outcome of a finished key and makes it runnable again; docs/research-workflows.md:142 says "terminal keys are not reopened". |
| JobScheduler | `LimitRespected` | 2 jobs, `MaxConcurrent` 1 | `niyanta/src/scheduler.ts:362` | handleTimeout frees the slot and dispatches the next job while the timed-out handler is still running, and nothing stops it; scheduler-types.ts:75 describes maxConcurrent as "Maximum number of jobs executing concurrently." |
| JobScheduler | `LateAnswerIgnored` | 1 job, `MaxRetries` 1 | `niyanta/src/scheduler.ts:302` | The callbacks of an attempt test only whether its job id is active; after a timeout and a retry it is active again, so the late answer of the first attempt completes or fails the second one, whose own timer and handler go on. The comment on that line (scheduler.ts:302) says "Timed out already": the return is meant to ignore answers of timed-out attempts. |
| JobScheduler | `CancelledNeverRuns` | 1 job, `Reentrant` TRUE | `niyanta/src/scheduler.ts:344` | handleFailure and handleTimeout announce the status queued to the listeners before they enqueue the job; a listener that calls cancel finds it cancellable, cancel finds nothing to remove and returns true, and the job is then enqueued and run. niyanta/src/scheduler.ts:150 says "@returns True if the job was cancelled". |
| JobScheduler | `GracefulStopWaits` | 1 job | `niyanta/src/scheduler.ts:234` | stop returns at once when the scheduler is already stopping, so a second graceful stop resolves while jobs are running; niyanta/src/scheduler.ts:229 says "If true, waits for all running jobs to finish before resolving." |
| HubLocks | `WaitersInLine` | 2 agents with 2 slots, `Sequential` FALSE | `sutra/src/hub-sync.ts:69` | The timeout callback of a wait removes the first waiter of the same agent, whichever call it belongs to; with two waits of one agent it takes the other call out of the line, which is then never promoted, and leaves the rejected call in it. sutra/src/hub-sync.ts:18 says "Lock waiters are queued in FIFO order and automatically promoted when the holder releases." |
| HubLocks | `DetectorSees` | 2 agents with 2 slots, 2 locks, `Sequential` FALSE | `sutra/src/hub-sync.ts:74` | A timed-out wait removes all entries of its agent from waitQueue, also that of another wait of the same agent, so the wait-for graph misses its edge; sutra/src/deadlock.ts:41 says "Detect all deadlock cycles in the current lock state." |
| HubLocks | `ResolveBreaks` | 2 agents, 3 locks, `Sequential` FALSE | `sutra/src/deadlock.ts:164` | findResourcesForCycle lists every lock held by one agent of the cycle and wanted by another, also those off the cycle, and resolveDeadlock may release one of these; sutra/src/deadlock.ts:178 says "Resolve a deadlock by force-releasing one agent's lock." |
| DeadlockSearch | `DetectsAll` | 3 agents | `sutra/src/deadlock.ts:139` | The search passes over nodes it has finished, so of several circles that share an edge only those that close on the current path are found, and an agent of another one appears in no report; sutra/src/deadlock.ts:41 says "Detect all deadlock cycles in the current lock state." |
| Banker | `SafeSequenceExists` | 2 processes, 1 resource of 2, `Again` TRUE | `sutra/src/deadlock-prevention.ts:210` | declareMaximum replaces the allocation of a process that already holds instances by an empty one (and addResource resets what is available), so those instances belong to nobody and no safe sequence may be left; sutra/src/deadlock-prevention.ts:116 says "The key invariant maintained at all times", that one exists, as long as maxima are honest and requests and releases go through the methods. |
| Banker | `NeedIsTheRest` | 1 process, 1 resource of 2 | `sutra/src/deadlock-prevention.ts:320` | releaseResource lowers the allocation and does not raise the need: a process that released cannot ask for these instances again within its maximum; sutra/src/deadlock-prevention.ts:153 says "Remaining need: processId -> resource -> amount (= max - allocation)." |
| HubSemaphore | `Limits` | 3 calls, 1 permit, 1 stray | `sutra/src/hub-sync.ts:367` | releaseSemaphore does not look at who releases: with a line, a release by somebody without a permit lets the next one in while all permits are in use; sutra/src/types.ts:68 says "Semaphore — limits concurrent access to a resource." |
| HubMessages | `OthersUndisturbed` | as in the run, `Careful` FALSE | `sutra/src/hub.ts:190` | The unsubscribe function tests whether the channel object it remembers has no subscribers left and then removes whatever channel and handlers the topic has now; called again after others subscribed to a new channel of that topic, it ends their subscriptions. sutra/src/hub.ts:168 says "Subscribe an agent to a topic. Returns an unsubscribe function." |
| HubRegion | `NoLostUpdate` | 2 watchers, nobody reacts | `sutra/src/hub-memory.ts:101` | write compares no version and takes none as an argument, so a write based on an old read overwrites a newer one; sutra/src/hub-memory.ts:74 says "Write a value to a region with optimistic CAS semantics." |
| HubRegion | `ValueHasItsVersion` | 2 watchers, the first reacts | `sutra/src/hub-memory.ts:109` | The loop passes the value of its own write and the version the region has when the handler runs; after a nested write the remaining watchers get the old value with the new version, last. sutra/test/hub-memory.test.ts:261 expects a handler to be called with the value and the version of the write: "toHaveBeenNthCalledWith(1, "a", 1, 1)". |
| HubCollector | `ExpectsAgents` | as in the run, `MayRetry` TRUE | `sutra/src/hub-memory.ts:239` | Completion adds the sizes of results and errors, and a result does not remove an earlier error of the same agent, so two agents can complete a collector made for three; sutra/src/hub-memory.ts:172 says "Create a result collector that expects results from `expected` agents." |
| HubSaga | `AllOrNothing` | 2 steps | `sutra/src/patterns.ts:174` | A step is noted as completed when its reply arrives; one whose request timed out while its agent was at work takes effect later and is never compensated. sutra/src/patterns.ts:147 says "Saga -- distributed transaction with compensating actions on failure." |
| WorkerPool | `ExitHandled` | 2 tasks, `MaxFaults` 2 | `prana/src/worker-pool.ts:244` | A worker thread that exits without an error event (process.exit, or the end of a script that keeps no handle) is neither replaced nor marked: it stays idle in the list, and the task given to it next waits for its timeout. prana/src/worker-pool.ts:245 says "No-op: handled by error listener or explicit terminate". |
| ApprovalGate | `WaitUntilDecided` | 1 request, 2 waits, `WaitsPerRequest` 2 | `dharma/src/approval-gate.ts:152` | waitForApproval keeps one waiter per request and a second call overwrites the first, whose promise never resolves. dharma/src/approval-gate.ts:135 says it "Resolves immediately if the request is already in a terminal state; otherwise suspends until approved, denied, or timed out". |
| CircuitBreaker | `OneProbe` | as in the run | `tantra/src/mcp-circuit-breaker.ts:140` | allowCall lets every call through in the half-open state, not one. tantra/src/mcp-circuit-breaker.ts:136 says "Half-Open: allowed (one probe)". |
| CircuitBreaker | `ProbeCloses` | as in the run | `tantra/src/mcp-circuit-breaker.ts:111` | recordSuccess closes a half-open breaker on any success, also on that of a call that was made before the breaker opened. tantra/src/mcp-circuit-breaker.ts:21 says "Half-Open -> Closed: on successful probe". |
| ServerLifecycle | `StoppedStaysDown` | `UserStops` TRUE, 1 flow, 3 crashes | `tantra/src/server-lifecycle.ts:250` | A stop during a start makes the start fail, and the failed start sets a restart timer in whatever state the server is; the timer connects the stopped server. tantra/src/server-lifecycle.ts:110 says "Stop a managed server: disconnect client, clear health checks," and the next line "and transition to "stopped"." |
| ServerLifecycle | `ReplacedIsDown` | `UserStops` TRUE, 3 crashes | `tantra/src/server-lifecycle.ts:134` | restart of a server in error goes straight to a new client; the old one, whose connection may have timed out, is not disconnected. tantra/src/server-lifecycle.ts:128 says "Restart a managed server: stop then start." |
| ServerLifecycle | `RestartsFailed` | 3 crashes | `tantra/src/server-lifecycle.ts:356` | restart does not clear the restart timer, and the timer disconnects the client whatever the state is. tantra/src/registry-types.ts:76 says "Whether to auto-restart on crash or health failure." |
| ServerLifecycle | `OffersReadyOnly` | 1 flow, 3 crashes | `tantra/src/server-registry.ts:244` | A server that goes to error keeps its tools in the aggregate until it stops. tantra/src/server-registry.ts:117 says "Get all tools from all "ready" servers, namespaced to avoid collisions." |
| ServerLifecycle | `SweepFreesRecovered` | 2 restarts | `tantra/src/mcp-autonomous-internals.ts:74` | A quarantined server that the sweep finds starting (a start by hand, or the restart timer after a failed recovery) is released from quarantine before it is ready. docs/runtime-integrity.md:157 says "failed recovery remains quarantined for later retries". |
| Nidra | `AccumulatesUntilSleep` | 5 calls, 2 stops | `anina/src/nidra-daemon.ts:99` | wake from DREAMING goes to LISTENING without preservePendingSessionsOnListening, which clears pendingSessionIds: sessions noted before or during the dream never reach a deep sleep. anina/src/nidra-daemon-persistence.ts:28 says the handler "Receives the array of session IDs accumulated since the last DEEP_SLEEP." |
| Nidra | `ClearsConfirmedOnly` | 5 calls, 2 stops | `anina/src/nidra-daemon.ts:325` | A handler that fails confirms nothing, but preservePendingSessionsOnListening stays false and the timer's transition to LISTENING clears all pending sessions. anina/src/nidra-daemon.ts:317 says "clear only what the handler confirmed." |
| ResidentDaemon | `DispatchApart` | as in the run | `anina/src/chitragupta-daemon.ts:340` | The tick checks the flags once, when it begins; a refresh, a consolidation or a deep sleep that begins later does not look whether a loop is being dispatched. anina/src/chitragupta-daemon.ts:337 says "own deep-sleep refinement path so the daemon does not overlap queued" and the next line "overnight execution with another daemon-owned healing cycle." |
| ResidentDaemon | `BackfillCoversMissed` | as in the run | `anina/src/chitragupta-daemon.ts:164` | consolidateDate returns at once while any other day is being consolidated, and the backfill takes that for done. anina/src/chitragupta-daemon.ts:266 says "Backfill any days that have sessions but no day file." |
| ResidentDaemon | `StopConsolidates` | as in the run | `anina/src/chitragupta-daemon.ts:164` | The consolidation stop asks for is skipped when one is under way, which stop does not wait for either. anina/src/chitragupta-daemon.ts:110 says "Stop the daemon gracefully. Runs a quick consolidation before shutdown." |
| ResidentDaemon | `StoppedIsSilent` | as in the run | `anina/src/chitragupta-daemon.ts:99` | start's chain of backfills goes from the missed days to the periodic reports without looking whether the daemon still runs, so reports begin after stop has returned. anina/src/chitragupta-daemon.ts:110 says "Stop the daemon gracefully." |
| DaemonManager | `StopIsFinal` | as in the run | `anina/src/daemon-manager.ts:232` | The callback of the restart timer looks at running only before its awaits; a stop during them is followed by a start of a new daemon, which nobody stops. anina/src/daemon-manager.ts:111 says "Stop the daemon manager and underlying daemon." |
| DaemonManager | `GivesUp` | 3 failures | `anina/src/daemon-manager.ts:207` | After maxRestartAttempts the manager pauses, sets the count to 0 and goes on, for ever. anina/src/daemon-manager-types.ts:27 says "Max consecutive restart attempts before giving up." |
| DaemonManager | `BudgetMarks` | as in the run | `anina/src/daemon-manager.ts:186` | startDaemon reports healthy after a start that succeeded although the window still holds errorBudget errors or more. anina/src/daemon-manager.ts:12 says "Error budget: N errors in M seconds → mark as degraded". |
| DaemonManager | `AlwaysRetried` | as in the run | `anina/src/daemon-manager.ts:191` | A failed start is recorded before the restart is scheduled, and recordError's last line emits "error", which throws when nobody listens: no restart follows. anina/src/daemon-manager.ts:6 says "Adds auto-restart, health monitoring, error aggregation". |
| DaemonStartup | `NeverClobbers` | 2 clients, 1 daemon crash, 1 late probe | `daemon/src/server-bind.ts:29` | bindServerSocket unlinks the path after a probe that found nobody, without looking again; a daemon that bound it in between loses its socket file and goes on unreachable, so that two daemons serve. daemon/README.md:41 says "Liveness probe before bind; never clobbers a running daemon". |
| DaemonStartup | `NoSpawnRace` | 3 clients, 1 client crash, no timeouts | `daemon/src/process.ts:157` | acquireLock unlinks the lock file after it found the holder of the file dead; by then the file may be the new one of another client that broke the same lock. daemon/src/process.ts:112 says "Acquire lock to prevent concurrent spawn races (multiple MCP sessions starting daemon)". |
| DaemonClient | `RetriesOnce` | as in the run | `daemon/src/client.ts:189` | selfHeal sends the request after the reconnect and, when that failed for whatever reason, again after the restart: three times in all. daemon/src/client.ts:109 says "On socket failure: disconnects, reconnects (auto-spawns), retries once". |
| DaemonClient | `OnceWhileAlive` | as in the run | `daemon/src/client.ts:178` | A daemon that lives on may destroy a connection after it has executed a request, and so may the bridge that disposes of the client; the call heals and sends the request again. daemon/src/client.ts:157 says "daemon may still be alive on a new connection". |
| DaemonClient | `RestartedMeansConnected` | as in the run | `daemon/src/client.ts:230` | attemptRestart returns what recordRestartAttempt(false) returns, which is true while attempts remain; selfHeal then writes to the socket null. daemon/src/client.ts:205 says "Returns true if daemon was restarted and we reconnected." |
| DaemonClient | `HealingTriggersRestart` | as in the run | `daemon/src/resilience.ts:214` | Only a call heals; when heartbeats bring the state to HEALING, or the call that did was dropped, nothing restarts the daemon, and the heartbeat rests in that state. daemon/src/resilience.ts:62 says "When state reaches HEALING, the client triggers daemon restart." |
| DaemonBridge | `FallsBack` | as in the run | `cli/src/modes/daemon-bridge-core.ts:250` | daemonCall returns the promise of client.call from inside the try without awaiting it, so its rejection does not reach the catch that falls back. daemon/README.md:39 says "Automatic fallback to direct-read mode when daemon is unreachable (writes fail closed in fallback)". |
| DaemonBridge | `AllShareOne` | as in the run | `cli/src/modes/daemon-bridge-core.ts:82` | getDaemonClient disposes of a client whose calls still run; a call that loses its request heals on the disposed client, connects it again and nobody closes it. cli/src/modes/daemon-bridge-core.ts:4 says "Provides a lazy-connected daemon client that all MCP and CLI handlers share." |
| WorkflowExecutor | `CancelEnds` | as in the run | `prana/src/executor.ts:296` | cancel clears the timer of a retry that is being waited for; the promise of that delay is then never resolved and execute never returns; executor.ts:284 says "Cancel a running workflow execution. Clears all active timeouts." |
| WorkflowExecutor | `RunsOnce` | `SameTurn` TRUE | `prana/src/executor.ts:226` | When two steps end in one turn, each handler finds their common dependent ready, and it runs twice; a failing one also makes the handler of a good one skip or run steps the other decided about. |
| WorkflowExecutor | `RunEnds` | `PauseAgain` TRUE | `prana/src/executor.ts:310` | A second pause overwrites the promise of the first; whoever waits for the first is never released. |
| KaryaQueue | `LimitKept` | `CancelsRunning` TRUE | `cli/src/job-queue.ts:231` | The slot of a job cancelled while it runs is given back at once and again when its runner ends; cli/src/job-queue.ts:54 says "Maximum number of concurrently running jobs." |
| KaryaQueue | `SizeKept` | `CancelsRunning` TRUE, 4 submissions | `cli/src/job-queue.ts:158` | With the count too low, more jobs than the size are accepted; cli/src/job-queue.ts:56 says "Maximum number of jobs in the queue (pending + running)." |
| RequestQueue | `CallsWithin` | `Deaf` a request | `swara/src/request-queue.ts:220` | cancelAll forgets active requests whose calls do not look at the signal, and starts others beside them; swara/src/request-queue.ts:14 says "Maximum concurrent requests." |
| ProcessPool | `DrainEnds` | 2 drainers | `swara/src/process-pool.ts:121` | A second drain takes the place of the first, which is never resolved; swara/src/process-pool.ts:117 says "Wait for all queued and active processes to complete." |
| ActorMesh | `OneAtATime` | an actor spawned again under its id | `sutra/src/mesh/actor-system.ts:156` | A stopped actor goes on with its envelope while its successor begins; sutra/src/mesh/actor.ts:11 speaks of "the guarantee that an actor processes at most one message at a time". |
| GossipMesh | `Converges` | `Home` both nodes | `sutra/src/mesh/gossip-protocol.ts:172` | Generations are counted per node. After an actor has moved, an entry of its old node with the same or a higher generation replaces the one on its new host, origin included, and all nodes locate it on the old node for good; sutra/src/mesh/network-gossip.ts:205 says "Use originNodeId for correct location even through transitive gossip". |
| PeerLinks | `OneConnection` | as in the run | `sutra/src/mesh/peer-connection.ts:210` | The reconnect timer destroys the old channel while it is still in the map; its last event schedules another reconnect, so a second channel is opened and the first one orphaned. docs/p2p-mesh.md:98 says "Exponential backoff reconnection for outbound peers"; with the new entry the attempts start at 0 each time. |
| PeerLinks | `Settles` | 4 channels, 2 faults | `sutra/src/mesh/peer-connection.ts:323` | The peer closes the orphan when the second one authenticates; that event is taken for the end of the current connection, which is replaced in turn, for ever. The limit of attempts is not reached (sutra/src/mesh/peer-types.ts:131: "Max reconnect attempts before giving up on a peer"). |
| PeerLinks | `StoppedIsClosed` | as in the run | `sutra/src/mesh/peer-connection.ts:133` | stop closes the channels in the map; orphans stay open. |
| RateLimiter | `InTurn` | as in the run | `swara/src/rate-limiter.ts:150` | A call that fits is let in past those in line, also past more urgent ones; a request larger than the limit blocks all behind it. swara/src/rate-limiter.ts:109 says requests "are queued and processed in priority order". |

The listed properties hold in spite of these because they say what the code does
keep: `StepsInOrder`, for example, is checked with actions that end one at a time.
Switches such as `Sequential`, `Careful`, `MayRetry`, `Again`, `Reentrant`,
`SameTurn`, `PauseAgain`, `UserStops`, `CancelsRunning` and `Deaf` are constants, so that the same
module shows both.

## 6. What is proved

The runs look at small instances; the theorems hold for all values of the
constants that satisfy the named assumptions. TLC evaluates these assumptions, of
the research loop directly and of the other components for the instances in
`PartsAssumption`. Each invariant below was checked by TLC before it was proved.

### The lease table

`ResearchLoopSchedule_proofs` proves, for any sets of owners and loops, any TTL and
any delay bound:

| Theorem | Property |
|---|---|
| `TypeCorrect` | `TypeOK` |
| `RowsStayWellFormed` | `RowsWellFormed` |
| `GrantsAreBacked` | `GrantBackedByLease` |
| `MutualExclusion` | `Exclusive` |
| `HoldersStayIn` | `HolderNeverRefused` |
| `ListedIsClaimable` | `DispatchNeverSkips` |
| `CancellationSticks` | `CancelSticky` |
| `LeasesAreKept` | `LiveLeaseKept` |
| `TableImplementsLease` | `ImplementsLease` |

Assumptions: `RowAssumption` (the null owner is not an owner, TTL is positive,
the delay bound is a natural number) and `ScheduleAssumption` (no loop is the
null loop).

*The argument.* Two invariants are built up in turn. `Typed` is the type
invariant together with `RowsWellFormed`; it is inductive by itself, because each
step makes of one row one of the row operations, and those keep rows well formed
(the lemmas `UpsertQueuedOK` to `AgedOK`, also in `ResearchLoopControl_proofs`).
On top of it `GrantBackedByLease` is inductive: it says that a positive grant
equals the time left on the row *and* that its process is working on that very
loop, and the second half is what makes the first survive, since a process that
goes on to claim another loop has let go of this one. `Exclusive` and
`HolderNeverRefused` are not inductive; they follow from the backing, since two
unwiped grants would name two owners of one row. `WindowWellFormed` (an owner is
only on a row whose retry window opened) is what keeps a cancelled holder from
being locked out; it needs the fact that the queued upsert drops the lease.
`CancelSticky` and `TableImplementsLease` go through one lemma, `StepByRow`:
whatever the step, each row changes by one of the row operations.

### One loop between daemon and workers

`ResearchLoopControl_proofs` proves, for any number of workers, any staleness
bound, any number of cancellations, and for a queued and an unqueued loop:

| Theorem | Property |
|---|---|
| `ControlTyped` | `TypeOK` |
| `RecordFollowsRow` | `RecordMatchesRow` |
| `CancelStays` | `AckedCancelDurable` |
| `OutcomeKept` | `OutcomeRecoverable` |
| `FinishedStaysFinished` | `NeverRevived` |
| `CancelWins` | `CancelOutranksSuccess` |

Assumptions: `RowAssumption` and `ControlAssumption` (the staleness bound is
positive, the number of cancellations natural).

*The argument.* None of the properties is inductive: each speaks of the row and
the daemon's record, and what a step does to them was decided before an await, by
a handler that may be late. `IInv` adds what handlers carry across their awaits.
`Recorded` has the types, that a worker that reports an outcome, a handler that is
about to write one and a finished checkpoint have a stop reason (the completed row
is well formed only because of it), and that a live record, or a cancel by the
operator, speaks of a row that is there. `Backed` says that whoever has a stop
reason, or runs, leaves a checkpoint or a summary behind, so that a finished row is
always `OutcomeRecoverable`: at each crash point between completion, terminal
checkpoint, summary and clear one of the two is there. `CancelCarried` says that a
completion called when the cancellation was durable finds it on the row, and has
merged it into what it is about to commit; with it a success cannot be committed.
`RecordMatchesRow` and `AckedCancelDurable` are inductive over these three.

### The job scheduler

`JobScheduler_proofs` proves of the scheduler of `niyanta`, for any finite set of
jobs, with or without handlers, any number of slots and retries, under
`SchedulerAssumption`:

| Theorem | Property of the module | Listeners |
|---|---|---|
| `SchedulerTyped` | `TypeOK` | may cancel from callbacks |
| `StatisticsExact` | `CountersExact` | may cancel from callbacks |
| `NoAttemptTwice` | `OneCallPerAttempt` | may cancel from callbacks |
| `SlotsBounded` | `SlotsAccounted` | may cancel from callbacks |
| `JobsInPlace` | `OnePlace` | do not cancel (`~Reentrant`) |
| `EndsStand` | `EndedStays` | do not cancel (`~Reentrant`) |

These are the conjuncts of `JobsAccounted` in `MCCoordination`, for its two
instances and all others. The hypothesis of the last two is not a convenience:
a listener that cancels leaves a cancelled job in the queue, which runs again
(section 5).

*The argument.* Every method ends in the dispatch loop, which goes on from the
fields as the method has left them so far. So the invariant, `Kept`, is one of a
state of the fields: jobs are in the queue, in a slot or nowhere as their status
says, the two counters are the numbers of completed and failed jobs, the calls of
a job's handler are its failures plus one if it runs or has completed, and a
graceful stop waits only while a slot is taken. Each change a method makes is shown
to keep it, and so is each outcome of the loop, with the library's theorems on
cardinalities.

### Starting the daemon

`DaemonStartup_proofs` proves, for any finite sets of clients and daemons and any
number of shutdowns and crashes of daemons, under `StartupAssumption`:

| Theorem | Property of the module | Faults allowed besides |
|---|---|---|
| `StartupTyped` | `TypeOK` | all |
| `OneSpawnerAtATime` | `OneSpawnerUncrashed`: `OneSpawner` as long as no client has crashed | all |
| `OneSpawnerOfTwo` | `OneSpawner`, of at most two clients (`AtMostTwo`) | all |
| `OneDaemonServes` | `SingleWriter`, `ServerReachable` | crashes and shutdowns of daemons |
| `SocketKeepsApart` | `SocketDecides`: the same as long as no probe is late and no daemon has gone | all |

Together they are every conjunct of `StartupSound` in `MCDaemonLife`, for its
instances "startup" and "faults" and all others that meet the hypotheses. These are
needed: of three clients two can spawn at once after a crash (`NoSpawnRace`, section
5), and two daemons can serve when a probe is answered too late (`NeverClobbers`,
section 5).

*The argument.* `LockNamesSpawner`: a client is forking or awaiting a daemon if and
only if the lock file names it, and nobody breaks the file, since its holder lives. It
holds until a client crashes (`NamedUntilCrash`).
`NamedOrAlone` takes its place when one of two clients has crashed, for good: either
the lock still names whoever forks, or the other is the only one left that can.
On top of `LockNamesSpawner` there is `UnsettledIsAwaited`: a daemon that has not
settled yet is the child of the client that awaits, so there is one; hence what it found when it probed the
socket (`ProbeStillTrue`) is still true when it unlinks the path.
`SocketKeepsApart` does not need the lock at all. Until a probe is late or a daemon
goes, `FileIsServed`: a daemon serves if and only if the socket file is its own, and
one that found the path in use finds a file there that somebody serves; so its probe is
answered, it leaves, and nobody ever unlinks the path.

### Locks

`HubLocks_proofs` proves, for any agents, resources and numbers of calls, under
`LocksAssumption`:

| Theorem | Properties of the modules | Agents |
|---|---|---|
| `LockHasOneHolder` | `OneHolder` | any |
| `LocksReachTheirHolders` | `HolderWasTold`, `NoneWaitsForFree`, `WaitersInLine` | make no call while they wait for one (`Sequential`) |
| `ResolvingKeepsLocks` | `OneHolder`; `HolderWasTold`, `NoneWaitsForFree` | as above, with the deadlock detector at work |
| `DetectorReadsTheTruth` | `TypeOK`, `QueueMatchesWaiters`, `DetectorSees` | `Sequential` |
| `ResolvingBreaksTheCircle` | these three, and `ResolveBreaks` | `Sequential`, with the deadlock detector at work |

These are all conjuncts of `LocksSound` in `MCCoordination`, and what `DeadlocksForeseen`
and `DeadlocksBroken` ask of the detector's view and of a resolution; that a circle
does not last (`DeadlockEnds`) is liveness, and TLC's. The hypothesis `Sequential` is
needed: `WaitersInLine` is also a claim of the source, which agents that call while
they wait refute.

*The argument.* `Held`: who believes to hold a lock and has not been robbed of it
is its holder. `Lined`: the waiting calls on a resource are the calls in its line,
each once, and each agent has one. The timer removes the first entry *of its
agent*, not of its call; with one wait for each agent the two are the same call, and
this is where `Lined` needs `Sequential`. `PassOnHeld` and `PassOnLined` then do
release, forced release and cleanup at once, since all three pass locks on in one
way: the head of the line still waits, so whoever gets the lock is told.

The detector does not read the line of calls but a second list, `waitQueue`, of
agents, from which entries are removed by other code. `Seen` says that it is the
line's agents in their order, and that nobody waits for a lock he holds: removing an
agent's only entry from one list is removing his only call from the other
(`WithoutOne`, for which `Without` is defined by ranks of kept positions and not by a
filter). A circle is then a circle of true edges (`EdgesTrue`). It is broken
(`CircleBroken`) because the agent that waited for the lock taken had its edge to the
old holder: it now waits for another agent, or for nobody.

### The worker pool

`WorkerPool_proofs` proves, for any finite set of tasks, any number of threads, any
length of the queue and any number of threads that throw or exit, under
`PoolAssumption`:

| Theorem | Properties of the modules |
|---|---|
| `TypesKept` | `TypeOK` |
| `TasksHaveOnePlace` | `OnePlaceEach`: a running task is with one worker, or has only its timer left |
| `QueueServed` | `NoIdleWhileQueued` |
| `StatsCount` | `StatsAddUp` |
| `PoolImplementsTaskPool` | `Implements`: every step is a step of `TaskPool` or a stutter |
| `PoolKeepsItsPromise` | `PoolImplements`: all five at once |

`PoolImplements` is what the run `coordination` checks of four tasks, two threads and
one place in the queue.

*The argument.* `Placed`: each busy worker has a running task of its own, and a
running task without a worker is one whose workers were let go. `Lined`: the queue
is the queued tasks, each once. `LetGoOnce`: only a pool that is closed has tasks
without a worker. `drainQueue` serves as many idle workers as there are, so one event could
start several tasks, which `TaskPool` does not allow; `NoIdleWhileQueued` is what
excludes it: a worker that becomes idle while a task waits is the only idle one
(`DrainFirst`). Hence three kinds of steps do for answers, timers and crashes
(`Freed`, `Passed`, `Unseen`, all steps in `Kinds`), for the invariant and for the
refinement. What `TaskPool` looks at are numbers: those of running tasks and busy
workers are equal by the bijection `RunningCount` gives, those of waiting tasks and
places in the queue by `WaitingCount`.

### The queue of refinements

`RefinementQueue_proofs` proves, for any scopes and items of work, any budget of
replays and any number of requests, days and spoiled rows, under `QueueAssumption` (the
budget is positive, the bounds natural):

| Theorem | Property |
|---|---|
| `QueueKeepsWork` | `WorkKept`: `TypeOK` and `KeptUntilRepaired` |

The run `daemon_life` checks it of two scopes and one replay a pass.

*The argument.* A pass awaits repairs, and clears or narrows rows by what it had read
before it awaited. Two kinds of work are lost by that, in the code as in the model:
`late`, what was asked for after the pass had read the row of its scope or was at the
same work, and `indebted`, what the repair of the day itself leaves in debt of quality,
whose row the same pass clears again (`RemovedOnceRepaired`, section 3). The
property is about the rest, which is `Firm`: work asked for between two passes is,
whatever else its row holds. It is not inductive, since nothing in it says what a pass
has read. The invariant has four parts. `QueueOK` types rows and due list: a row with
work is queued (one without is a row that cannot be read), and none is due twice.
`PassOK` follows the stages of a pass: one scope at most is selected. `ListOK` says of
the list a pass drains that no scope is on it twice and that all of them are still
queued, so that clearing the row of one entry touches no other entry. `DebtsOK` says
that firm work is in the rows, is in the entries that were read of them, and is none of
what was selected once that repair is over: so clearing what the list says, or what the
selected repair covered, strikes off firm work only when it has just been repaired.

### The mesh

`ActorMesh_proofs` proves, for any actors and ids, any plan of messages, any size of
mailboxes and any number of replies, under `MeshAssumption` (messages are well formed,
the first actors have different ids, the null actor is no actor):

| Theorem | Properties of the module |
|---|---|
| `MeshKeepsItsPromises` | `TypeOK`, `NoneStranded`, `PendingIsOpen`, `OneSuccessor` |
| `AsksSettleOnce` | `AnswerStands`: what an ask came to is never replaced |

The first has the conjuncts of `MeshSound` in `MCCoordination`. In its run each actor
has an id of its own; the theorem also covers actors that follow each other under one
id, of which the older may still be at work.

*The argument.* `Living`: an actor that lives is the one its id is registered for, and
none lives once the shutdown has begun. A stop takes the actor off the registry at
once, so a successor finds no living predecessor, whatever that one has yet to
finish. `Boxes`: mail of a living actor is going to be looked at, since mail is only
accepted together with a wake-up and a drain only ends on an empty mailbox; an actor
that was never spawned has no mail, so spawning strands none. `Asked`: an ask is open
if and only if the router waits for it, and only once it was sent. A second or late
reply finds it gone and goes the way of mail.

### What stays with TLC

*Of the components above:* liveness, which needs fairness and ENABLED and is out of
the prover's reach (`DeadlockEnds`, `RowsAreRepaired` and the runs' `...End` properties
among them), and the findings of the runs that expect a violation.
*Properties of other components,* which have no theorems: `DeadlockSearch` and `Banker`
in `DeadlocksForeseen`, and `LinesKept`, `MessagesSound`, `StepsInOrder`, `QueuesServed`,
`GatesSound`, `ServersSound`, `HealingSound`, `SessionsKept`, `DutiesApart`.
*Beyond the prover for another reason:* `BestJobFirst`, since the operators of `JobHeap`
are recursive.

## 7. What is not modelled

*Within modelled parts.* Research loop: parsing of stored columns, the order of
the list (the model lets any listed row be first, which includes the code's order),
lookups without a project path, the local checkpoint file used when no daemon
answers, resuming from recorded experiments alone, the content of rounds and
summaries, more than one loop in the control model (loops share no state there
beyond maps keyed by loop). Hub: the history of channels, creation and expiry of
regions, and patterns that only wait for others (fan-out, map-reduce). Mesh:
topics, capabilities and what learners record, the guard, authentication and its
nonces, peer discovery and its database, connections from the side that accepts
them, envelopes between nodes. Clients: authentication, notifications, abort
signals. Startup: the kill in `stopDaemon`, Windows, the services the daemon starts.
MCP: discovery, health scores, the protocol client and its transports. What jobs,
tasks, steps and handlers do is in all of them a choice of ending or not.

*Whole parts.* Session memory, search and embeddings (`smriti`): data processing
over SQLite in synchronous calls. Agent runtime (`anina` beyond the daemon):
heuristics over texts and scores around model calls. Councils (`sutra/src/sabha*.ts`): records
that one synchronous call at a time changes. Command line, user interfaces, HTTP
routing, provider adapters, API proxy, vision, skills, tools, core: conversion,
rendering and I/O, with no protocol of their own beyond calls into the parts above.
These are most of the repository's lines, so the share the models cover is small:
it is the share that keeps state under concurrency.

## 8. Plan

1. Proofs: `PendingIsOpen`, `ReplyReaches` and `HeardIsSubscribed` of `HubMessages`,
   `PermitsAccounted` of `HubSemaphore`.
2. Proofs: `NoneFresherThanItIs` of `GossipMesh` for any nodes and links, and the
   slots and counters of `ProcessPool`.
3. Models: envelopes between nodes with duplicate suppression and time to live,
   the accepting side of a connection with its guard, the expiry of regions.
