# Verification of appx-forge

appx-forge runs one container per application ("sandbox") on a fleet of nodes. A
control plane (`src/control`) keeps sandboxes, commands and nodes in Postgres; an
agent on every node (`src/agent`) polls for commands, drives Docker and reports
back; Caddy routes the traffic. This directory holds TLA+ models of that system,
TLC configurations that check them on small instances, and TLAPS proofs of their
main safety properties for all instances.

## 1. Inventory

| Component | State | Operations | Talks to |
|---|---|---|---|
| State machine `shared-go/models/sandbox.go` | none, a table | `NextState` | used by every handler |
| Lifecycle service `control/internal/lifecycle/lifecycle.go` | rows of `sandboxes`, `commands` | create, destroy, wake, restart, `HandleAck`, `HandleEvent` | Postgres, route manager, restart manager |
| Restart manager `restart.go` | `failure_count` | `HandleCrash`, `HandleRestarted` | called by the lifecycle service |
| Idle reaper `idle_reaper.go` | a list of rows per tick | list, stop each | Postgres, route manager |
| Rescheduler `reschedule.go`, monitor `main.go` | a list of nodes, a list of rows | mark unhealthy, move each | Postgres, scheduler, route manager |
| Scheduler `scheduler.go` | none | `Schedule` | create, reschedule |
| Node API `api/nodes.go` | rows of `nodes` | register, heartbeat, drain, remove | agents, operators |
| Agent loop and executor `agent/internal/agent`, `docker`, `controlclient` | executor map, polled commands, its node id | poll, execute, ack, heartbeat | the HTTP API, Docker |
| Event watcher and forwarder `agent/internal/events`, `agent/reporter.go`, `ReportEvent` | `lastEventTime`, a channel of 16 events, the report under way | connect, map, send, post, repeat | Docker's event stream, the HTTP API |
| Port allocator `agent/internal/ports` | allocated ports, in memory | allocate, release | executor |
| File push `api/agents.go`, `agent/internal/filepush` | the code directories on a node's disk | redirect by signed URL, write, delete, extract | clients, executor map |
| Route manager, batcher, Caddy client `control/internal/routing` | buffer, timer, flushes | `Enqueue`, flush, `Apply`, `Stop` | Caddy's admin API |
| Drift detector `drift.go` | none between passes | list, compare, repair | Caddy, Postgres |
| Heartbeat reconciler `control/internal/scheduler/heartbeat_reconciler.go` | none; writes rows of `sandboxes` | list, verify, mark lost | every heartbeat, Postgres |
| Freshness service `sandbox_freshness.go` | none; writes rows of `sandboxes` | ask the agent, mark | `GET /v1/sandboxes/{id}`, agents |
| CLI, SDK, read-only API, authentication, images, logs | none of the program's own | | |

What is hard here:

* Every handler is several SQL statements without a transaction. It reads a row,
  picks a transition, writes it with a compare-and-set on `state`, and then writes
  more (runtime info, commands, counters, routes) by id alone. Any other handler can
  run in between, and any statement can be the last one.
* Acks and container events travel over separate connections and are produced by
  the same Docker operations, some of which the control plane itself asked for.
* Commands are marked dispatched before the answer is on its way; acks are not
  retried; an agent forgets everything but its containers when it restarts.
* Reaper, monitor, drift detector and route flushes act on lists that are stale by
  the time they act.
* The batcher releases its mutex during `Apply`, resets timers that may have fired,
  and forgets timers that will still fire.
* A node's status is written by operators, heartbeats and the monitor, all by id.
* Reconciler and freshness service write states from a report made statements
  earlier, some by app name alone, past the state machine.
* An agent's ports, sandbox map and place in the event stream are memory; its
  containers, files and commands are not.
* Event reports are repeated after errors that do not mean they were not handled,
  and a reconnected watcher reads its last event again.
* Files are truncated and then written, by handlers that run concurrently.

What correct means, by component: a row's state only follows the state machine;
nothing is left in a transient state (`starting`, `restarting`, `pending` after a
node failure, `destroying`) with nobody to move it on; a command is executed at
most once; when all is quiet the database, Docker and the route agree; a route
change is never stranded in the buffer and the set of routes converges; a live node
is schedulable and a dead one is not, and an agent works for a row of its own
machine; a sandbox without its container is found out; no two sandboxes of a node
have one port; no event is skipped or overtaken unless it was given up; what a push
reports as written is written.

`PROJECT.json` lists every component with its status, and under `hazards` each of
these difficulties at its line with the properties that would catch it, or with a note
on how the code goes wrong there (section 4, "Other disagreements").

## 2. Plan

| Module | Subject | Status |
|---|---|---|
| `SandboxStateMachine` | the transition table | done |
| `Lifecycle` | sandboxes, commands, agents, reaper, rescheduler, faults | done |
| `LifecycleProofs` | type correctness, the state machine, the refinement of `CommandQueue` | done |
| `Routing` | notifications, batcher, Caddy, drift | done |
| `RoutingProofs` | types, no stranded change | done |
| `Nodes` | registration, heartbeat, monitor, scheduler, drain, removal | done |
| `CommandQueue` | what the commands table promises | done |
| `Reconcile` | heartbeat reconciler and freshness service, composed with `Lifecycle` | done |
| `Agent`, `AgentProofs` | port allocator, executor map and containers of one agent, restarts | done |
| `Events`, `EventsProofs` | the way of an event from Docker to the control plane | done |
| `Redelivery` | `Lifecycle` with the repeated and late events of `Events` | done |
| `FilePush` | redirect, checks and the writing of files | done |
| `NodesProofs` | types, identities of nodes | done |
| `SandboxProofs` | sandboxes on their way are attended to, also with repeated and late events; rows and containers agree while nothing is disturbed; routes are current and failed sandboxes are down without timeouts and faults | done |
| `FilePushProofs` | types, partial files are reported, a push by itself applies its entries | done |
| `ReconcileProofs` | types and the delivery of commands under the reconciler's writes | done |

Which module builds on which: `SandboxStateMachine` is extended by `Lifecycle`, which
implements `CommandQueue` and is extended by `Reconcile` and `Redelivery`.
`Routing` and `Nodes` each contain the few steps of a sandbox's life they depend on
(`SandboxRuns`, `Persist`, `SandboxLeaves`; `CreateSchedule` to `Destroyed`), at a
coarser grain than `Lifecycle`, which has their statements one by one. `Agent` has
the Docker calls of a start and a stop one by one, which are one step in
`Lifecycle`; `FilePush` has a sandbox's placement and start in one step each.

## 3. The modules

### SandboxStateMachine

`ValidTransitions` of `sandbox.go` as a set of triples; `NextState(st, ev)` is the
set of targets, empty where the Go function returns an error. `Edge` is the relation
on states it induces.

### Lifecycle

State: `row` (table `sandboxes`), `cmds` (table `commands`, a command's id is its
position), `healthy` (nodes with that status), `call` (the handlers in flight, each
holding what it has read, its `pc` naming its next statement), `batch` (rows the
reaper and the rescheduler have listed), and the agents' `inbox`, `tracked` (the
executor's map), `ctr` (Docker) and `evq` (events not yet reported). `route` is the
last change handed to the route manager. `gaveUp`, `crashes`, `timeouts` and
`faults` are observations and bounds.

| Code | Actions |
|---|---|
| `CreateSandbox` | `CreateLookup`, `CreateRecycle`, `CreateInsert`, `CreateSchedule`, `CreateAssign`, `StartCmd` |
| `DestroySandbox` | `DestroyRead`, `DestroyCas`, `StopCmd` |
| `WakeSandbox`, `RestartSandbox`, `handleFilePush` | `WakeRead`, `WakeCas`, `StartCmd`; `RestartRead`, `RestartCmd`; `FilePush` |
| agent's loop and executor | `AgentPoll`, `AgentStart`, `AgentTrack`, `AgentStop`, `AgentUntrack`, `AgentRestart`, and the failures `AgentStartFails`, `AgentStopFails`, `AgentExpired` |
| `HandleAck` | `AckRead`, `AckCas`, `AckReread`, `AckPersist`, `AckRefetch`, `AckRoute`, `AckReset`, `AckDone` |
| `HandleEvent`, `HandleCrash` | `EventRead`, `EventCas`, `EventRoute`, `CrashInc`, `CrashFail`, `CrashCas`, `CrashCmd` |
| `IdleReaper` | `ReapList`, `ReapCas`, `ReapCmd`, `ReapRoute` |
| monitor, `Rescheduler` | `MonitorMark`, `MoveList`, `MoveCas`, `MoveRoute`, `MoveReset`, `MoveSchedule`, `MoveFail`, `MoveAssign`, `MoveCmd`, `Heartbeat` |
| Docker, clock | `ContainerExits`, `GoesIdle` |
| faults | `AbortCall` (a statement fails or the request is cancelled), `SkipStatement` (a failure that is only logged), `ControlRestart`, `LosePoll`, `LoseAck`, `AgentCrash` |

`CreateCommand` has the table's constraints: without a node (`node_id` is NOT NULL), or
when the sandbox's row was deleted since it was read (`sandbox_id` is a foreign key),
the insert is an error and the handler goes on as after a failed statement.

Abstractions: a container and its host port are named by the start command that
created them, so two starts never look alike; payloads other than the container id,
the audit log (`RecordEvent`, write only), the backoff delay (the agent ignores it)
and memory accounting are left out; Postgres statements are atomic. The Docker
calls of one start or stop are one step, and a container that was created and would
not start counts as none: `Agent` takes these apart.

### CommandQueue

The abstract specification of command delivery, one variable: `log`, the commands in
the order they were issued, each with its node and the stage of its life (`queued`,
`held` by an agent, `spent`: begun or lost, `completed`, `failed`). `Issue`, `Poll`,
`Execute`, `Forget` and `Ack` are all that may happen. `Lifecycle` maps its table,
inboxes and handlers to it by `LifeOf`: `pending` is `queued`, `dispatched` is `held`
while an inbox has it and `spent` from then on. `CommandsDelivered` states the
refinement.

### Routing

State: what a row says of each app (`db`), the `HandleAck` and the removals that
have yet to notify (`acking`, `leaving`), the batcher (`pending`, `timer`,
`orphans`: timers that will fire and that `b.timer` no longer refers to, `waiting`:
callbacks that wait for the mutex, `stopped`, `drain`), the flushes under way, Caddy's
routes per app in array order, and the drift detector's pass. Each section under the
mutex, each API call and each query is one step. `Persist` is `persistRuntimeInfo`
together with the fetch that follows it (`Lifecycle` has the two apart). Whether
Caddy appends or refuses a POST with an `@id` it already has is the constant
`AppendsDuplicate`; the results below hold for the value each configuration gives.

### Nodes

State: `nodes` (status, machine, and whether `last_seen_at` is past the threshold),
`sb` (state and node of each sandbox), handlers in flight, the id each agent
heartbeats and polls for (`agentId`), and the monitor's list. `RegisterLookup` and
then `RegisterInsert` or `RegisterToken` are `handleRegisterNode`, called by a starting
agent and by `forge node add`; `RegisterAnswer` is the answer, which a failure can lose
after the row was written. Rows of `nodes` are never deleted, so the `GetNode` checks
are part of the step after them, and the client's answer to a 404 is never needed. The
memory an agent reports is always 0 (`Collect` is a placeholder), so `Schedule`
compares capacities.

### Reconcile

`Lifecycle` with three more variables: `beat`, each node's heartbeat in flight, with
the snapshot it was sent with; `read`, each freshness check in flight; `old`, the
sandboxes past the 60 seconds of grace. It replaces `Lifecycle`'s `Heartbeat` and its
two restarts, which also end the heartbeats and reads under way.

| Code | Actions |
|---|---|
| `sendHeartbeat`, `handleHeartbeat` | `HbSend` (snapshot), `HbUpdate`, `HbFails` |
| `Reconcile` | `HbList`, `HbVerify` per reported container, then `HbLost` per row not reported, `HbSkips` (an update that fails is logged) |
| `handleGetSandbox`, `GetSandbox`, `ContainerExists` | `ReadRequest`, `ReadLookup`, `ReadAsk`, `ReadMark`, `ReadFails` |

A snapshot lists the containers that carry the label `forge.app_name`, which
`CreateContainer` does not set: the constant `Labelled` names the apps whose image
has it. A node with no such container sends an empty list, which is not nil, so the
pass is still made. A start is one step in `Lifecycle`, so no snapshot falls between
the removal of the old container and the creation of the new one.

### Agent

State: the allocator (`allocated`), the executor's map (`sandboxes`), Docker's
containers by name with port and status, the command in execution (`job`), and the
container ids the control plane has learned from acks (`known`). `StartAllocate` to
`StartTrack` are `executeStartSandbox` and `CreateContainer` call by call,
`StartFails` and `StartRelease` their error paths, `StopRemove`, `StopFails`,
`StopUntrack` are `executeStopSandbox`, `Restart` is `executeRestartSandbox`,
`AgentRestarts` is `Run` starting over. `AllocateSpecific` has no caller.

### Events

State: Docker's log of events, the stream and the watcher's place in it,
`lastEventTime`, the event it is about to send, the channel, the report under way
with its attempt, the posts a client gave up on and the server may yet handle, and
what the control plane has handled. `Connect`, `Read`, `Push` are `watchLoop` and
`processStream`; `Take` is the forwarder; `Answered`, `Errs`, `Unauthorized`,
`Refused` are the outcomes of `ReportEvent`, `HandledLate` a post handled after its
client's timeout. Taken from how the code uses the Docker client: a zero `Since`
means from now on; a stream that fails closes its messages. A stream that ends
without an error ends the watcher; a status other than 401, 5xx included, counts as
success.

### Redelivery

`Lifecycle` with `PostDelayed`, `PostHandled` and `EventReplayed`: the deliveries
`Events` allows, as they reach `HandleEvent`. A late post is handled while the
node's other handler is idle; two `HandleEvent` calls of one node at the same time
are not modelled.

### FilePush

State: the node in each row (`home`), where containers are up, each executor's map,
the files of every code directory, and the requests. `Redirect` is `handleFilePush`,
`Receive` the checks of `ServeHTTP`, and `Reject`, `RemoveFile`, `Open`, `Data`,
`Respond` with the failures `EntryFails`, `DataFails`, `TarBreaks` are `WriteFiles`
and `WriteTar`, entry by entry. A file's content is who wrote it and whether it is
long; a write is the open, which truncates, and the data. Directories are per sandbox,
where the code joins the app's name: an app has one row, and the foreign key of its
commands keeps that row, so that no two tracked sandboxes share a name. `Placed` to
`AgentRestarts` are what happens to the sandbox meanwhile.

## 4. What is checked

All runs use `tlc -config <cfg> <module>`.

| Run | Configuration | Shows |
|---|---|---|
| `redelivery` | `MCRedelivery.cfg`: one sandbox, one node, create and destroy, one exit, one event repeated or late, three commands | `RestartingIsAttended`, `StartingIsAttended`, `UpstreamIsCurrent`, `FailedIsDown`, `StartingResolves` (689 k states) |
| `lifecycle_move` | `MCLifecycleMove.cfg`: two nodes, create, destroy, wake, restart and push, one timeout (missed heartbeats or idle) | `PendingIsAttended`, `StartingIsAttended`, `StateMachineRespected` (2.6 M) |
| `lifecycle_fault` | `MCLifecycleFault.cfg`: two clients, two create calls for one app, one exit, no restart attempts, one fault anywhere | `TypeOK`, `CommandHandedOutOnce`, `CommandsDelivered`, `StateMachineRespected`, and without exit and fault `RunningIsUp`, `DestroyedIsGone` (478 k) |
| `reconcile` | `MCReconcile.cfg`: one sandbox, one node, two readers, one fault anywhere | `LostIsNoticed`, `ReconcileTypeOK` (96 k) |
| `agent` | `MCAgent.cfg`: three sandboxes of two apps, three ports, four starts, two faults, one restart | `TypeOK`, `PortsApart`, `PortIsFreeTillRestart` (995 k) |
| `events` | `MCEvents.cfg`: a channel of two, four events, two faults, one restart | `TypeOK`, `WatchedIsReported`, `InOrderUnlessGivenUp` (164 k) |
| `filepush` | `MCFilePush.cfg`: two pushes of four kinds to one sandbox, two nodes, one fault, one move or restart | `TypeOK`, `PartialIsReported`, `PushApplies` (149 k) |
| `routing` | `MCRouting.cfg`: two apps, two upstreams, buffer of two, two flushes at a time, three changes, one fault | `TypeOK`, `BufferedIsScheduled`, `PresenceConverges` (586 k) |
| `nodes` | `MCNodes.cfg`: one machine, two row ids, one sandbox, one fault | `TypeOK`, `IdentityHolds`, `LiveNodeRecovers`, `SilentNodeIsRetired` (393 k) |

and three that disagree with what the repository says of itself, each with a
counterexample:

| Run | The repository says | The model shows |
|---|---|---|
| `lifecycle_exhausted` | `HandleCrash` "transitions to FAILED if max attempts are exceeded" | it compares with the state read before `HandleEvent`'s own transition, so the row stays `restarting` |
| `reconcile_final` | "StateDestroyed should be terminal (no outgoing transitions)" (`sandbox_test.go:20`) | a heartbeat's snapshot made before the stop, applied by app name after the stop's ack, takes the row from `destroyed` to `running` with no container anywhere |
| `nodes_drain` | drain is "to prevent new sandbox scheduling" | the next heartbeat sets the node healthy |

Some properties hold only under the bounds of their run, and changing a constant
shows why. `RunningIsUp` is about behaviours without a crash: a container that exits
before the executor has noted its sandbox is reported without a sandbox id and
refused, and the ack then takes the row to `running`. `UpstreamIsCurrent` fails with
two nodes and `MaxTimeouts = 1`: `HandleAck` does not compare the acking node with
the row's, so a late ack of an abandoned start overwrites the container.
`StartingResolves` fails with `MaxFaults = 1`: one lost poll leaves a command
dispatched for ever. `DestroyedIsGone` says nothing of the sandboxes that never reach
`destroyed`. The three "attended" properties exempt behaviours with a fault, because a
statement that fails between the transition and the command does strand the row; what
they show is that interleaving alone does not, and `LostIsNoticed` that the
heartbeats find such a row unless its container is there.

### Other disagreements

The modules also define properties that the repository's words suggest, or that one
would expect, and that the code does not have. No run lists them; TLC refutes each within seconds when it is put
into a configuration with the constants given here. Where nothing is said: for
`Lifecycle` and `Reconcile` one sandbox, app, client, node and command, create only, no
reader, `Labelled` all apps, bounds of 0; for the others as in the module's
configuration above.

| Property | Constants | What happens |
|---|---|---|
| `Lifecycle!NoSpuriousRestart` | create, restart; three commands | `docker restart` emits a die event, which is handled as a crash, although "No state transition occurs" (`lifecycle.go:696`) |
| `Lifecycle!RecycleSucceeds` | two sandboxes, create, destroy; two commands | the foreign key of any command refuses the delete that "lets us recreate" (`lifecycle.go:159`) |
| `Lifecycle!DestroyCompletes` | `FairSpec`; create, destroy; three commands | a destroy accepted during a start issues a stop without a container id; its failed ack makes no transition |
| `Routing!UpstreamConverges` | `FairSpec`; one app, two upstreams, one flush, no fault | drift compares names only, an old upstream stays, although `proxy-routing.md` has "`PATCH` update in Caddy" |
| `Reconcile!UpIsKept` | `Labelled = {}` | no container is reported, and a running sandbox is marked lost |
| `Reconcile!ExitIsNoticed` | `ReconcileFairSpec`; `MaxCrashes = 1`, two commands | the column's CHECK refuses the reported "exited", and the update's failure is only logged |
| `Reconcile!StartIsKept` | one reader | a forced read, or one more than 10 seconds after the creation (`verified_at` starts as the present), of a placed sandbox whose start command waits to be polled marks it destroyed; the comments of the freshness service say that a confirmed miss does, and the grace window is stated for the reconciler only |
| `Reconcile!UnplacedIsKept` | two sandboxes of one app, two clients, one reader | `ContainerExists` refuses to judge a sandbox "Not yet scheduled to a node ... so we don't spuriously mark destroyed" (`main.go:760`), but its answer about a row that was recycled meanwhile is applied, by app name, to the new row, which has no node yet |
| `Reconcile!ReportStaysOnNode` | two nodes, `MaxTimeouts = 1`, two commands | the heartbeat of a node the sandbox left writes its row, by app name |
| `Agent!PortIsFree` | `MaxRestarts = 1` | a restarted agent hands out ports that its containers bind |
| `Agent!StoppedIsReleased` | two starts, no fault or restart | a second start overwrites the only record of the first port |
| `Events!NoneIsMissed` | `FairSpec`; `MaxFaults = 1`, no restart | a stream that breaks before a first event was mapped is reopened at the present, although "no events are missed" (`agent-protocol.md:299`) |
| `Nodes!RemovedIsEmpty` | as `nodes` | a creation assigns its sandbox between the count and the update of a removal |
| `FilePush!NotHereIsRefused` | two nodes, `MaxMoves = 1` | the node a sandbox was moved away from still accepts pushes for it |
| `FilePush!HostedIsAccepted` | `MaxMoves = 1` | a restarted agent refuses pushes for containers it runs |
| `FilePush!WrittenIsWhole` | two pushes, `Body <- OneFile` | the short content of one followed by the rest of the other |

### Bounds

Three commands are a first start, a second start or restart, and a stop: enough for
a late ack, a replaced container and a crash of the second one. One timeout is
enough for a pass of the reaper or of the rescheduler against the other actors, not
for one of each. One fault can hit any step of any handler. Two flushes is the least
that overlap, and a buffer of two makes both ways to flush (full, timer) happen; three
changes are add, remove, add of one app, or changes of both; with two upstreams a
route can be replaced by one to another container. Two node ids let the
agent's and the operator's registrations each insert a row. Three sandboxes of two
apps let two sandboxes compete for a container's name and the third for the ports;
four starts are one of each and a second start. Four events, two faults and a channel
of two allow a full channel while the stream is down, a replay, and a post that is
overtaken by the next two. The bodies of pushes make a file shorter, write it twice,
delete and write it again, and hold a refused path. One repeated event is enough to
have a crash handled twice, or after the sandbox has been started again.

Symmetry is used only in runs that check no liveness, over clients, nodes, pushes and
ports, which the specifications treat alike. Deadlock is not checked in the runs of
`Lifecycle` and the modules that extend it, of `Agent` and of `Events`, which end when
a bound is reached or there is nothing left to do; it is checked in the others, where
tickers go on and sandboxes can always be started again.

### Fairness

Weak fairness for what goroutines, tickers and timers do by themselves: the next
statement of a handler that has begun, polling, executing and forwarding by agents,
the passes of reaper, rescheduler, monitor and drift detector, timers and flushes
(the HTTP client has a timeout), heartbeats of a running agent, and time passing
for a node nobody reports for. In `Reconcile` also each agent's heartbeats, reads
that have begun, and the end of the grace window. In `Events` the watcher, the
forwarder and the end of a post (its client has a timeout); nothing obliges the
server to handle a post whose client is gone. None for clients, operators,
containers, faults or the start of an agent. `StartingResolves` is stated up to the
bound on commands.

## 5. What is proved

TLAPS proves, for all values of the constants that satisfy the named assumptions:

* `LifecycleProofs!StatesFollowTheMachine`: `Spec => StateMachineRespected`. No
  interleaving of handlers, agents, passes and faults moves a row along anything but
  an edge of `ValidTransitions`, the rescheduler's `pending` to `failed`, an insert,
  or the removal of a dead row. It is about the writes of the lifecycle package; the
  reconciler's and the freshness service's statements, which `Reconcile` adds, do not
  follow the state machine (`DestroyedIsFinal`).
* `LifecycleProofs!TypeCorrect`: `Spec => []TypeOK`.
* `RoutingProofs!NoChangeIsStranded`: `Spec => []BufferedIsScheduled`, for any number
  of apps, any buffer size and any overlap of flushes.
* `RoutingProofs!RoutingTypes`: `Spec => []TypeOK`.
* `LifecycleProofs!LifecycleImplementsQueue`: `Spec => CommandsDelivered`, the
  refinement, and `HandedOutOnce`: `Spec => []CommandHandedOutOnce`.
* `AgentProofs!PortsStayApart`, `PortStaysFree`, `TypeCorrect`: `Spec => []PortsApart`,
  `[]PortIsFreeTillRestart` and `[]TypeOK`, for any ports, apps and sandboxes.
* `EventsProofs!EventsInOrder`, `TypeCorrect`: `Spec => InOrderUnlessGivenUp` and
  `[]TypeOK`, for any channel capacity.
* `NodesProofs!IdentityKept`, `TypeCorrect`: `Spec => []IdentityHolds` and `[]TypeOK`,
  for any number of machines; the run has one.
* `SandboxProofs!StartIsAttended`, `RestartIsAttended`, `MoveIsAttended`:
  `Spec => []StartingIsAttended`, `[]RestartingIsAttended` and `[]PendingIsAttended`,
  and `AttendedWithRedelivery`: the three under `RedeliverySpec`, with any number of
  repeated and late events.
* `SandboxProofs!RunningSandboxIsUp`, `DestroyedSandboxIsGone`: `Spec => []RunningIsUp`
  and `[]DestroyedIsGone` if `"restart"` is not in `ApiOps`, for any number of
  sandboxes, apps, nodes and clients; the run has one app on one node. The hypothesis
  is needed: a `docker restart` is taken for a crash (`NoSpuriousRestart` above), so
  with it a sandbox goes through `restarting` although nothing was disturbed.
* `SandboxProofs!RouteIsCurrent`: `Spec => [](Steady => UpstreamIsCurrent)`, and
  `RouteIsCurrentWithRedelivery`, `FailedSandboxIsDown`:
  `RedeliverySpec => [](Steady => UpstreamIsCurrent)` and
  `[](Steady => FailedIsDown)`, where `Steady` says that no timeout and no fault has
  happened so far. Crashes, restarts and repeated or late events are all allowed, in
  any number. Timeouts are not: with two nodes one is enough to break
  `UpstreamIsCurrent` (section 4). The run `redelivery` has `MaxTimeouts = MaxFaults = 0`,
  so `Steady` holds throughout, with one sandbox on one node and one event repeated;
  the theorems are for any number of each.
* `SandboxProofs!StatesFollowTheMachineWithRedelivery`, `RedeliveryDelivers`:
  `RedeliverySpec => StateMachineRespected` and `CommandsDelivered`. An event that
  comes twice or late may cause a restart; it forces no transition and repeats no
  command.
* `ReconcileProofs!ReconcileTypeCorrect`, `ReconcileHandsOutOnce`, `ReconcileDelivers`:
  `ReconcileSpec => []ReconcileTypeOK`, `[]CommandHandedOutOnce` and
  `CommandsDelivered`, for any number of nodes and readers and any set `Labelled`.
* `FilePushProofs!PartialFilesAreReported`, `PushesApply`, `TypeCorrect`:
  `Spec => []PartialIsReported`, `PushApplies` and `[]TypeOK`, for any number of pushes
  with any bodies.

The argument for `Lifecycle`: most writes are compare-and-sets whose target was
chosen from a state read earlier, so what a handler holds must be an edge from the
state it will compare with. `IndInv` says that for each kind of handler (`ApiInv`,
`AckInv`, `EvtInv`, `PassInv`), and adds: a row that was never inserted has no node
and one past `pending` and not yet dead has one (`RowInv`); the commands an agent
holds exist and the sandboxes it tracks are named by a command (`AgentInv`); the
table stays within its bound (`Bounded`). Two parts of it carry the argument where a
write compares nothing. A create call owns its fresh id until it inserts the row, and
a crash handler that took a row to `restarting` is the only one at work on it, so the
row can only have been destroyed meanwhile. The delete of
soft-recycling, which compares nothing, is safe because a dead row that a command
refers to cannot be deleted. There is one lemma per action; `Preserve` gathers the
parts an action leaves alone. `Routing`'s invariant is `TypeOK` with
`BufferedIsScheduled`, which is inductive together with it: a flush empties the
buffer, and every other step that buffers a change arms a timer.

The refinement rests on `IndInv` with two facts more: a command in an inbox is
dispatched to that node and nobody executes it (`HeldInv`), and the command a loop
executes or acks is dispatched to its node (`SpentInv`). Most steps move no command
(`Quietly`) or issue one (`Issues`); the poll, the beginning of a command, the ack
and the faults are mapped one by one.

`ReconcileProofs` cannot use `IndInv`: the reconciler and the freshness check mark rows
without the state machine, so that a row may be running without a node and a handler
may hold a state no edge leads from. `TypeInv` is what is left: the types, `Bounded`,
and of the calls in flight only that one at work has a sandbox, that one about to make
a compare-and-set has a state to set (`CallsOK`), and that what an agent holds or has
begun is in the table (`BegunInv`, `InboxInv`). Every action of `Lifecycle` keeps it
from nothing else (`TypeStep`), and the refinement needs no more (`DeliveryInv`, which
`QueueStep` and `ReconcileSteps` share). The types of the model's own steps need that a
read under way knows its app (`ReadInv`). That commands always have a node and an
existing sandbox follows here from the table's constraints, and from no invariant.

`Agent`: `PortsApart` needs that a start in progress holds an allocated port of its
own (`JobHoldsPort`). `PortStaysFree` needs that every container which was ever
started is in the map with its port, or about to be (`StartedIsOwned`), and for that
which containers stop and restart commands can name (`JobContainer`, `IdsAcked`).

`Events`: the events on their way form one line, from those posted over the report,
the channel and the event held to the place in the stream, along which they never
decrease (`PostsBehind`, `ReportBehind`, `OutSorted`, `HeldBehind`, `Positioned`), and
a post left behind is of a settled event or of the report under way (`WireIsOld`).

`Nodes`: the handlers in flight hold ids of rows that exist and are of their machine
(`CallsHold`, `AgentsRegisterSelf`); no statement removes a row or changes its machine.

`SandboxProofs`, first part: each "attended" property fails to be inductive where the
one that attends steps aside. A start command that is being closed does not help a row
in `starting`, so `StartInv` counts a command only while its handler is not past its
transition (`CanSettle`), and `RereadInv` says that an ack which missed its
compare-and-set accepts only a row that waits for nothing.
`RestartingIsAttended` and `PendingIsAttended` are
inductive with these. Every action either enters none of the three states and ends no
handler that attends one (`Enters`, `Attends`), or hands the row on. Faults need no
argument, since the properties exempt them. For `Redelivery` the same invariant
holds with `LateInv`: a delayed post is an event like any other.

Second part: `Calm` is what holds as long as nothing was disturbed (`Undisturbed`),
beside the `QueueInv` of the refinement. A sandbox lives once, and an app has at most
one row with a node, for ever, because the foreign key keeps it (`RowsCalm`). It has
one start command, on its node, and a stop command only after a destroy (`CmdsCalm`);
a create call that is to issue the start is the only one (`ApisCalm`). A container is
the one an executed start command of its app made, and is up (`CtrCalm`); a start
event follows such a start, an exit event follows a destroy (`EvqCalm`, `EvtsCalm`);
a start is acked as a success, and a stop acked as a success has removed the container
(`AcksCalm`). From these `LivesCalm`: a running sandbox has been started, a destroyed
one has no container, and the container of a live one is in its row unless the ack
that will store it is under way, which at quiescence it is not. `StaysDisturbed`: what
was disturbed once stays so, therefore steps of the environment need no argument.

Third part: `Home` says that, while `Steady`, a sandbox stays where it was placed. An
app has one live row; a command is for the node of its sandbox, and a stop command
follows a destroy (`CmdsHome`); the node a handler read is still the row's
(`CallsHome`); neither reaper nor rescheduler is at work. So only the loop of that node
stores a container, one ack after the other, and a route is that of the row or an ack
is between its store and its route update (`Routed`, `Storing`), which at quiescence
none is. Proving it with crashes is what the properties need: a crash changes the
container under a row, and only the next ack makes row and route agree.

Fourth part, `Mended`, for `FailedIsDown`. An exit report that is not the sandbox's
latest fails it while it starts with its container up. `Failing`: such a sandbox
`Recovers`, that is, a start of it is still to be executed, or the report of its start
is still to be handled (`Seen`: in the agent's queue or with the server as a late
post), or a handler is about to take it to `running`. This is inductive only with
`Rising`, the same for a sandbox still `starting` unless no report can fail it
(`NoExit`), and `Fresh`: an agent that does not know a sandbox yet has reported
nothing of it. Repeating or delaying an event changes neither `Seen` nor anything else
of this. At quiescence `Seen` is empty, so a start command is pending; then some
command is the oldest of its node and a poll would hand it out (`PendingIsPolled`),
which `Quiet` excludes.

`FilePush`: `PartialIsReported` is not inductive, since a push whose file was removed
under it ends without touching the file another push has opened meanwhile. `PartialInv`
asks that the push which answers for a partial file has that very file open, has
counted it as failed, or was cut off. `PushApplies` says when a push answers what must
have held all along: `AloneInv`, that a push nobody overlapped is the only one at its
directory (`Apart`) and has made of every file what the entries before the current one
say, the current one excepted while it is open (`Progress`). The reference `Outcome`
names the last entry for a file, where the code works entry by entry; `OutcomeSkips`
and the lemmas after it take it from one entry to the next.

Only model-checked: the liveness properties (`StartingResolves`, `LostIsNoticed`,
`WatchedIsReported`, `PresenceConverges`, `LiveNodeRecovers`, `SilentNodeIsRetired`),
since fairness and ENABLED are beyond the prover. Every invariant and every action
property of a passing run, and the refinement, is a theorem above.

## 6. Not modelled

Pulling images, reading logs, metrics, the read-only API and configuration change no
state that the program's operations depend on. Authentication checks single requests
by cryptography; of it, only the expiry of a signed URL (`FilePush`) and a refused
event report (`Events`) occur. A running agent that registers again after a 401 does
so in `Events` only: the token it presents is the one of its configuration. The SDK and
the sandbox commands of the CLI are clients of the modelled API.
