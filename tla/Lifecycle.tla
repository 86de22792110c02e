----------------------------- MODULE Lifecycle -----------------------------
(***************************************************************************)
(* The life of a sandbox: the handlers of control/internal/lifecycle       *)
(* running concurrently over one Postgres database, and the agents that    *)
(* execute their commands and report back.                                 *)
(*                                                                         *)
(* Every SQL statement is one atomic step; between two statements of one   *)
(* handler any other handler may run.  A handler in flight is a record     *)
(* call[p] holding what it has read so far, its pc naming the statement it *)
(* runs next.  The code runs at most one handler at a time for each of:    *)
(*    <<"api", c>>     a client of the HTTP API                            *)
(*    <<"ack", n>>     the command loop of node n's agent (executor, then  *)
(*                     the HandleAck its ack triggers)                     *)
(*    <<"event", n>>   the event forwarder of node n's agent (HandleEvent) *)
(*    <<"reaper", 0>>  the idle reaper's ticker goroutine                  *)
(*    <<"monitor", 0>> the heartbeat monitor's goroutine (rescheduling)    *)
(*                                                                         *)
(* A container, and the host port it listens on, is named by the number of *)
(* the start command that created it; 0 is SQL NULL.                       *)
(***************************************************************************)
EXTENDS Integers, Sequences, FiniteSets, SandboxStateMachine

CONSTANTS
    Sandbox,            \* sandbox ids (uuid.New() never repeats one)
    App,                \* application names, UNIQUE in the sandboxes table
    AppOf,              \* the app_name a create call with that id would use
    Node,               \* registered nodes, each with one agent
    Client,             \* concurrent callers of the HTTP API
    NoNode, NoSandbox,  \* SQL NULL for node_id; no sandbox in a call
    ApiOps,             \* the API operations the clients use
    MaxRestartAttempts, \* maxRestartAttempts
    MaxCmds,            \* bound: rows of the commands table
    MaxCrashes,         \* bound: containers that exit on their own
    MaxTimeouts,        \* bound: heartbeat deadlines missed, idle timeouts reached
    MaxFaults           \* bound: lost messages, failed statements, crashes

ASSUME ConstantsAssumption ==
    /\ AppOf \in [Sandbox -> App]
    /\ NoNode \notin Node
    /\ NoSandbox \notin Sandbox
    /\ ApiOps \subseteq {"create", "destroy", "wake", "restart", "push"}
    /\ MaxRestartAttempts \in Nat
    /\ MaxCmds \in Nat
    /\ MaxCrashes \in Nat
    /\ MaxTimeouts \in Nat
    /\ MaxFaults \in Nat

VARIABLES
    row,      \* the sandboxes table
    cmds,     \* the commands table, in insertion order; a command's id is its index
    healthy,  \* the nodes whose status is 'healthy'
    call,     \* the handlers in flight
    batch,    \* the rows the reaper and the monitor listed and have yet to visit
    inbox,    \* commands an agent has polled and not begun
    tracked,  \* the executor's in-memory map: sandboxes an agent knows
    ctr,      \* Docker: the container named forge-<app> on each node
    evq,      \* container events the forwarder has not reported yet
    route,    \* the last change enqueued for an app's Caddy route
    gaveUp,   \* observed: sandboxes HandleCrash found out of restart attempts
    crashes, timeouts, faults   \* observed: what the environment did, bounded

db == <<row, cmds, healthy>>
agents == <<inbox, tracked, ctr, evq>>
counts == <<gaveUp, crashes, timeouts, faults>>
vars == <<row, cmds, healthy, call, batch, inbox, tracked, ctr, evq, route,
          gaveUp, crashes, timeouts, faults>>

-----------------------------------------------------------------------------
(* Data. *)

CmdId == 1..MaxCmds
Cid == 0..MaxCmds

\* A row of the sandboxes table.  "absent": this id was never inserted;
\* "deleted": its row was removed by soft-recycling.  idle: last_active_at is
\* further back than the idle timeout.
Row == [state : State \cup {"absent", "deleted"}, node : Node \cup {NoNode},
        cid : Cid, fails : Nat, idle : BOOLEAN]

CmdType == {"start_sandbox", "stop_sandbox", "restart_sandbox"}
CmdStatus == {"pending", "dispatched", "completed", "failed"}

Command == [type : CmdType, sb : Sandbox, node : Node, cid : Cid,
            status : CmdStatus]

EventType == {"container_started", "container_exited", "container_oom"}

\* The row a background pass has listed, as it was when it was listed.
Snapshot == [sb : Sandbox, node : Node \cup {NoNode}, cid : Cid]

Api(c) == <<"api", c>>
Ack(n) == <<"ack", n>>
Evt(n) == <<"event", n>>
Reaper == <<"reaper", 0>>
Monitor == <<"monitor", 0>>
Proc == {Api(c) : c \in Client} \cup {Ack(n) : n \in Node}
            \cup {Evt(n) : n \in Node} \cup {Reaper, Monitor}

Pc == {"idle",
       "recycle", "insert", "schedule", "assign", "start_cmd",
       "destroy_cas", "stop_cmd", "wake_cas", "restart_cmd",
       "created", "stopped", "send",
       "ack_cas", "ack_reread", "ack_persist", "ack_refetch", "ack_route",
       "ack_reset", "ack_done",
       "event_cas", "event_route", "crash_inc", "crash_fail", "crash_cas",
       "crash_cmd",
       "reap_cmd", "reap_route",
       "move_list", "move_route", "move_reset", "move_schedule", "move_fail",
       "move_assign", "move_cmd"}

Call == [pc : Pc, sb : Sandbox \cup {NoSandbox}, old : Sandbox \cup {NoSandbox},
         st : State \cup {"none", "absent", "deleted"}, nxt : State \cup {"none"},
         node : Node \cup {NoNode}, cid : Cid, cmd : Cid, ok : BOOLEAN,
         fails : Nat]

\* A handler that has read no row of its own yet.
Begun(pc, s, x, n, c, i, ok) ==
    [pc |-> pc, sb |-> s, old |-> x, st |-> "none", nxt |-> "none", node |-> n,
     cid |-> c, cmd |-> i, ok |-> ok, fails |-> 0]

Idle == Begun("idle", NoSandbox, NoSandbox, NoNode, 0, 0, TRUE)

Exists(s) == row[s].state \notin {"absent", "deleted"}

\* The rows GetSandboxByAppName and the UNIQUE constraint look at.
RowsOf(a) == {s \in Sandbox : AppOf[s] = a /\ Exists(s)}

\* Mutant of StateIs: UPDATE ... WHERE id, with no state in the clause.
UpdateById(s, st) == Exists(s)

\* The WHERE clause of TransitionSandboxState and AssignSandboxToNode.
StateIs(s, st) == row[s].state = st

\* A handler that has just read the row of s (GetSandbox) and is to take it to
\* nxt; i and ok are the command and the status of an ack.
Reading(pc, s, nxt, i, ok) ==
    [pc |-> pc, sb |-> s, old |-> NoSandbox, st |-> row[s].state, nxt |-> nxt,
     node |-> row[s].node, cid |-> row[s].cid, cmd |-> i, ok |-> ok,
     fails |-> row[s].fails]

ReadRow(pc, s, nxt) == Reading(pc, s, nxt, 0, TRUE)

\* A create call for s, which found row x; a handler that chose node n for s.
Creating(pc, s, x) == Begun(pc, s, x, NoNode, 0, 0, TRUE)
Placing(pc, s, n) == Begun(pc, s, NoSandbox, n, 0, 0, TRUE)

\* What a step does to the handler of p: moves it on, replaces what it holds by
\* k, or ends it.
Step(p, pc) == call' = [call EXCEPT ![p].pc = pc]
Become(p, k) == call' = [call EXCEPT ![p] = k]
Return(p) == Become(p, Idle)
At(p, pc) == call[p].pc = pc

SetState(s, st) == row' = [row EXCEPT ![s].state = st]

\* The guard is the model's bound on the table.
InsertCommand(type, s, n, c) ==
    /\ Len(cmds) < MaxCmds
    /\ cmds' = Append(cmds, [type |-> type, sb |-> s, node |-> n, cid |-> c,
                             status |-> "pending"])

\* CreateCommand.  The insert is an error, and the table as it was, without a
\* node (node_id is NOT NULL) or when the sandbox's row was deleted meanwhile
\* (sandbox_id is a foreign key).
CreateCommand(type, s, n, c) ==
    IF n # NoNode /\ Exists(s) THEN InsertCommand(type, s, n, c) ELSE UNCHANGED cmds

NoRoute == [node |-> NoNode, cid |-> 0]

-----------------------------------------------------------------------------
(* CreateSandbox. *)

\* GetSandboxByAppName decides: no row, insert; a destroyed or failed row,
\* delete it first; any other row is ErrConflict, which changes nothing.
CreateLookup(c, s) ==
    /\ "create" \in ApiOps
    /\ At(Api(c), "idle")
    /\ row[s].state = "absent"
    /\ \A d \in Client : call[Api(d)].sb # s
    /\ \/ /\ RowsOf(AppOf[s]) = {}
          /\ Become(Api(c), Creating("insert", s, NoSandbox))
       \/ \E x \in RowsOf(AppOf[s]) :
            /\ row[x].state \in {"destroyed", "failed"}
            /\ Become(Api(c), Creating("recycle", s, x))
    /\ UNCHANGED <<db, batch, agents, route, counts>>

\* The foreign key commands.sandbox_id keeps the row once a command names it.
Referenced(s) == \E i \in 1..Len(cmds) : cmds[i].sb = s

\* DeleteSandbox: by id alone, whatever the state is by now.
CreateRecycle(c) ==
    LET x == call[Api(c)].old IN
    /\ At(Api(c), "recycle")
    /\ \/ /\ Referenced(x)
          /\ Return(Api(c))
          /\ UNCHANGED row
       \/ /\ ~Referenced(x)
          /\ SetState(x, "deleted")
          /\ Step(Api(c), "insert")
    /\ UNCHANGED <<cmds, healthy, batch, agents, route, counts>>

CreateInsert(c) ==
    LET s == call[Api(c)].sb IN
    /\ At(Api(c), "insert")
    /\ \/ /\ RowsOf(AppOf[s]) # {}     \* unique violation: ErrConflict
          /\ Return(Api(c))
          /\ UNCHANGED row
       \/ /\ RowsOf(AppOf[s]) = {}
          /\ row' = [row EXCEPT ![s] = [state |-> "pending", node |-> NoNode,
                                        cid |-> 0, fails |-> 0, idle |-> FALSE]]
          /\ Step(Api(c), "schedule")
    /\ UNCHANGED <<cmds, healthy, batch, agents, route, counts>>

\* ListHealthyNodes and Schedule: some healthy node with room, or ErrNoCapacity,
\* which leaves the row pending.
CreateSchedule(c) ==
    /\ At(Api(c), "schedule")
    /\ \/ Return(Api(c))
       \/ \E n \in healthy :
            Become(Api(c), Placing("assign", call[Api(c)].sb, n))
    /\ UNCHANGED <<db, batch, agents, route, counts>>

\* AssignSandboxToNode: node_id is set, host_port and container_id become NULL.
AssignSandboxToNode(s, n) ==
    row' = [row EXCEPT ![s] = [state |-> "starting", node |-> n, cid |-> 0,
                               fails |-> @.fails, idle |-> @.idle]]

CreateAssign(c) ==
    LET s == call[Api(c)].sb IN
    /\ At(Api(c), "assign")
    /\ \/ /\ StateIs(s, "pending")
          /\ AssignSandboxToNode(s, call[Api(c)].node)
          /\ Step(Api(c), "start_cmd")
       \/ /\ ~StateIs(s, "pending")
          /\ Return(Api(c))
          /\ UNCHANGED row
    /\ UNCHANGED <<cmds, healthy, batch, agents, route, counts>>

\* The start command of CreateSandbox and of WakeSandbox.
StartCmd(c) ==
    LET k == call[Api(c)] IN
    /\ At(Api(c), "start_cmd")
    /\ CreateCommand("start_sandbox", k.sb, k.node, 0)
    /\ Return(Api(c))
    /\ UNCHANGED <<row, healthy, batch, agents, route, counts>>

-----------------------------------------------------------------------------
(* DestroySandbox, WakeSandbox, RestartSandbox and the file push. *)

DestroyRead(c, s) ==
    /\ "destroy" \in ApiOps
    /\ At(Api(c), "idle")
    /\ Exists(s)
    /\ \E to \in NextState(row[s].state, "destroy_requested") :
         Become(Api(c), ReadRow("destroy_cas", s, to))
    /\ UNCHANGED <<db, batch, agents, route, counts>>

DestroyCas(c) ==
    LET k == call[Api(c)] IN
    /\ At(Api(c), "destroy_cas")
    /\ \/ /\ StateIs(k.sb, k.st)
          /\ SetState(k.sb, k.nxt)
          /\ Step(Api(c), "stop_cmd")
       \/ /\ ~StateIs(k.sb, k.st)
          /\ Return(Api(c))
          /\ UNCHANGED row
    /\ UNCHANGED <<cmds, healthy, batch, agents, route, counts>>

\* Mutant of StopCmd: the insert does not mind a NULL node.
StopCmdAnyNode(c) ==
    LET k == call[Api(c)] IN
    /\ At(Api(c), "stop_cmd")
    /\ InsertCommand("stop_sandbox", k.sb, k.node, k.cid)
    /\ Return(Api(c))
    /\ UNCHANGED <<row, healthy, batch, agents, route, counts>>

\* For a row that has no node the insert fails, after the state has changed.
StopCmd(c) ==
    LET k == call[Api(c)] IN
    /\ At(Api(c), "stop_cmd")
    /\ CreateCommand("stop_sandbox", k.sb, k.node, k.cid)
    /\ Return(Api(c))
    /\ UNCHANGED <<row, healthy, batch, agents, route, counts>>

WakeRead(c, s) ==
    /\ "wake" \in ApiOps
    /\ At(Api(c), "idle")
    /\ row[s].state = "stopped"
    /\ Become(Api(c), ReadRow("wake_cas", s, "starting"))
    /\ UNCHANGED <<db, batch, agents, route, counts>>

\* Mutant of WakeCas: the handler answers before it has issued the command.
WakeCasOnly(c) ==
    LET k == call[Api(c)] IN
    /\ At(Api(c), "wake_cas")
    /\ StateIs(k.sb, k.st)
    /\ SetState(k.sb, k.nxt)
    /\ Return(Api(c))
    /\ UNCHANGED <<cmds, healthy, batch, agents, route, counts>>

WakeCas(c) ==
    LET k == call[Api(c)] IN
    /\ At(Api(c), "wake_cas")
    /\ \/ /\ StateIs(k.sb, k.st)
          /\ SetState(k.sb, k.nxt)
          /\ Step(Api(c), "start_cmd")
       \/ /\ ~StateIs(k.sb, k.st)
          /\ Return(Api(c))
          /\ UNCHANGED row
    /\ UNCHANGED <<cmds, healthy, batch, agents, route, counts>>

RestartRead(c, s) ==
    /\ "restart" \in ApiOps
    /\ At(Api(c), "idle")
    /\ row[s].state = "running"
    /\ Become(Api(c), ReadRow("restart_cmd", s, "none"))
    /\ UNCHANGED <<db, batch, agents, route, counts>>

RestartCmd(c) ==
    LET k == call[Api(c)] IN
    /\ At(Api(c), "restart_cmd")
    /\ CreateCommand("restart_sandbox", k.sb, k.node, k.cid)
    /\ Return(Api(c))
    /\ UNCHANGED <<row, healthy, batch, agents, route, counts>>

\* handleFilePush redirects a client to the agent and calls
\* UpdateSandboxLastActive; it asks only that a node is assigned.
FilePush(s) ==
    /\ "push" \in ApiOps
    /\ Exists(s)
    /\ row[s].node # NoNode
    /\ row' = [row EXCEPT ![s].idle = FALSE]
    /\ UNCHANGED <<cmds, healthy, call, batch, agents, route, counts>>

-----------------------------------------------------------------------------
(* An agent's command loop: poll, execute one command, send its ack. *)

Events(n, a, types) ==
    evq' = [evq EXCEPT ![n] =
              @ \o [i \in 1..Len(types) |-> [type |-> types[i], app |-> a]]]

\* The event Docker emits when a container is stopped, killed or removed.
DieIfUp(n, a) == IF ctr[n][a].up THEN <<"container_exited">> ELSE <<>>

NoContainer == [cid |-> 0, up |-> FALSE]

\* The SELECT of PollPendingCommands: the oldest PollLimit pending commands.
PollLimit == 10
Pending(n) ==
    LET all == {i \in 1..Len(cmds) : cmds[i].node = n /\ cmds[i].status = "pending"}
    IN  {i \in all : Cardinality({j \in all : j < i}) < PollLimit}

\* Mutant of Dispatch: a SELECT that does not mark what it returns.
SelectOnly(n) == UNCHANGED cmds

\* PollPendingCommands: the commands of the node become 'dispatched' as they are
\* handed out.  RETURNING gives them in no particular order, so inbox is a set.
Dispatch(n) ==
    cmds' = [i \in 1..Len(cmds) |->
               IF i \in Pending(n) THEN [cmds[i] EXCEPT !.status = "dispatched"]
                                   ELSE cmds[i]]

AgentPoll(n) ==
    /\ At(Ack(n), "idle")
    /\ inbox[n] = {}
    /\ Pending(n) # {}
    /\ Dispatch(n)
    /\ inbox' = [inbox EXCEPT ![n] = Pending(n)]
    /\ UNCHANGED <<row, healthy, call, batch, tracked, ctr, evq, route, counts>>

Executing(pc, i, ok) == Begun(pc, cmds[i].sb, NoSandbox, NoNode, 0, i, ok)

\* The command loop takes command i, and goes on at pc with ack status ok.
Begin(n, i, pc, ok) ==
    /\ At(Ack(n), "idle")
    /\ i \in inbox[n]
    /\ inbox' = [inbox EXCEPT ![n] = @ \ {i}]
    /\ Become(Ack(n), Executing(pc, i, ok))

\* executeStartSandbox: CreateContainer removes a container of the same name,
\* creates the new one and starts it.
AgentStart(n, i) ==
    LET a == AppOf[cmds[i].sb] IN
    /\ cmds[i].type = "start_sandbox"
    /\ Begin(n, i, "created", TRUE)
    /\ ctr' = [ctr EXCEPT ![n][a] = [cid |-> i, up |-> TRUE]]
    /\ Events(n, a, DieIfUp(n, a) \o <<"container_started">>)
    /\ UNCHANGED <<db, batch, tracked, route, counts>>

\* No free port, or CreateContainer fails; the second may have removed the old
\* container by then.  A container that was created and would not start has an
\* id nobody is told, which is as good as none.
AgentStartFails(n, i) ==
    LET a == AppOf[cmds[i].sb] IN
    /\ cmds[i].type = "start_sandbox"
    /\ faults < MaxFaults
    /\ faults' = faults + 1
    /\ Begin(n, i, "send", FALSE)
    /\ \/ UNCHANGED <<ctr, evq>>
       \/ /\ ctr' = [ctr EXCEPT ![n][a] = NoContainer]
          /\ Events(n, a, DieIfUp(n, a))
    /\ UNCHANGED <<db, batch, tracked, route, gaveUp, crashes, timeouts>>

\* Mutant of AgentTrack: the ack is left to the container's own event.
AgentTrackNoAck(n) ==
    /\ At(Ack(n), "created")
    /\ tracked' = [tracked EXCEPT ![n] = @ \cup {call[Ack(n)].sb}]
    /\ Return(Ack(n))
    /\ UNCHANGED <<db, batch, inbox, ctr, evq, route, counts>>

\* The container is up before the executor has noted the sandbox in its map.
AgentTrack(n) ==
    /\ At(Ack(n), "created")
    /\ tracked' = [tracked EXCEPT ![n] = @ \cup {call[Ack(n)].sb}]
    /\ Step(Ack(n), "send")
    /\ UNCHANGED <<db, batch, inbox, ctr, evq, route, counts>>

\* The container a stop or restart command names is on this node.
HasContainer(n, i) ==
    cmds[i].cid # 0 /\ ctr[n][AppOf[cmds[i].sb]].cid = cmds[i].cid

\* executeStopSandbox: stop and remove the container the payload names; Docker
\* refuses an unknown or empty id, which is acked as a failure.
AgentStop(n, i) ==
    LET a == AppOf[cmds[i].sb] IN
    /\ cmds[i].type = "stop_sandbox"
    /\ \/ /\ HasContainer(n, i)
          /\ Begin(n, i, "stopped", TRUE)
          /\ ctr' = [ctr EXCEPT ![n][a] = NoContainer]
          /\ Events(n, a, DieIfUp(n, a))
       \/ /\ ~HasContainer(n, i)
          /\ Begin(n, i, "send", FALSE)
          /\ UNCHANGED <<ctr, evq>>
    /\ UNCHANGED <<db, batch, tracked, route, counts>>

AgentUntrack(n) ==
    /\ At(Ack(n), "stopped")
    /\ tracked' = [tracked EXCEPT ![n] = @ \ {call[Ack(n)].sb}]
    /\ Step(Ack(n), "send")
    /\ UNCHANGED <<db, batch, inbox, ctr, evq, route, counts>>

\* executeRestartSandbox: docker restart stops the container and starts it.
AgentRestart(n, i) ==
    LET a == AppOf[cmds[i].sb] IN
    /\ cmds[i].type = "restart_sandbox"
    /\ \/ /\ HasContainer(n, i)
          /\ Begin(n, i, "send", TRUE)
          /\ ctr' = [ctr EXCEPT ![n][a].up = TRUE]
          /\ Events(n, a, DieIfUp(n, a) \o <<"container_started">>)
       \/ /\ ~HasContainer(n, i)
          /\ Begin(n, i, "send", FALSE)
          /\ UNCHANGED <<ctr, evq>>
    /\ UNCHANGED <<db, batch, tracked, route, counts>>

\* Docker fails in the middle of a stop or a restart: the container may be down,
\* it is still there, and the ack is a failure.
AgentStopFails(n, i) ==
    LET a == AppOf[cmds[i].sb] IN
    /\ cmds[i].type \in {"stop_sandbox", "restart_sandbox"}
    /\ HasContainer(n, i)
    /\ faults < MaxFaults
    /\ faults' = faults + 1
    /\ Begin(n, i, "send", FALSE)
    /\ \/ UNCHANGED <<ctr, evq>>
       \/ /\ ctr' = [ctr EXCEPT ![n][a].up = FALSE]
          /\ Events(n, a, DieIfUp(n, a))
    /\ UNCHANGED <<db, batch, tracked, route, gaveUp, crashes, timeouts>>

\* Execute's first check: the command outlived its timeout_seconds.
AgentExpired(n, i) ==
    /\ faults < MaxFaults
    /\ faults' = faults + 1
    /\ Begin(n, i, "send", FALSE)
    /\ UNCHANGED <<db, batch, tracked, ctr, evq, route, gaveUp, crashes, timeouts>>

-----------------------------------------------------------------------------
(* HandleAck. *)

\* Mutant of AckEvent: a failed stop is taken for a stop.
AckEventStopAny(type, ok, st) ==
    CASE type = "start_sandbox" /\ ok  -> "started"
      [] type = "start_sandbox" /\ ~ok -> "start_failed"
      [] type = "stop_sandbox" /\ st = "destroying" -> "destroyed"
      [] OTHER -> "none"

\* The state machine event an ack stands for; "none" where the handler makes no
\* transition.  A stop ack counts only for a sandbox that is being destroyed.
AckEvent(type, ok, st) ==
    CASE type = "start_sandbox" /\ ok  -> "started"
      [] type = "start_sandbox" /\ ~ok -> "start_failed"
      [] type = "stop_sandbox" /\ ok /\ st = "destroying" -> "destroyed"
      [] OTHER -> "none"

\* The state an ack's event leads to, from whichever state accepts it.
AckTarget(ev) ==
    CASE ev = "started" -> "running" [] ev = "start_failed" -> "failed"
      [] ev = "destroyed" -> "destroyed"

\* What follows the transition: runtime info is stored for a started sandbox.
AfterTransition(nxt) == IF nxt = "running" THEN "ack_persist" ELSE "ack_route"

\* GetSandbox and the choice of the event.  A transition the table refuses is
\* an error unless the row already is where the ack would take it; after an
\* error the command keeps its status.
AckRead(n) ==
    LET k  == call[Ack(n)]
        st == row[k.sb].state
        ev == AckEvent(cmds[k.cmd].type, k.ok, st)
        Goto(pc, nxt) == Become(Ack(n), Reading(pc, k.sb, nxt, k.cmd, k.ok))
    IN
    /\ At(Ack(n), "send")
    /\ \/ ev = "none" /\ Step(Ack(n), "ack_done")
       \/ /\ ev # "none"
          /\ \/ \E to \in NextState(st, ev) : Goto("ack_cas", to)
             \/ /\ NextState(st, ev) = {}
                /\ \/ /\ st = AckTarget(ev)
                      /\ Goto(AfterTransition(st), st)
                   \/ /\ st # AckTarget(ev)
                      /\ Return(Ack(n))
    /\ UNCHANGED <<db, batch, agents, route, counts>>

AckCas(n) ==
    LET k == call[Ack(n)] IN
    /\ At(Ack(n), "ack_cas")
    /\ \/ /\ StateIs(k.sb, k.st)
          /\ SetState(k.sb, k.nxt)
          /\ Step(Ack(n), AfterTransition(k.nxt))
       \/ /\ ~StateIs(k.sb, k.st)
          /\ Step(Ack(n), "ack_reread")
          /\ UNCHANGED row
    /\ UNCHANGED <<cmds, healthy, batch, agents, route, counts>>

\* After a missed compare-and-set: fine if the row is at the target by now.
AckReread(n) ==
    LET k == call[Ack(n)] IN
    /\ At(Ack(n), "ack_reread")
    /\ \/ /\ StateIs(k.sb, k.nxt)
          /\ Become(Ack(n), Reading(AfterTransition(k.nxt), k.sb, k.nxt, k.cmd, k.ok))
       \/ /\ ~StateIs(k.sb, k.nxt)
          /\ Return(Ack(n))
    /\ UNCHANGED <<db, batch, agents, route, counts>>

\* Mutant of AckPersist: the runtime info is not stored.
AckPersistNothing(n) ==
    /\ At(Ack(n), "ack_persist")
    /\ Step(Ack(n), "ack_refetch")
    /\ UNCHANGED <<db, batch, agents, route, counts>>

\* UpdateSandboxRuntime: by id alone.
AckPersist(n) ==
    LET k == call[Ack(n)] IN
    /\ At(Ack(n), "ack_persist")
    /\ row' = [row EXCEPT ![k.sb].cid = k.cmd]
    /\ Step(Ack(n), "ack_refetch")
    /\ UNCHANGED <<cmds, healthy, batch, agents, route, counts>>

\* Mutant of AckRefetch: the row read before the runtime info was stored is used.
AckKeepRow(n) ==
    /\ At(Ack(n), "ack_refetch")
    /\ Step(Ack(n), "ack_route")
    /\ UNCHANGED <<db, batch, agents, route, counts>>

AckRefetch(n) ==
    LET k == call[Ack(n)] IN
    /\ At(Ack(n), "ack_refetch")
    /\ Become(Ack(n), Reading("ack_route", k.sb, k.nxt, k.cmd, k.ok))
    /\ UNCHANGED <<db, batch, agents, route, counts>>

\* notifyRouteAdd needs a node and a host port; notifyRouteRemove needs nothing.
AckRoute(n) ==
    LET k == call[Ack(n)]
        a == AppOf[k.sb]
    IN
    /\ At(Ack(n), "ack_route")
    /\ route' = CASE k.nxt = "running" /\ k.node # NoNode /\ k.cid # 0 ->
                        [route EXCEPT ![a] = [node |-> k.node, cid |-> k.cid]]
                  [] k.nxt = "destroyed" -> [route EXCEPT ![a] = NoRoute]
                  [] OTHER -> route
    /\ Step(Ack(n), IF k.nxt = "running" /\ k.fails > 0 THEN "ack_reset"
                                                        ELSE "ack_done")
    /\ UNCHANGED <<db, batch, agents, counts>>

\* HandleRestarted.
AckReset(n) ==
    /\ At(Ack(n), "ack_reset")
    /\ row' = [row EXCEPT ![call[Ack(n)].sb].fails = 0]
    /\ Step(Ack(n), "ack_done")
    /\ UNCHANGED <<cmds, healthy, batch, agents, route, counts>>

\* AckCommand; the agent gets its answer and its loop goes on.
AckDone(n) ==
    LET k == call[Ack(n)] IN
    /\ At(Ack(n), "ack_done")
    /\ cmds' = [cmds EXCEPT ![k.cmd].status =
                              IF k.ok THEN "completed" ELSE "failed"]
    /\ Return(Ack(n))
    /\ UNCHANGED <<row, healthy, batch, agents, route, counts>>

-----------------------------------------------------------------------------
(* HandleEvent and the restart manager's HandleCrash. *)

MachineEvent(type) ==
    IF type = "container_started" THEN "started" ELSE "container_exited"

\* forwardEvents takes the next event, resolves its app to a sandbox the agent
\* tracks (an unresolved one is refused by the API) and HandleEvent reads the
\* row.  The reporting node is not compared with the row's node.
EventRead(n) ==
    LET e  == Head(evq[n])
        ss == {s \in tracked[n] : AppOf[s] = e.app}
    IN
    /\ At(Evt(n), "idle")
    /\ evq[n] # <<>>
    /\ evq' = [evq EXCEPT ![n] = Tail(@)]
    /\ \/ ss = {} /\ UNCHANGED call
       \/ \E s \in ss :
            LET tos == IF Exists(s) THEN NextState(row[s].state, MachineEvent(e.type))
                                    ELSE {}
            IN  \/ tos = {} /\ UNCHANGED call
                \/ \E to \in tos :
                     Become(Evt(n), ReadRow("event_cas", s, to))
    /\ UNCHANGED <<db, batch, inbox, tracked, ctr, route, counts>>

EventCas(n) ==
    LET k == call[Evt(n)] IN
    /\ At(Evt(n), "event_cas")
    /\ \/ /\ StateIs(k.sb, k.st)
          /\ SetState(k.sb, k.nxt)
          /\ IF k.nxt = "restarting" THEN Step(Evt(n), "event_route")
                                     ELSE Return(Evt(n))
       \/ /\ ~StateIs(k.sb, k.st)
          /\ Return(Evt(n))
          /\ UNCHANGED row
    /\ UNCHANGED <<cmds, healthy, batch, agents, route, counts>>

EventRoute(n) ==
    /\ At(Evt(n), "event_route")
    /\ route' = [route EXCEPT ![AppOf[call[Evt(n)].sb]] = NoRoute]
    /\ Step(Evt(n), "crash_inc")
    /\ UNCHANGED <<db, batch, agents, counts>>

\* IncrementSandboxFailureCount returns the new count, which decides.
CrashInc(n) ==
    LET s == call[Evt(n)].sb IN
    /\ At(Evt(n), "crash_inc")
    /\ row' = [row EXCEPT ![s].fails = @ + 1]
    /\ Step(Evt(n), IF row[s].fails + 1 > MaxRestartAttempts THEN "crash_fail"
                                                             ELSE "crash_cas")
    /\ UNCHANGED <<cmds, healthy, batch, agents, route, counts>>

\* Attempts exhausted: the compare-and-set expects the state in the row that
\* HandleEvent read before its own transition.
CrashFail(n) ==
    LET k == call[Evt(n)] IN
    /\ At(Evt(n), "crash_fail")
    /\ row' = IF StateIs(k.sb, k.st) THEN [row EXCEPT ![k.sb].state = "failed"]
                                     ELSE row
    /\ gaveUp' = gaveUp \cup {k.sb}
    /\ Return(Evt(n))
    /\ UNCHANGED <<cmds, healthy, batch, agents, route, crashes, timeouts, faults>>

\* Mutant of CrashCas: it expects the state in the row HandleEvent read, as the
\* branch of CrashFail does.
CrashCasStale(n) ==
    LET k == call[Evt(n)] IN
    /\ At(Evt(n), "crash_cas")
    /\ ~StateIs(k.sb, k.st)
    /\ Return(Evt(n))
    /\ UNCHANGED <<db, batch, agents, route, counts>>

CrashCas(n) ==
    LET k == call[Evt(n)] IN
    /\ At(Evt(n), "crash_cas")
    /\ \/ /\ StateIs(k.sb, "restarting")
          /\ SetState(k.sb, "starting")
          /\ Step(Evt(n), "crash_cmd")
       \/ /\ ~StateIs(k.sb, "restarting")
          /\ Return(Evt(n))
          /\ UNCHANGED row
    /\ UNCHANGED <<cmds, healthy, batch, agents, route, counts>>

\* Mutant of CrashCmd: the backoff timer is started and the command forgotten.
CrashNoCmd(n) ==
    /\ At(Evt(n), "crash_cmd")
    /\ Return(Evt(n))
    /\ UNCHANGED <<db, batch, agents, route, counts>>

CrashCmd(n) ==
    LET k == call[Evt(n)] IN
    /\ At(Evt(n), "crash_cmd")
    /\ CreateCommand("start_sandbox", k.sb, k.node, 0)
    /\ Return(Evt(n))
    /\ UNCHANGED <<row, healthy, batch, agents, route, counts>>

-----------------------------------------------------------------------------
(* The idle reaper: list, then visit each listed row. *)

SnapshotOf(s) == [sb |-> s, node |-> row[s].node, cid |-> row[s].cid]

\* The call for a visit of the listed row x.
Visit(x, pc) == Begun(pc, x.sb, NoSandbox, x.node, x.cid, 0, TRUE)

\* ListIdleSandboxes.
ReapList ==
    LET rows == {s \in Sandbox : row[s].state = "running" /\ row[s].idle} IN
    /\ At(Reaper, "idle")
    /\ batch[Reaper] = {}
    /\ rows # {}
    /\ batch' = [batch EXCEPT ![Reaper] = {SnapshotOf(s) : s \in rows}]
    /\ UNCHANGED <<db, call, agents, route, counts>>

ReapCas(x) ==
    /\ At(Reaper, "idle")
    /\ x \in batch[Reaper]
    /\ batch' = [batch EXCEPT ![Reaper] = @ \ {x}]
    /\ \/ /\ StateIs(x.sb, "running")
          /\ SetState(x.sb, "stopped")
          /\ Become(Reaper, Visit(x, "reap_cmd"))
       \/ /\ ~StateIs(x.sb, "running")
          /\ UNCHANGED <<row, call>>
    /\ UNCHANGED <<cmds, healthy, agents, route, counts>>

ReapCmd ==
    LET k == call[Reaper] IN
    /\ At(Reaper, "reap_cmd")
    /\ CreateCommand("stop_sandbox", k.sb, k.node, k.cid)
    /\ Step(Reaper, "reap_route")
    /\ UNCHANGED <<row, healthy, batch, agents, route, counts>>

ReapRoute ==
    /\ At(Reaper, "reap_route")
    /\ route' = [route EXCEPT ![AppOf[call[Reaper].sb]] = NoRoute]
    /\ Return(Reaper)
    /\ UNCHANGED <<db, batch, agents, counts>>

-----------------------------------------------------------------------------
(* The heartbeat monitor and the rescheduler. *)

\* A node missed its heartbeats: UpdateNodeStatus, then RescheduleNode.
MonitorMark(n) ==
    /\ At(Monitor, "idle")
    /\ batch[Monitor] = {}
    /\ n \in healthy
    /\ timeouts < MaxTimeouts
    /\ timeouts' = timeouts + 1
    /\ healthy' = healthy \ {n}
    /\ Become(Monitor, Placing("move_list", NoSandbox, n))
    /\ UNCHANGED <<row, cmds, batch, agents, route, gaveUp, crashes, faults>>

\* ListRunningSandboxesByNode.
MoveList ==
    LET rows == {s \in Sandbox : /\ row[s].state = "running"
                                 /\ row[s].node = call[Monitor].node}
    IN
    /\ At(Monitor, "move_list")
    /\ batch' = [batch EXCEPT ![Monitor] = {SnapshotOf(s) : s \in rows}]
    /\ Return(Monitor)
    /\ UNCHANGED <<db, agents, route, counts>>

\* rescheduleSandbox, step 1; a row that is no longer running is passed over.
MoveCas(x) ==
    /\ At(Monitor, "idle")
    /\ x \in batch[Monitor]
    /\ batch' = [batch EXCEPT ![Monitor] = @ \ {x}]
    /\ \/ /\ StateIs(x.sb, "running")
          /\ SetState(x.sb, "pending")
          /\ Become(Monitor, Visit(x, "move_route"))
       \/ /\ ~StateIs(x.sb, "running")
          /\ UNCHANGED <<row, call>>
    /\ UNCHANGED <<cmds, healthy, agents, route, counts>>

MoveRoute ==
    /\ At(Monitor, "move_route")
    /\ route' = [route EXCEPT ![AppOf[call[Monitor].sb]] = NoRoute]
    /\ Step(Monitor, "move_reset")
    /\ UNCHANGED <<db, batch, agents, counts>>

MoveReset ==
    /\ At(Monitor, "move_reset")
    /\ row' = [row EXCEPT ![call[Monitor].sb].fails = 0]
    /\ Step(Monitor, "move_schedule")
    /\ UNCHANGED <<cmds, healthy, batch, agents, route, counts>>

\* Mutant of MoveSchedule: without capacity it returns, as CreateSandbox does.
MoveScheduleGivesUp ==
    /\ At(Monitor, "move_schedule")
    /\ \/ Return(Monitor)
       \/ \E n \in healthy :
            Become(Monitor, Placing("move_assign", call[Monitor].sb, n))
    /\ UNCHANGED <<db, batch, agents, route, counts>>

MoveSchedule ==
    /\ At(Monitor, "move_schedule")
    /\ \/ Step(Monitor, "move_fail")
       \/ \E n \in healthy :
            Become(Monitor, Placing("move_assign", call[Monitor].sb, n))
    /\ UNCHANGED <<db, batch, agents, route, counts>>

\* No capacity: pending to failed, a miss is ignored.
MoveFail ==
    LET s == call[Monitor].sb IN
    /\ At(Monitor, "move_fail")
    /\ \/ StateIs(s, "pending") /\ SetState(s, "failed")
       \/ ~StateIs(s, "pending") /\ UNCHANGED row
    /\ Return(Monitor)
    /\ UNCHANGED <<cmds, healthy, batch, agents, route, counts>>

MoveAssign ==
    LET k == call[Monitor] IN
    /\ At(Monitor, "move_assign")
    /\ \/ /\ StateIs(k.sb, "pending")
          /\ AssignSandboxToNode(k.sb, k.node)
          /\ Step(Monitor, "move_cmd")
       \/ /\ ~StateIs(k.sb, "pending")
          /\ Return(Monitor)
          /\ UNCHANGED row
    /\ UNCHANGED <<cmds, healthy, batch, agents, route, counts>>

MoveCmd ==
    LET k == call[Monitor] IN
    /\ At(Monitor, "move_cmd")
    /\ CreateCommand("start_sandbox", k.sb, k.node, 0)
    /\ Return(Monitor)
    /\ UNCHANGED <<row, healthy, batch, agents, route, counts>>

\* UpdateNodeHeartbeat.
Heartbeat(n) ==
    /\ n \notin healthy
    /\ healthy' = healthy \cup {n}
    /\ UNCHANGED <<row, cmds, call, batch, agents, route, counts>>

-----------------------------------------------------------------------------
(* The environment: containers that exit, time, and what can go wrong. *)

\* A container exits; when the kernel killed it for memory, Docker reports the
\* oom first and the exit after it.
ContainerExits(n, a) ==
    /\ crashes < MaxCrashes
    /\ crashes' = crashes + 1
    /\ ctr[n][a].up
    /\ ctr' = [ctr EXCEPT ![n][a].up = FALSE]
    /\ \E oom \in BOOLEAN :
         Events(n, a, IF oom THEN <<"container_oom", "container_exited">>
                             ELSE <<"container_exited">>)
    /\ UNCHANGED <<db, call, batch, inbox, tracked, route, gaveUp, timeouts, faults>>

\* last_active_at falls behind the idle timeout.
GoesIdle(s) ==
    /\ Exists(s)
    /\ ~row[s].idle
    /\ timeouts < MaxTimeouts
    /\ timeouts' = timeouts + 1
    /\ row' = [row EXCEPT ![s].idle = TRUE]
    /\ UNCHANGED <<cmds, healthy, call, batch, agents, route, gaveUp, crashes, faults>>

\* Control-plane calls in flight; the agent's own steps are not among them.
InControl(p) == call[p].pc \notin {"idle", "created", "stopped", "send"}

\* One of a handler's statements fails or its caller goes away and the request
\* context is cancelled: the handler ends where it is.  Nothing resumes it.
AbortCall(p) ==
    /\ faults < MaxFaults
    /\ faults' = faults + 1
    /\ InControl(p)
    /\ Return(p)
    /\ UNCHANGED <<db, batch, agents, route, gaveUp, crashes, timeouts>>

\* The statements whose failure is logged and passed over, and what is next.
Tolerated == [reap_cmd |-> "reap_route", move_reset |-> "move_schedule",
              ack_persist |-> "ack_refetch", ack_refetch |-> "ack_route",
              ack_reset |-> "ack_done"]

SkipStatement(p) ==
    /\ faults < MaxFaults
    /\ faults' = faults + 1
    /\ call[p].pc \in DOMAIN Tolerated
    /\ Step(p, Tolerated[call[p].pc])
    /\ UNCHANGED <<db, batch, agents, route, gaveUp, crashes, timeouts>>

\* forge-control restarts: every call in flight and both listings are gone.
ControlRestart ==
    /\ faults < MaxFaults
    /\ faults' = faults + 1
    /\ \E p \in Proc : InControl(p) \/ (p \in DOMAIN batch /\ batch[p] # {})
    /\ call' = [p \in Proc |-> IF InControl(p) THEN Idle ELSE call[p]]
    /\ batch' = [p \in DOMAIN batch |-> {}]
    /\ UNCHANGED <<db, agents, route, gaveUp, crashes, timeouts>>

\* The answer to a poll never reaches the agent: its commands stay dispatched.
LosePoll(n) ==
    /\ faults < MaxFaults
    /\ faults' = faults + 1
    /\ At(Ack(n), "idle")
    /\ inbox[n] = {}
    /\ Pending(n) # {}
    /\ Dispatch(n)
    /\ UNCHANGED <<row, healthy, call, batch, agents, route, gaveUp, crashes, timeouts>>

\* AckCommand of the agent's client does not retry after a network error.
LoseAck(n) ==
    /\ faults < MaxFaults
    /\ faults' = faults + 1
    /\ At(Ack(n), "send")
    /\ Return(Ack(n))
    /\ UNCHANGED <<db, batch, agents, route, gaveUp, crashes, timeouts>>

\* The agent restarts: containers live on, everything in its memory is gone.
AgentCrash(n) ==
    /\ faults < MaxFaults
    /\ faults' = faults + 1
    /\ call[Ack(n)].pc \in {"idle", "created", "stopped", "send"}
    /\ Return(Ack(n))
    /\ inbox' = [inbox EXCEPT ![n] = {}]
    /\ tracked' = [tracked EXCEPT ![n] = {}]
    /\ evq' = [evq EXCEPT ![n] = <<>>]
    /\ UNCHANGED <<db, batch, ctr, route, gaveUp, crashes, timeouts>>

-----------------------------------------------------------------------------
(* The specification. *)

\* An empty database, healthy nodes and freshly started agents.
Init ==
    /\ row = [s \in Sandbox |-> [state |-> "absent", node |-> NoNode, cid |-> 0,
                                 fails |-> 0, idle |-> FALSE]]
    /\ cmds = <<>>
    /\ healthy = Node
    /\ call = [p \in Proc |-> Idle]
    /\ batch = [p \in {Reaper, Monitor} |-> {}]
    /\ inbox = [n \in Node |-> {}]
    /\ tracked = [n \in Node |-> {}]
    /\ ctr = [n \in Node |-> [a \in App |-> NoContainer]]
    /\ evq = [n \in Node |-> <<>>]
    /\ route = [a \in App |-> NoRoute]
    /\ gaveUp = {}
    /\ crashes = 0 /\ timeouts = 0 /\ faults = 0

\* A client's call, once begun.
ApiStep(c) ==
    \/ CreateRecycle(c) \/ CreateInsert(c) \/ CreateSchedule(c) \/ CreateAssign(c)
    \/ StartCmd(c) \/ DestroyCas(c) \/ StopCmd(c) \/ WakeCas(c) \/ RestartCmd(c)

ApiRequest(c, s) ==
    CreateLookup(c, s) \/ DestroyRead(c, s) \/ WakeRead(c, s) \/ RestartRead(c, s)

AgentStep(n) ==
    \/ AgentPoll(n) \/ AgentTrack(n) \/ AgentUntrack(n)
    \/ \E i \in inbox[n] : AgentStart(n, i) \/ AgentStop(n, i) \/ AgentRestart(n, i)

HandleAck(n) ==
    \/ AckRead(n) \/ AckCas(n) \/ AckReread(n) \/ AckPersist(n) \/ AckRefetch(n)
    \/ AckRoute(n) \/ AckReset(n) \/ AckDone(n)

HandleEvent(n) ==
    \/ EventRead(n) \/ EventCas(n) \/ EventRoute(n)
    \/ CrashInc(n) \/ CrashFail(n) \/ CrashCas(n) \/ CrashCmd(n)

ReaperStep ==
    ReapList \/ (\E x \in batch[Reaper] : ReapCas(x)) \/ ReapCmd \/ ReapRoute

Reschedule ==
    \/ MoveList \/ (\E x \in batch[Monitor] : MoveCas(x)) \/ MoveRoute \/ MoveReset
    \/ MoveSchedule \/ MoveFail \/ MoveAssign \/ MoveCmd

Environment ==
    \/ \E n \in Node : MonitorMark(n) \/ Heartbeat(n)
    \/ \E n \in Node, a \in App : ContainerExits(n, a)
    \/ \E s \in Sandbox : GoesIdle(s) \/ FilePush(s)

Fault ==
    \/ \E p \in Proc : AbortCall(p) \/ SkipStatement(p)
    \/ ControlRestart
    \/ \E n \in Node : \/ LosePoll(n) \/ LoseAck(n) \/ AgentCrash(n)
                       \/ \E i \in inbox[n] : \/ AgentExpired(n, i)
                                              \/ AgentStartFails(n, i)
                                              \/ AgentStopFails(n, i)

Next ==
    \/ \E c \in Client : ApiStep(c) \/ \E s \in Sandbox : ApiRequest(c, s)
    \/ \E n \in Node : AgentStep(n) \/ HandleAck(n) \/ HandleEvent(n)
    \/ ReaperStep
    \/ Reschedule
    \/ Environment
    \/ Fault

Spec == Init /\ [][Next]_vars

\* A handler that has begun goes on (goroutines are scheduled, statements
\* return), agents poll, execute and forward, and the reaper's and the monitor's
\* tickers fire.  Clients, containers, time and faults owe nothing.
Fairness ==
    /\ \A c \in Client : WF_vars(ApiStep(c))
    /\ \A n \in Node : /\ WF_vars(AgentStep(n))
                       /\ WF_vars(HandleAck(n))
                       /\ WF_vars(HandleEvent(n))
    /\ WF_vars(ReaperStep)
    /\ WF_vars(Reschedule)

FairSpec == Spec /\ Fairness

-----------------------------------------------------------------------------
(* Properties. *)

TypeOK ==
    /\ row \in [Sandbox -> Row]
    /\ cmds \in Seq(Command)
    /\ healthy \subseteq Node
    /\ call \in [Proc -> Call]
    /\ batch \in [{Reaper, Monitor} -> SUBSET Snapshot]
    /\ inbox \in [Node -> SUBSET CmdId]
    /\ tracked \in [Node -> SUBSET Sandbox]
    /\ ctr \in [Node -> [App -> [cid : Cid, up : BOOLEAN]]]
    /\ evq \in [Node -> Seq([type : EventType, app : App])]
    /\ route \in [App -> [node : Node \cup {NoNode}, cid : Cid]]
    /\ gaveUp \subseteq Sandbox
    /\ crashes \in 0..MaxCrashes
    /\ timeouts \in 0..MaxTimeouts
    /\ faults \in 0..MaxFaults

\* A process of set ps that is at one of pcs for sandbox s.
Working(ps, s, pcs) == \E p \in ps : call[p].sb = s /\ call[p].pc \in pcs

\* A sandbox is in 'restarting' only while the HandleCrash that answers its
\* crash is under way: whatever else runs, that handler finds it there and moves
\* it on.  One out of attempts is the exception the code has; with no fault
\* there is no other.
RestartingIsAttended ==
    \A s \in Sandbox : row[s].state = "restarting" =>
        \/ Working({Evt(n) : n \in Node}, s,
                   {"event_route", "crash_inc", "crash_fail", "crash_cas"})
        \/ s \in gaveUp
        \/ faults > 0

\* A sandbox in 'starting' has a start command that nobody has acked, or a
\* handler about to insert one: none of the four ways into 'starting' loses it.
StartingIsAttended ==
    \A s \in Sandbox : row[s].state = "starting" =>
        \/ Working(Proc, s, {"start_cmd", "crash_cmd", "move_cmd"})
        \/ \E i \in 1..Len(cmds) : /\ cmds[i].sb = s
                                   /\ cmds[i].type = "start_sandbox"
                                   /\ cmds[i].status \in {"pending", "dispatched"}
        \/ faults > 0

\* A sandbox back in 'pending' because its node failed is in the rescheduler's
\* hands; one that never had a node may wait for ever (ErrNoCapacity).
PendingIsAttended ==
    \A s \in Sandbox : row[s].state = "pending" /\ row[s].node # NoNode =>
        \/ Working({Monitor}, s, {"move_route", "move_reset", "move_schedule",
                                  "move_fail", "move_assign"})
        \/ faults > 0

\* What a step may do to the state of a sandbox, for all the races between a
\* handler's read and its write: an edge of ValidTransitions, the rescheduler's
\* pending -> failed, an insert, or the removal of a row that is dead by then.
StateStep(from, to) ==
    \/ <<from, to>> \in Edge \cup {<<"pending", "failed">>, <<"absent", "pending">>}
    \/ from \in {"destroyed", "failed"} /\ to = "deleted"

StateMachineRespected ==
    [][\A s \in Sandbox : row'[s].state # row[s].state
                              => StateStep(row[s].state, row'[s].state)]_vars

\* No agent is handed a command twice: what it holds is dispatched to it, and
\* neither acked nor being executed, after any number of lost polls and crashes.
CommandHandedOutOnce ==
    \A n \in Node : \A i \in inbox[n] :
        /\ i \in 1..Len(cmds)
        /\ cmds[i].node = n
        /\ cmds[i].status = "dispatched"
        /\ \A m \in Node : call[Ack(m)].cmd # i

\* Where a command is: in the table, with an agent that has not begun it, begun
\* or lost on the way, or acked.
LifeOf(i) ==
    CASE cmds[i].status = "pending" -> "queued"
      [] cmds[i].status = "dispatched" /\ (\E n \in Node : i \in inbox[n]) -> "held"
      [] cmds[i].status = "dispatched" /\ (\A n \in Node : i \notin inbox[n]) -> "spent"
      [] OTHER -> cmds[i].status

Queue == INSTANCE CommandQueue WITH
           log <- [i \in 1..Len(cmds) |-> [node |-> cmds[i].node, life |-> LifeOf(i)]]

\* The inserts, polls, agents and acks, with everything that can be lost between
\* them, deliver commands as CommandQueue promises: at most once, to their node,
\* oldest first, with at most one ack.
CommandsDelivered == Queue!Spec

\* Nothing is under way anywhere.
Quiet ==
    /\ \A p \in Proc : call[p].pc = "idle"
    /\ \A p \in DOMAIN batch : batch[p] = {}
    /\ \A n \in Node : inbox[n] = {} /\ evq[n] = <<>> /\ Pending(n) = {}

\* Once all is quiet, a running sandbox that has a route is routed to the node
\* and port of its row: the last ack's upstream wins over every earlier one.
UpstreamIsCurrent ==
    Quiet => \A s \in Sandbox :
        LET r == route[AppOf[s]] IN
        row[s].state = "running" /\ r # NoRoute =>
            r = [node |-> row[s].node, cid |-> row[s].cid]

\* No container has exited by itself, no node or sandbox has timed out, and
\* nothing has failed.
Undisturbed == crashes = 0 /\ timeouts = 0 /\ faults = 0

\* However clients' creates and destroys overlap with each other and with acks and
\* events: once all is quiet, a running sandbox has its container up on its node.
RunningIsUp ==
    (Quiet /\ Undisturbed) => \A s \in Sandbox :
        row[s].state = "running" =>
            ctr[row[s].node][AppOf[s]] = [cid |-> row[s].cid, up |-> TRUE]

\* Likewise, no container of a destroyed sandbox runs anywhere.
DestroyedIsGone ==
    (Quiet /\ Undisturbed) => \A s \in Sandbox, n \in Node :
        row[s].state = "destroyed" /\ RowsOf(AppOf[s]) = {s} =>
            ~ctr[n][AppOf[s]].up

\* A sandbox is restarted because its container died by itself: the commands the
\* control plane issues (RestartSandbox says no state transition occurs) and the
\* containers the agents remove are not taken for crashes.
NoSpuriousRestart ==
    crashes = 0 => \A s \in Sandbox : row[s].state # "restarting"

\* When HandleCrash finds the attempts exhausted, the sandbox it leaves behind
\* is failed and not restarting.
ExhaustedIsFailed ==
    [][\A s \in gaveUp' \ gaveUp : row'[s].state # "restarting"]_vars

\* Soft-recycling works: a create call that found a destroyed or failed row
\* deletes it and goes on to insert its own.
RecycleSucceeds ==
    [][\A c \in Client :
         At(Api(c), "recycle") /\ faults' = faults
             => call'[Api(c)].pc \in {"recycle", "insert"}]_vars

Starting(s) == row[s].state = "starting"

\* Every start comes to an end: the agent's ack, an event of the container or a
\* destroy takes the sandbox out of 'starting' (or the table's bound is reached).
StartingResolves ==
    \A s \in Sandbox : Starting(s) ~> (~Starting(s) \/ Len(cmds) = MaxCmds)

\* A destroy that was accepted comes to an end.
DestroyCompletes ==
    \A s \in Sandbox : row[s].state = "destroying"
                           ~> (row[s].state = "destroyed" \/ Len(cmds) = MaxCmds)
=============================================================================
