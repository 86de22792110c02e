------------------------------- MODULE Nodes -------------------------------
(***************************************************************************)
(* The nodes table: registration, heartbeats, the heartbeat monitor, the   *)
(* scheduler, drain and removal, and the sandboxes that are placed on the  *)
(* nodes meanwhile.  A handler is split at the statements between which    *)
(* another one can matter; rows of nodes are never deleted, so a GetNode   *)
(* that only checks existence is part of the step that follows it.         *)
(*                                                                         *)
(* Memory in use does not occur: Collect of the agent always reports 0, so *)
(* the free memory of a node is its capacity.                              *)
(***************************************************************************)
EXTENDS Integers, FiniteSets

CONSTANTS
    Host,        \* machines, each with a hostname and Tailscale IP of its own
    Capacity,    \* capacity_mb each host registers with
    RequiredMB,  \* memory of a sandbox
    NodeId,      \* ids of rows of nodes (uuid.New() never repeats one)
    NoId, NoHost,
    Sandbox,
    MaxFaults    \* bound: agents that stop, handlers cut short, late heartbeats

ASSUME NodesAssumption ==
    /\ Capacity \in [Host -> Nat]
    /\ RequiredMB \in Nat
    /\ NoId \notin NodeId
    /\ NoHost \notin Host
    /\ MaxFaults \in Nat

VARIABLES
    nodes,    \* the nodes table
    sb,       \* the sandboxes: state and node, as far as nodes matter
    call,     \* the handlers in flight
    agentId,  \* each running agent's node id; NoId: not running or not registered
    listed,   \* the nodes the monitor found silent and has yet to visit
    faults

vars == <<nodes, sb, call, agentId, listed, faults>>

Status == {"healthy", "unhealthy", "draining", "removed"}

\* silent: last_seen_at is further back than the heartbeat threshold.
NodeRow == [host : Host \cup {NoHost}, status : Status \cup {"absent"}, silent : BOOLEAN]

\* "none": no active row for this id, or none that has a node.
Placement == [st : {"none", "starting", "running", "stopped", "failed"},
              node : NodeId \cup {NoId}]

Agent(h) == <<"agent", h>>
Admin == <<"admin", 0>>
Creator == <<"create", 0>>
Monitor == <<"monitor", 0>>
Proc == {Agent(h) : h \in Host} \cup {Admin, Creator, Monitor}

Call == [pc : {"idle", "insert", "token", "answer", "assign", "remove",
               "move"},
         host : Host \cup {NoHost}, node : NodeId \cup {NoId}, sb : SUBSET Sandbox]

Idle == [pc |-> "idle", host |-> NoHost, node |-> NoId, sb |-> {}]

At(p, pc) == call[p].pc = pc
Become(p, pc, h, n, ss) ==
    call' = [call EXCEPT ![p] = [pc |-> pc, host |-> h, node |-> n, sb |-> ss]]
Return(p) == call' = [call EXCEPT ![p] = Idle]

Registered(n) == nodes[n].status # "absent"

\* GetNodeByHostnameAndIP: no UNIQUE constraint covers the two columns, and of
\* several rows the query takes any.
RowsOf(h) == {n \in NodeId : Registered(n) /\ nodes[n].host = h}

\* Mutant of UpdateNodeStatus: a status the column's CHECK does not list.
UpdateNodeOffline(n, st) ==
    nodes' = [nodes EXCEPT ![n].status = IF st = "unhealthy" THEN "offline" ELSE st]

\* UpdateNodeStatus: by id, whatever the status is.
UpdateNodeStatus(n, st) == nodes' = [nodes EXCEPT ![n].status = st]

-----------------------------------------------------------------------------
(* handleRegisterNode, called by a starting agent and by "forge node add". *)

RegisterLookup(p, h) ==
    /\ At(p, "idle")
    /\ \/ p = Admin
       \/ p = Agent(h) /\ agentId[h] = NoId
    /\ \/ \E n \in RowsOf(h) : Become(p, "token", h, n, {})
       \/ RowsOf(h) = {} /\ Become(p, "insert", h, NoId, {})
    /\ UNCHANGED <<nodes, sb, agentId, listed, faults>>

\* Mutant of RegisterInsert: the error of the INSERT is not looked at.
RegisterInsertUnchecked(p) ==
    /\ At(p, "insert")
    /\ \E n \in NodeId : ~Registered(n) /\ Become(p, "answer", call[p].host, n, {})
    /\ UNCHANGED <<nodes, sb, agentId, listed, faults>>

\* CreateNode; the column defaults make the row healthy and just seen.
RegisterInsert(p) ==
    LET h == call[p].host IN
    /\ At(p, "insert")
    /\ \E n \in NodeId :
         /\ ~Registered(n)
         /\ nodes' = [nodes EXCEPT ![n] =
                        [host |-> h, status |-> "healthy", silent |-> FALSE]]
         /\ Become(p, "answer", h, n, {})
    /\ UNCHANGED <<sb, agentId, listed, faults>>

\* UpdateNodeToken, for a row that was found: it sets last_seen_at and leaves the
\* status.
RegisterToken(p) ==
    LET k == call[p] IN
    /\ At(p, "token")
    /\ nodes' = [nodes EXCEPT ![k.node].silent = FALSE]
    /\ Become(p, "answer", k.host, k.node, {})
    /\ UNCHANGED <<sb, agentId, listed, faults>>

\* The answer arrives, and the agent's client stores the id.
RegisterAnswer(p) ==
    /\ At(p, "answer")
    /\ agentId' = [h \in Host |-> IF p = Agent(h) THEN call[p].node ELSE agentId[h]]
    /\ Return(p)
    /\ UNCHANGED <<nodes, sb, listed, faults>>

-----------------------------------------------------------------------------
(* Heartbeats, time and the monitor. *)

\* Mutant of UpdateNodeHeartbeat: the status is left to the administrator.
HeartbeatKeepsStatus(n) == nodes' = [nodes EXCEPT ![n].silent = FALSE]

\* UpdateNodeHeartbeat makes the row healthy whatever it was.
UpdateNodeHeartbeat(n) ==
    nodes' = [nodes EXCEPT ![n].silent = FALSE, ![n].status = "healthy"]

\* The sender's tick.  The row is there, so the client never meets a 404.
Heartbeat(h) ==
    /\ agentId[h] # NoId
    /\ UpdateNodeHeartbeat(agentId[h])
    /\ UNCHANGED <<sb, call, agentId, listed, faults>>

Beating(n) == \E h \in Host : agentId[h] = n

\* The threshold passes: always, for a row no agent reports for; now and then
\* for another, when heartbeats are lost or a snapshot fails and skips the tick.
FallsSilent(n) ==
    /\ Registered(n) /\ ~nodes[n].silent
    /\ \/ ~Beating(n) /\ UNCHANGED faults
       \/ Beating(n) /\ faults < MaxFaults /\ faults' = faults + 1
    /\ nodes' = [nodes EXCEPT ![n].silent = TRUE]
    /\ UNCHANGED <<sb, call, agentId, listed>>

Silent == {n \in NodeId : nodes[n].status = "healthy" /\ nodes[n].silent}

\* ListNodes; the copies it returns decide which nodes this pass marks.
MonitorList ==
    /\ At(Monitor, "idle")
    /\ listed = {}
    /\ Silent # {}
    /\ listed' = Silent
    /\ UNCHANGED <<nodes, sb, call, agentId, faults>>

RunningOn(n) == {s \in Sandbox : sb[s].st = "running" /\ sb[s].node = n}

\* Mutant of MonitorMark: the sandboxes are moved and the status is forgotten.
MonitorMovesOnly(n) ==
    /\ At(Monitor, "idle")
    /\ n \in listed
    /\ listed' = listed \ {n}
    /\ Become(Monitor, "move", NoHost, n, RunningOn(n))
    /\ UNCHANGED <<nodes, sb, agentId, faults>>

\* The node is marked, even if it was heard of since the list was made, and
\* RescheduleNode lists what runs on it.
MonitorMark(n) ==
    /\ At(Monitor, "idle")
    /\ n \in listed
    /\ listed' = listed \ {n}
    /\ UpdateNodeStatus(n, "unhealthy")
    /\ Become(Monitor, "move", NoHost, n, RunningOn(n))
    /\ UNCHANGED <<sb, agentId, faults>>

\* ListHealthyNodes and Schedule: a node with the most memory, if that is enough.
ListHealthyNodes == {n \in NodeId : nodes[n].status = "healthy"}

Memory(n) == Capacity[nodes[n].host]

Schedule(candidates) ==
    {n \in candidates : /\ Memory(n) >= RequiredMB
                        /\ \A m \in candidates : Memory(m) <= Memory(n)}

\* rescheduleSandbox, as one step (Lifecycle has its statements): a sandbox that
\* still runs gets another node, or fails and keeps the one it had.
MonitorMove(s) ==
    LET k == call[Monitor]
        best == Schedule(ListHealthyNodes)
    IN
    /\ At(Monitor, "move")
    /\ s \in k.sb
    /\ Become(Monitor, "move", NoHost, k.node, k.sb \ {s})
    /\ \/ sb[s].st # "running" /\ UNCHANGED sb
       \/ /\ sb[s].st = "running"
          /\ \/ \E n \in best : sb' = [sb EXCEPT ![s] = [st |-> "starting", node |-> n]]
             \/ best = {} /\ sb' = [sb EXCEPT ![s].st = "failed"]
    /\ UNCHANGED <<nodes, agentId, listed, faults>>

MonitorNext ==
    /\ At(Monitor, "move")
    /\ call[Monitor].sb = {}
    /\ Return(Monitor)
    /\ UNCHANGED <<nodes, sb, agentId, listed, faults>>

-----------------------------------------------------------------------------
(* Drain and removal. *)

DrainNode(n) ==
    /\ At(Admin, "idle")
    /\ Registered(n)
    /\ UpdateNodeStatus(n, "draining")
    /\ UNCHANGED <<sb, call, agentId, listed, faults>>

\* CountActiveSandboxesByNode: neither destroyed nor stopped.
ActiveOn(n) == {s \in Sandbox : sb[s].node = n /\ sb[s].st \notin {"none", "stopped"}}

RemoveCount(n) ==
    /\ At(Admin, "idle")
    /\ Registered(n)
    /\ ActiveOn(n) = {}
    /\ Become(Admin, "remove", NoHost, n, {})
    /\ UNCHANGED <<nodes, sb, agentId, listed, faults>>

RemoveUpdate ==
    /\ At(Admin, "remove")
    /\ UpdateNodeStatus(call[Admin].node, "removed")
    /\ Return(Admin)
    /\ UNCHANGED <<sb, agentId, listed, faults>>

-----------------------------------------------------------------------------
(* Sandboxes come and go. *)

CreateSchedule(s) ==
    /\ At(Creator, "idle")
    /\ sb[s].st = "none"
    /\ \E n \in Schedule(ListHealthyNodes) : Become(Creator, "assign", NoHost, n, {s})
    /\ UNCHANGED <<nodes, sb, agentId, listed, faults>>

\* AssignSandboxToNode does not look at the node again.
CreateAssign ==
    LET k == call[Creator] IN
    /\ At(Creator, "assign")
    /\ sb' = [s \in Sandbox |-> IF s \in k.sb THEN [st |-> "starting", node |-> k.node]
                                              ELSE sb[s]]
    /\ Return(Creator)
    /\ UNCHANGED <<nodes, agentId, listed, faults>>

\* The agent that polls for the node's id starts the container; or it fails to.
Started(s) ==
    /\ sb[s].st = "starting"
    /\ Beating(sb[s].node)
    /\ \E st \in {"running", "failed"} : sb' = [sb EXCEPT ![s].st = st]
    /\ UNCHANGED <<nodes, call, agentId, listed, faults>>

Reaped(s) ==
    /\ sb[s].st = "running"
    /\ sb' = [sb EXCEPT ![s].st = "stopped"]
    /\ UNCHANGED <<nodes, call, agentId, listed, faults>>

\* WakeSandbox starts it on the node it was on, whatever became of that node.
Wake(s) ==
    /\ sb[s].st = "stopped"
    /\ sb' = [sb EXCEPT ![s].st = "starting"]
    /\ UNCHANGED <<nodes, call, agentId, listed, faults>>

\* The stop command of a destroy is acked by the node's agent.
Destroyed(s) ==
    /\ sb[s].st # "none"
    /\ Beating(sb[s].node)
    /\ sb' = [sb EXCEPT ![s] = [st |-> "none", node |-> NoId]]
    /\ UNCHANGED <<nodes, call, agentId, listed, faults>>

-----------------------------------------------------------------------------
(* Failures. *)

\* An agent stops; started again, it registers again.
AgentStops(h) ==
    /\ faults < MaxFaults
    /\ faults' = faults + 1
    /\ agentId[h] # NoId
    /\ agentId' = [agentId EXCEPT ![h] = NoId]
    /\ UNCHANGED <<nodes, sb, call, listed>>

\* A statement fails or the caller is gone: the handler ends where it is.  An
\* agent whose registration fails tries again; the monitor goes on to its next node.
AbortCall(p) ==
    /\ faults < MaxFaults
    /\ faults' = faults + 1
    /\ ~At(p, "idle")
    /\ Return(p)
    /\ UNCHANGED <<nodes, sb, agentId, listed>>

\* The monitor's UpdateNodeStatus fails, which is logged.
MarkFails(n) ==
    /\ faults < MaxFaults
    /\ faults' = faults + 1
    /\ At(Monitor, "idle")
    /\ n \in listed
    /\ listed' = listed \ {n}
    /\ UNCHANGED <<nodes, sb, call, agentId>>

ControlRestart ==
    /\ faults < MaxFaults
    /\ faults' = faults + 1
    /\ listed # {} \/ \E p \in Proc : ~At(p, "idle")
    /\ call' = [p \in Proc |-> Idle]
    /\ listed' = {}
    /\ UNCHANGED <<nodes, sb, agentId>>

-----------------------------------------------------------------------------
Init ==
    /\ nodes = [n \in NodeId |-> [host |-> NoHost, status |-> "absent", silent |-> FALSE]]
    /\ sb = [s \in Sandbox |-> [st |-> "none", node |-> NoId]]
    /\ call = [p \in Proc |-> Idle]
    /\ agentId = [h \in Host |-> NoId]
    /\ listed = {}
    /\ faults = 0

Register(p) == RegisterInsert(p) \/ RegisterToken(p) \/ RegisterAnswer(p)

MonitorStep ==
    \/ MonitorList
    \/ \E n \in listed : MonitorMark(n)
    \/ \E s \in call[Monitor].sb : MonitorMove(s)
    \/ MonitorNext

Administer == (\E n \in NodeId : DrainNode(n) \/ RemoveCount(n)) \/ RemoveUpdate

Serve ==
    \/ CreateAssign
    \/ \E s \in Sandbox : \/ CreateSchedule(s) \/ Started(s) \/ Reaped(s)
                          \/ Wake(s) \/ Destroyed(s)

Fail == \/ \E h \in Host : AgentStops(h)
        \/ \E p \in Proc : AbortCall(p)
        \/ \E n \in listed : MarkFails(n)
        \/ ControlRestart

Next ==
    \/ \E p \in Proc, h \in Host : RegisterLookup(p, h)
    \/ \E p \in Proc : Register(p)
    \/ \E h \in Host : Heartbeat(h)
    \/ \E n \in NodeId : FallsSilent(n)
    \/ MonitorStep
    \/ Administer
    \/ Serve
    \/ Fail

Spec == Init /\ [][Next]_vars

\* Handlers that have begun go on, a registered agent's ticker fires, time
\* passes, and the monitor's ticker fires.
Fairness ==
    /\ \A p \in Proc : WF_vars(Register(p))
    /\ \A h \in Host : WF_vars(Heartbeat(h))
    /\ \A n \in NodeId : WF_vars(FallsSilent(n) /\ ~Beating(n))
    /\ WF_vars(MonitorStep)

FairSpec == Spec /\ Fairness

-----------------------------------------------------------------------------
TypeOK ==
    /\ nodes \in [NodeId -> NodeRow]
    /\ sb \in [Sandbox -> Placement]
    /\ call \in [Proc -> Call]
    /\ agentId \in [Host -> NodeId \cup {NoId}]
    /\ listed \subseteq NodeId
    /\ faults \in 0..MaxFaults

\* A node marked unhealthy while its agent is alive, on a late heartbeat or a
\* list that was stale, is taken out of that status again.
LiveNodeRecovers ==
    \A h \in Host, n \in NodeId :
        (agentId[h] = n /\ nodes[n].status = "unhealthy")
            ~> (agentId[h] # n \/ nodes[n].status # "unhealthy")

Registering(n) == \E p \in Proc : call[p].pc \in {"token", "answer"} /\ call[p].node = n

\* A node row that no agent reports for (its agent stopped, or two concurrent
\* registrations made two rows of one machine) does not stay schedulable, unless
\* somebody registers it anew.
SilentNodeIsRetired ==
    \A n \in NodeId :
        (nodes[n].status = "healthy" /\ ~Beating(n))
            ~> (nodes[n].status # "healthy" \/ Beating(n) \/ Registering(n))

\* A drained node stays out of what ListHealthyNodes gives the scheduler: only
\* an operator's call takes it out of 'draining'.
DrainHolds ==
    [][\A n \in NodeId : nodes[n].status = "draining" => n \notin ListHealthyNodes']_vars

\* An agent heartbeats and polls for a row of its own machine, over concurrent
\* and repeated registrations, and a sandbox is on a node that exists.
IdentityHolds ==
    /\ \A h \in Host : agentId[h] # NoId =>
           Registered(agentId[h]) /\ nodes[agentId[h]].host = h
    /\ \A s \in Sandbox : sb[s].node # NoId => Registered(sb[s].node)

\* A node is removed only while no sandbox on it is active.
RemovedIsEmpty ==
    [][\A n \in NodeId :
         nodes[n].status # "removed" /\ nodes'[n].status = "removed" => ActiveOn(n) = {}]_vars
=============================================================================
