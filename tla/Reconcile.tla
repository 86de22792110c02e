------------------------------ MODULE Reconcile ------------------------------
(***************************************************************************)
(* Lifecycle composed with the two services that compare the database with *)
(* what Docker runs: the heartbeat reconciler, which every heartbeat of an *)
(* agent starts, and the freshness check behind GET /v1/sandboxes/{id}.    *)
(* Both write the state column without the state machine, from a report    *)
(* that was made before.                                                   *)
(*                                                                         *)
(* A heartbeat in flight is the record beat[n] of node n (the sender waits *)
(* for the answer before its next tick), a read in flight is read[r].      *)
(***************************************************************************)
EXTENDS Lifecycle

CONSTANTS
    Reader,     \* concurrent callers of GET /v1/sandboxes/{id}
    Labelled    \* apps whose image carries the label forge.app_name: CreateContainer
                \* sets none, and ListContainers passes over a container without it

ASSUME ReconcileAssumption == Labelled \subseteq App

VARIABLES
    old,        \* sandboxes created more than 60 seconds ago
    beat,       \* each node's heartbeat in flight
    read        \* each reader's freshness check in flight

rvars == <<old, beat, read>>
allvars == <<vars, rvars>>

\* What a snapshot says of an app; the CHECK of sandboxes.state knows "running"
\* and does not know "exited".
DockerState == {"none", "running", "exited"}

Beat == [pc : {"idle", "sent", "list", "apply"}, report : [App -> DockerState],
         verify : SUBSET App, lost : SUBSET App]

Read == [pc : {"idle", "lookup", "ask", "mark"}, app : App \cup {"none"},
         node : Node \cup {NoNode}, answer : DockerState]

NoReport == [a \in App |-> "none"]
NoBeat == [pc |-> "idle", report |-> NoReport, verify |-> {}, lost |-> {}]
NoRead == [pc |-> "idle", app |-> "none", node |-> NoNode, answer |-> "none"]

\* Snapshot and ListContainers, on node n.
Reported(n) ==
    [a \in App |-> IF a \notin Labelled \/ ctr[n][a].cid = 0 THEN "none"
                   ELSE IF ctr[n][a].up THEN "running" ELSE "exited"]

\* The states ListSandboxesForNode, MarkSandboxAgentLost and MarkSandboxDestroyed
\* look at.
Active == {"pending", "starting", "running", "restarting"}

-----------------------------------------------------------------------------
(* The three updates, each one statement. *)

\* By app name alone; a state the column's CHECK refuses leaves the row alone.
MarkSandboxVerified(a, st) ==
    row' = [s \in Sandbox |-> IF s \in RowsOf(a) /\ st \in State
                              THEN [row[s] EXCEPT !.state = st] ELSE row[s]]

\* Mutant of MarkSandboxAgentLost: a state of its own, which the column accepts.
MarkLostAsLost(a, n) ==
    row' = [s \in Sandbox |->
              IF s \in RowsOf(a) \cap old /\ row[s].node = n /\ row[s].state \in Active
              THEN [row[s] EXCEPT !.state = "lost"] ELSE row[s]]

MarkSandboxAgentLost(a, n) ==
    row' = [s \in Sandbox |->
              IF s \in RowsOf(a) \cap old /\ row[s].node = n /\ row[s].state \in Active
              THEN [row[s] EXCEPT !.state = "destroyed"] ELSE row[s]]

\* By app name, with no age to spare a sandbox that is just being started.
MarkSandboxDestroyed(a) ==
    row' = [s \in Sandbox |-> IF s \in RowsOf(a) /\ row[s].state \in Active
                              THEN [row[s] EXCEPT !.state = "destroyed"] ELSE row[s]]

-----------------------------------------------------------------------------
(* sendHeartbeat, handleHeartbeat and Reconcile. *)

BeatAt(n, pc) == beat[n].pc = pc
SetBeat(n, k) == beat' = [beat EXCEPT ![n] = k]

HbSend(n) ==
    /\ BeatAt(n, "idle")
    /\ SetBeat(n, [NoBeat EXCEPT !.pc = "sent", !.report = Reported(n)])
    /\ UNCHANGED <<vars, old, read>>

\* UpdateNodeHeartbeat.
HbUpdate(n) ==
    /\ BeatAt(n, "sent")
    /\ healthy' = healthy \cup {n}
    /\ SetBeat(n, [beat[n] EXCEPT !.pc = "list"])
    /\ UNCHANGED <<row, cmds, call, batch, agents, route, counts, old, read>>

\* Mutant of ListSandboxesForNode: a sandbox still starting is not looked for.
ListRunningForNode(n) ==
    {AppOf[s] : s \in {t \in Sandbox : row[t].node = n /\ row[t].state = "running"}}

ListSandboxesForNode(n) ==
    {AppOf[s] : s \in {t \in Sandbox : row[t].node = n /\ row[t].state \in Active}}

\* The pass goes on with the containers to verify and the rows to mark as lost;
\* when there are none left the heartbeat is answered.
GoOn(n, verify, lost) ==
    SetBeat(n, IF verify \cup lost = {} THEN NoBeat
               ELSE [beat[n] EXCEPT !.pc = "apply", !.verify = verify, !.lost = lost])

\* What is reported is verified, what is listed and not reported is lost.
HbList(n) ==
    LET there == {a \in App : beat[n].report[a] # "none"} IN
    /\ BeatAt(n, "list")
    /\ GoOn(n, there, ListSandboxesForNode(n) \ there)
    /\ UNCHANGED <<vars, old, read>>

HbVerify(n, a) ==
    /\ BeatAt(n, "apply")
    /\ a \in beat[n].verify
    /\ MarkSandboxVerified(a, beat[n].report[a])
    /\ GoOn(n, beat[n].verify \ {a}, beat[n].lost)
    /\ UNCHANGED <<cmds, healthy, call, batch, agents, route, counts, old, read>>

\* All reported containers come first.
HbLost(n, a) ==
    /\ BeatAt(n, "apply")
    /\ beat[n].verify = {}
    /\ a \in beat[n].lost
    /\ MarkSandboxAgentLost(a, n)
    /\ GoOn(n, {}, beat[n].lost \ {a})
    /\ UNCHANGED <<cmds, healthy, call, batch, agents, route, counts, old, read>>

-----------------------------------------------------------------------------
(* handleGetSandbox, the freshness service and ContainerExists. *)

ReadAt(r, pc) == read[r].pc = pc
SetRead(r, k) == read' = [read EXCEPT ![r] = k]

\* The row is there, and is stale or the caller sent force_refresh.
ReadRequest(r, a) ==
    /\ ReadAt(r, "idle")
    /\ RowsOf(a) # {}
    /\ SetRead(r, [NoRead EXCEPT !.pc = "lookup", !.app = a])
    /\ UNCHANGED <<vars, old, beat>>

\* ContainerExists reads the row again: without a row or a node it is an error,
\* and the answer is the cached row.
ReadLookup(r) ==
    LET ss == RowsOf(read[r].app) IN
    /\ ReadAt(r, "lookup")
    /\ \/ /\ \A s \in ss : row[s].node = NoNode
          /\ SetRead(r, NoRead)
       \/ \E s \in ss : /\ row[s].node # NoNode
                        /\ SetRead(r, [read[r] EXCEPT !.pc = "ask", !.node = row[s].node])
    /\ UNCHANGED <<vars, old, beat>>

\* The agent answers from a fresh snapshot.
ReadAsk(r) ==
    LET k == read[r] IN
    /\ ReadAt(r, "ask")
    /\ SetRead(r, [k EXCEPT !.pc = "mark", !.answer = Reported(k.node)[k.app]])
    /\ UNCHANGED <<vars, old, beat>>

ReadMark(r) ==
    LET k == read[r] IN
    /\ ReadAt(r, "mark")
    /\ \/ k.answer = "none" /\ MarkSandboxDestroyed(k.app)
       \/ k.answer # "none" /\ MarkSandboxVerified(k.app, k.answer)
    /\ SetRead(r, NoRead)
    /\ UNCHANGED <<cmds, healthy, call, batch, agents, route, counts, old, beat>>

-----------------------------------------------------------------------------
(* Time and faults. *)

Ages(s) ==
    /\ Exists(s)
    /\ s \notin old
    /\ old' = old \cup {s}
    /\ UNCHANGED <<vars, beat, read>>

\* The heartbeat does not arrive, or its request is cancelled: the rest of the
\* pass is not made.
HbFails(n) ==
    /\ faults < MaxFaults
    /\ faults' = faults + 1
    /\ ~BeatAt(n, "idle")
    /\ SetBeat(n, NoBeat)
    /\ UNCHANGED <<db, call, batch, agents, route, gaveUp, crashes, timeouts, old, read>>

\* One row's UPDATE fails, which is logged.
HbSkips(n, a) ==
    /\ faults < MaxFaults
    /\ faults' = faults + 1
    /\ BeatAt(n, "apply")
    /\ a \in beat[n].verify \cup beat[n].lost
    /\ GoOn(n, beat[n].verify \ {a}, beat[n].lost \ {a})
    /\ UNCHANGED <<db, call, batch, agents, route, gaveUp, crashes, timeouts, old, read>>

\* The agent cannot be reached, or an update fails: the cached row is the answer.
ReadFails(r) ==
    /\ faults < MaxFaults
    /\ faults' = faults + 1
    /\ ~ReadAt(r, "idle")
    /\ SetRead(r, NoRead)
    /\ UNCHANGED <<db, call, batch, agents, route, gaveUp, crashes, timeouts, old, beat>>

\* The process that serves all heartbeats and reads restarts.
ControlRestarts ==
    /\ ControlRestart
    /\ beat' = [n \in Node |-> NoBeat]
    /\ read' = [r \in Reader |-> NoRead]
    /\ UNCHANGED old

\* The agent that sent the heartbeat, or was asked, restarts.
AgentCrashes(n) ==
    /\ AgentCrash(n)
    /\ SetBeat(n, NoBeat)
    /\ read' = [r \in Reader |-> IF ReadAt(r, "ask") /\ read[r].node = n THEN NoRead
                                                                         ELSE read[r]]
    /\ UNCHANGED old

-----------------------------------------------------------------------------
(* The specification. *)

ReconcileInit ==
    /\ Init
    /\ old = {}
    /\ beat = [n \in Node |-> NoBeat]
    /\ read = [r \in Reader |-> NoRead]

Beats(n) ==
    \/ HbSend(n) \/ HbUpdate(n) \/ HbList(n)
    \/ \E a \in App : HbVerify(n, a) \/ HbLost(n, a)

Reads(r) == ReadLookup(r) \/ ReadAsk(r) \/ ReadMark(r)

\* The steps of Lifecycle; its Heartbeat and its two restarts are replaced.
LifecycleStep ==
    \/ \E c \in Client : ApiStep(c) \/ \E s \in Sandbox : ApiRequest(c, s)
    \/ \E n \in Node : AgentStep(n) \/ HandleAck(n) \/ HandleEvent(n) \/ MonitorMark(n)
    \/ ReaperStep \/ Reschedule
    \/ \E n \in Node, a \in App : ContainerExits(n, a)
    \/ \E s \in Sandbox : GoesIdle(s) \/ FilePush(s)
    \/ \E p \in Proc : AbortCall(p) \/ SkipStatement(p)
    \/ \E n \in Node : \/ LosePoll(n) \/ LoseAck(n)
                       \/ \E i \in inbox[n] : \/ AgentExpired(n, i)
                                              \/ AgentStartFails(n, i)
                                              \/ AgentStopFails(n, i)

ReconcileNext ==
    \/ LifecycleStep /\ UNCHANGED rvars
    \/ \E n \in Node : Beats(n) \/ HbFails(n) \/ AgentCrashes(n)
                          \/ \E a \in App : HbSkips(n, a)
    \/ \E r \in Reader : Reads(r) \/ ReadFails(r) \/ \E a \in App : ReadRequest(r, a)
    \/ \E s \in Sandbox : Ages(s)
    \/ ControlRestarts

ReconcileSpec == ReconcileInit /\ [][ReconcileNext]_allvars

\* Beside Lifecycle's handlers, each agent's heartbeats go on, reads that have
\* begun go on, and time passes.
ReconcileFairness ==
    /\ \A c \in Client : WF_allvars(ApiStep(c) /\ UNCHANGED rvars)
    /\ \A n \in Node : /\ WF_allvars(AgentStep(n) /\ UNCHANGED rvars)
                       /\ WF_allvars(HandleAck(n) /\ UNCHANGED rvars)
                       /\ WF_allvars(HandleEvent(n) /\ UNCHANGED rvars)
                       /\ WF_allvars(Beats(n))
    /\ WF_allvars(ReaperStep /\ UNCHANGED rvars)
    /\ WF_allvars(Reschedule /\ UNCHANGED rvars)
    /\ \A r \in Reader : WF_allvars(Reads(r))
    /\ \A s \in Sandbox : WF_allvars(Ages(s))

ReconcileFairSpec == ReconcileSpec /\ ReconcileFairness

-----------------------------------------------------------------------------
(* Properties. *)

ReconcileTypeOK ==
    /\ TypeOK
    /\ old \subseteq Sandbox
    /\ beat \in [Node -> Beat]
    /\ read \in [Reader -> Read]

\* The database counts on a container that its node does not have.
Lost(s) ==
    /\ row[s].state \in Active
    /\ row[s].node # NoNode
    /\ ctr[row[s].node][AppOf[s]].cid = 0

\* A sandbox that counts as alive and has no container does not stay so: whatever
\* stranded it (a lost poll, a lost ack, a restart, an aborted handler, a stale
\* report), it gets its container, leaves the active states or is marked lost.
LostIsNoticed == \A s \in Sandbox : Lost(s) ~> ~Lost(s)

\* ListContainers "returns all Forge-managed containers": a sandbox that runs,
\* whose container is up on its node, is not declared lost.
UpIsKept ==
    [][\A s \in Sandbox :
         (row[s].state = "running"
            /\ ctr[row[s].node][AppOf[s]] = [cid |-> row[s].cid, up |-> TRUE])
            => row'[s].state # "destroyed"]_allvars

\* A sandbox inside the reconciler's grace window, whose start command waits to be
\* polled, is not marked destroyed: neither by a heartbeat nor by a read.
StartIsKept ==
    [][\A s \in Sandbox \ old :
         (Starting(s) /\ \E i \in 1..Len(cmds) : cmds[i].sb = s /\ cmds[i].status = "pending")
            => row'[s].state # "destroyed"]_allvars

\* A sandbox "not yet scheduled to a node" is not "spuriously" marked destroyed by
\* a read, whose three statements find it by its app's name.
UnplacedIsKept ==
    [][\A s \in Sandbox : (row[s].state = "pending" /\ row[s].node = NoNode)
                              => row'[s].state # "destroyed"]_allvars

\* "StateDestroyed should be terminal": a destroyed sandbox whose container is gone
\* is not brought back by a report that was made before, and only soft-recycling
\* takes its row out of 'destroyed'.
DestroyedIsFinal ==
    [][\A s \in Sandbox :
         (row[s].state = "destroyed" /\ \A n \in Node : ctr[n][AppOf[s]].cid = 0)
            => row'[s].state \in {"destroyed", "deleted"}]_allvars

\* Reconcile diffs a report "against the DB rows for this node": a heartbeat
\* leaves the sandboxes of other nodes alone.
ReportStaysOnNode ==
    [][\A n \in Node : (BeatAt(n, "apply") /\ beat'[n] # beat[n])
         => \A s \in Sandbox : row'[s] # row[s] => row[s].node = n]_allvars

\* "For each agent-reported row, bumps verified_at + state": a running sandbox
\* whose container has exited, and whose event nobody received, is found out (or
\* the bound of the commands table is reached).
ExitIsNoticed ==
    \A s \in Sandbox :
        LET Exited == /\ row[s].state = "running"
                      /\ ctr[row[s].node][AppOf[s]] = [cid |-> row[s].cid, up |-> FALSE]
        IN  Exited ~> (~Exited \/ Len(cmds) = MaxCmds)
=============================================================================
