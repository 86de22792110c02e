------------------------------- MODULE Agent -------------------------------
(***************************************************************************)
(* The host ports of one node: the allocator, the executor's map of the    *)
(* sandboxes it has started, and the containers in Docker that bind the    *)
(* ports.  The poll loop executes one command at a time (job); between two *)
(* of its steps containers exit and the agent may restart.  The allocator  *)
(* and the map live in the agent's memory, the containers in Docker.       *)
(*                                                                         *)
(* Which commands arrive, and in which order, is Lifecycle's subject: here *)
(* any sandbox may be started, stopped or restarted at any time, by the    *)
(* ids of the containers its acks have named.                              *)
(***************************************************************************)
EXTENDS Integers

CONSTANTS
    Sandbox, App, AppOf,    \* sandboxes and the app_name in their start payload
    NoSandbox,              \* in a job: none
    Port, NoPort,           \* the allocator's range [min, max]
    MaxStarts,              \* bound: containers created
    MaxFaults,              \* bound: failed Docker calls and lost acks
    MaxRestarts             \* bound: restarts of the agent

ASSUME AgentAssumption ==
    /\ AppOf \in [Sandbox -> App]
    /\ NoPort \notin Port
    /\ NoSandbox \notin Sandbox
    /\ MaxStarts \in Nat /\ MaxFaults \in Nat /\ MaxRestarts \in Nat

VARIABLES
    allocated,  \* the allocator: ports handed out; the others are available
    sandboxes,  \* the executor's map
    docker,     \* the container named forge-<app>
    job,        \* the command in execution
    known,      \* container ids the control plane has for a sandbox, from acks
    starts, faults, restarts

vars == <<allocated, sandboxes, docker, job, known, starts, faults, restarts>>

Cid == 0..MaxStarts
SandboxInfo == [cid : Cid, port : Port \cup {NoPort}]
Container == [cid : Cid, port : Port \cup {NoPort}, st : {"none", "created", "up", "down"}]
Job == [pc : {"idle", "remove", "create", "start", "track", "release", "untrack"},
        sb : Sandbox \cup {NoSandbox}, port : Port \cup {NoPort}, cid : Cid]

Idle == [pc |-> "idle", sb |-> NoSandbox, port |-> NoPort, cid |-> 0]
Untracked == [cid |-> 0, port |-> NoPort]
NoContainer == [cid |-> 0, port |-> NoPort, st |-> "none"]

Tracked(s) == sandboxes[s] # Untracked
Step(pc) == job' = [job EXCEPT !.pc = pc]

\* Docker refuses to start a container whose host port another one has bound.
Bound == {docker[a].port : a \in {b \in App : docker[b].st = "up"}}

-----------------------------------------------------------------------------
(* executeStartSandbox and CreateContainer. *)

\* Mutant of Allocate: the error of an exhausted range is ignored.
AllocateAnyway(p) == p \notin allocated /\ allocated' = allocated \cup {p}

\* Allocate: any available port.
Allocate(p) == p \in Port \ allocated /\ allocated' = allocated \cup {p}

\* Release: an error, which is logged, unless the port is allocated.
Release(p) == allocated' = allocated \ {p}

StartAllocate(s) ==
    /\ job = Idle
    /\ \E p \in Port \cup {NoPort} :
         /\ Allocate(p)
         /\ job' = [pc |-> "remove", sb |-> s, port |-> p, cid |-> 0]
    /\ UNCHANGED <<sandboxes, docker, known, starts, faults, restarts>>

\* ContainerRemove of whatever has the name, by force; its error is ignored.
StartRemove ==
    /\ job.pc = "remove"
    /\ docker' = [docker EXCEPT ![AppOf[job.sb]] = NoContainer]
    /\ Step("create")
    /\ UNCHANGED <<allocated, sandboxes, known, starts, faults, restarts>>

StartCreate ==
    /\ job.pc = "create"
    /\ starts < MaxStarts
    /\ starts' = starts + 1
    /\ docker' = [docker EXCEPT ![AppOf[job.sb]] =
                    [cid |-> starts + 1, port |-> job.port, st |-> "created"]]
    /\ job' = [job EXCEPT !.pc = "start", !.cid = starts + 1]
    /\ UNCHANGED <<allocated, sandboxes, known, faults, restarts>>

StartRun ==
    /\ job.pc = "start"
    /\ \/ /\ job.port \notin Bound
          /\ docker' = [docker EXCEPT ![AppOf[job.sb]].st = "up"]
          /\ Step("track")
       \/ /\ job.port \in Bound
          /\ Step("release")
          /\ UNCHANGED docker
    /\ UNCHANGED <<allocated, sandboxes, known, starts, faults, restarts>>

\* A Docker call fails: the old container may be gone by then, and a new one that
\* was created stays, not started.
StartFails ==
    /\ job.pc \in {"remove", "create", "start"}
    /\ faults < MaxFaults
    /\ faults' = faults + 1
    /\ Step("release")
    /\ UNCHANGED <<allocated, sandboxes, docker, known, starts, restarts>>

\* The port goes back and the ack is a failure.
StartRelease ==
    /\ job.pc = "release"
    /\ Release(job.port)
    /\ job' = Idle
    /\ UNCHANGED <<sandboxes, docker, known, starts, faults, restarts>>

\* Mutant of StartTrack: the port is released on every way out.
StartTrackReleases ==
    /\ job.pc = "track"
    /\ sandboxes' = [sandboxes EXCEPT ![job.sb] = [cid |-> job.cid, port |-> job.port]]
    /\ Release(job.port)
    /\ job' = Idle
    /\ UNCHANGED <<docker, known, starts, faults, restarts>>

\* The entry the sandbox had, and its port with it, is overwritten.  The ack
\* tells the control plane the container's id, unless it is lost.
StartTrack ==
    /\ job.pc = "track"
    /\ sandboxes' = [sandboxes EXCEPT ![job.sb] = [cid |-> job.cid, port |-> job.port]]
    /\ \/ /\ known' = [known EXCEPT ![job.sb] = @ \cup {job.cid}]
          /\ UNCHANGED faults
       \/ /\ faults < MaxFaults
          /\ faults' = faults + 1
          /\ UNCHANGED known
    /\ job' = Idle
    /\ UNCHANGED <<allocated, docker, starts, restarts>>

-----------------------------------------------------------------------------
(* executeStopSandbox and executeRestartSandbox.  Docker knows nothing of an  *)
(* id that is no longer there, or empty: the ack is a failure, nothing else.  *)

Names(s, c) == c \in known[s] /\ docker[AppOf[s]].cid = c

\* Mutant of StopRemove: the error of a stop that failed is ignored.
StopUnchecked(s, c) ==
    /\ job = Idle
    /\ Names(s, c)
    /\ job' = [pc |-> "untrack", sb |-> s, port |-> NoPort, cid |-> c]
    /\ UNCHANGED <<allocated, sandboxes, docker, known, starts, faults, restarts>>

StopRemove(s, c) ==
    /\ job = Idle
    /\ Names(s, c)
    /\ docker' = [docker EXCEPT ![AppOf[s]] = NoContainer]
    /\ job' = [pc |-> "untrack", sb |-> s, port |-> NoPort, cid |-> c]
    /\ UNCHANGED <<allocated, sandboxes, known, starts, faults, restarts>>

\* The stop fails, or the removal after it.
StopFails(s, c) ==
    /\ job = Idle
    /\ Names(s, c)
    /\ faults < MaxFaults
    /\ faults' = faults + 1
    /\ docker' = [docker EXCEPT ![AppOf[s]].st = "down"]
    /\ UNCHANGED <<allocated, sandboxes, job, known, starts, restarts>>

\* The port released is the one in the map, whatever container was removed.
StopUntrack ==
    /\ job.pc = "untrack"
    /\ \/ /\ Tracked(job.sb)
          /\ Release(sandboxes[job.sb].port)
          /\ sandboxes' = [sandboxes EXCEPT ![job.sb] = Untracked]
       \/ /\ ~Tracked(job.sb)
          /\ UNCHANGED <<allocated, sandboxes>>
    /\ job' = Idle
    /\ UNCHANGED <<docker, known, starts, faults, restarts>>

\* docker restart: the container comes up again if its port is free.
Restart(s, c) ==
    /\ job = Idle
    /\ Names(s, c)
    /\ docker' = [docker EXCEPT ![AppOf[s]].st =
                    IF @ = "up" \/ docker[AppOf[s]].port \notin Bound THEN "up" ELSE "down"]
    /\ UNCHANGED <<allocated, sandboxes, job, known, starts, faults, restarts>>

-----------------------------------------------------------------------------
(* The environment. *)

ContainerExits(a) ==
    /\ docker[a].st = "up"
    /\ docker' = [docker EXCEPT ![a].st = "down"]
    /\ UNCHANGED <<allocated, sandboxes, job, known, starts, faults, restarts>>

\* Run builds a new allocator and an empty map; the snapshot it takes of Docker
\* is counted for the log.
AgentRestarts ==
    /\ restarts < MaxRestarts
    /\ restarts' = restarts + 1
    /\ allocated' = {}
    /\ sandboxes' = [s \in Sandbox |-> Untracked]
    /\ job' = Idle
    /\ UNCHANGED <<docker, known, starts, faults>>

-----------------------------------------------------------------------------
Init ==
    /\ allocated = {}
    /\ sandboxes = [s \in Sandbox |-> Untracked]
    /\ docker = [a \in App |-> NoContainer]
    /\ job = Idle
    /\ known = [s \in Sandbox |-> {}]
    /\ starts = 0 /\ faults = 0 /\ restarts = 0

Start ==
    \/ \E s \in Sandbox : StartAllocate(s)
    \/ StartRemove \/ StartCreate \/ StartRun \/ StartFails \/ StartRelease \/ StartTrack

Stop == StopUntrack \/ \E s \in Sandbox, c \in Cid : StopRemove(s, c) \/ StopFails(s, c)

Next ==
    \/ Start
    \/ Stop
    \/ \E s \in Sandbox, c \in Cid : Restart(s, c)
    \/ \E a \in App : ContainerExits(a)
    \/ AgentRestarts

Spec == Init /\ [][Next]_vars

-----------------------------------------------------------------------------
(* Properties. *)

TypeOK ==
    /\ allocated \subseteq Port
    /\ sandboxes \in [Sandbox -> SandboxInfo]
    /\ docker \in [App -> Container]
    /\ job \in Job
    /\ known \in [Sandbox -> SUBSET Cid]
    /\ starts \in Cid
    /\ faults \in 0..MaxFaults
    /\ restarts \in 0..MaxRestarts

\* Two sandboxes an agent tracks never have the same host port, and none has a
\* port that the allocator would hand out again: over failed starts, replaced
\* containers, stops of the one while the other starts, and agent restarts.
PortsApart ==
    \A s \in Sandbox : Tracked(s) =>
        /\ sandboxes[s].port \in allocated
        /\ \A t \in Sandbox \ {s} : sandboxes[t].port # sandboxes[s].port

\* Docker is about to bind the port a start command was given: no container has
\* it, so the start is not refused.
PortIsFree == job.pc = "start" => job.port \notin Bound

\* PortIsFree, as long as the agent has not been restarted: over failed starts,
\* failed stops, lost acks and containers that are restarted after they exited.
PortIsFreeTillRestart == restarts = 0 => PortIsFree

\* A stop command releases the sandbox's port: once every sandbox of the node has
\* been stopped, all ports are available again.
StoppedIsReleased ==
    (job = Idle /\ \A s \in Sandbox : ~Tracked(s)) => allocated = {}
=============================================================================
