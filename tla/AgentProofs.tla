---------------------------- MODULE AgentProofs ----------------------------
(***************************************************************************)
(* Proofs about Agent: for any set of ports, apps and sandboxes and any    *)
(* number of starts, faults and restarts, the types hold, tracked          *)
(* sandboxes have ports of their own, and until the agent restarts no      *)
(* container has bound a port that a start command was given.              *)
(***************************************************************************)
EXTENDS Agent, TLAPS

-----------------------------------------------------------------------------
(* The inductive invariant. *)

\* A start in progress holds a port that is allocated and in no entry of the map.
JobHoldsPort ==
    job.pc \in {"remove", "create", "start", "track", "release"} =>
        /\ job.sb \in Sandbox
        /\ job.port \in allocated
        /\ \A s \in Sandbox : sandboxes[s].port # job.port

\* The container of the sandbox a start or a stop is working on.
JobContainer ==
    /\ job.pc = "start" =>
         docker[AppOf[job.sb]] = [cid |-> job.cid, port |-> job.port, st |-> "created"]
    /\ job.pc = "track" =>
         /\ docker[AppOf[job.sb]].cid = job.cid
         /\ docker[AppOf[job.sb]].port = job.port
         /\ docker[AppOf[job.sb]].st \in {"up", "down"}
    /\ job.pc \in {"start", "track"} => job.cid \in 1..starts
    /\ job.pc = "untrack" =>
         job.sb \in Sandbox /\ docker[AppOf[job.sb]].st = "none"

\* Container ids: those acked were created; one that never started is not acked.
IdsAcked ==
    /\ \A s \in Sandbox : known[s] \subseteq 1..starts
    /\ \A a \in App : docker[a].st = "none" => docker[a].cid = 0
    /\ \A s \in Sandbox : docker[AppOf[s]].st = "created"
                              => docker[AppOf[s]].cid \notin known[s]

\* The map has the container of an app, with its port.
Owned(a) ==
    \E s \in Sandbox : /\ AppOf[s] = a
                       /\ sandboxes[s].port # NoPort
                       /\ sandboxes[s].port = docker[a].port

\* Until the agent restarts, a container that was started is in the map, or its
\* start is about to put it there.
StartedIsOwned ==
    restarts = 0 => \A a \in App : docker[a].st \in {"up", "down"} =>
        Owned(a) \/ (job.pc = "track" /\ AppOf[job.sb] = a)

Inv ==
    /\ TypeOK /\ PortsApart /\ JobHoldsPort /\ JobContainer /\ IdsAcked
    /\ StartedIsOwned

-----------------------------------------------------------------------------
(* The records the steps write. *)

LEMMA JobFields ==
    ASSUME TypeOK
    PROVE  /\ job = [pc |-> job.pc, sb |-> job.sb, port |-> job.port, cid |-> job.cid]
           /\ job.pc \in {"idle", "remove", "create", "start", "track", "release", "untrack"}
           /\ job.sb \in Sandbox \cup {NoSandbox}
           /\ job.port \in Port \cup {NoPort}
           /\ job.cid \in Cid
BY DEF TypeOK, Job

LEMMA StepFields ==
    ASSUME TypeOK, NEW pc \in {"create", "track", "release"}, Step(pc)
    PROVE  /\ job' \in Job
           /\ job'.pc = pc
           /\ job'.sb = job.sb /\ job'.port = job.port /\ job'.cid = job.cid
BY JobFields DEF Step, Job, TypeOK

LEMMA DockerFields ==
    ASSUME TypeOK, NEW a \in App
    PROVE  /\ docker[a].cid \in Cid
           /\ docker[a].port \in Port \cup {NoPort}
           /\ docker[a].st \in {"none", "created", "up", "down"}
BY DEF TypeOK, Container

\* A container replaced, and one whose status changes.
LEMMA DockerPut ==
    ASSUME TypeOK, NEW a \in App, NEW c \in Container,
           docker' = [docker EXCEPT ![a] = c]
    PROVE  /\ docker' \in [App -> Container]
           /\ docker'[a] = c
           /\ \A b \in App \ {a} : docker'[b] = docker[b]
BY DEF TypeOK

LEMMA DockerStatus ==
    ASSUME TypeOK, NEW a \in App, NEW st \in {"none", "created", "up", "down"},
           docker' = [docker EXCEPT ![a].st = st]
    PROVE  /\ docker' \in [App -> Container]
           /\ docker'[a].cid = docker[a].cid
           /\ docker'[a].port = docker[a].port
           /\ docker'[a].st = st
           /\ \A b \in App \ {a} : docker'[b] = docker[b]
<1>1. docker[a] \in Container
  BY DEF TypeOK
<1>2. [docker[a] EXCEPT !.st = st] \in Container
  BY <1>1 DEF Container
<1>3. docker' = [docker EXCEPT ![a] = [docker[a] EXCEPT !.st = st]]
  OBVIOUS
<1> QED
  BY <1>1, <1>2, <1>3, DockerPut DEF Container

\* A container whose id was acked has been started.
LEMMA NamedIsStarted ==
    ASSUME Inv, NEW s \in Sandbox, NEW c \in Cid, Names(s, c)
    PROVE  docker[AppOf[s]].st \in {"up", "down"}
<1>1. c \in 1..starts /\ starts \in Nat
  BY AgentAssumption DEF Inv, IdsAcked, Names, TypeOK, Cid
<1>2. AppOf[s] \in App
  BY AgentAssumption
<1>3. docker[AppOf[s]].st # "none"
  BY <1>1, <1>2 DEF Inv, IdsAcked, Names
<1>4. docker[AppOf[s]].st # "created"
  BY DEF Inv, IdsAcked, Names
<1> QED
  BY <1>2, <1>3, <1>4, DockerFields DEF Inv

-----------------------------------------------------------------------------
(* Init and the steps. *)

LEMMA InvInit == Init => Inv
<1> SUFFICES ASSUME Init PROVE Inv
  OBVIOUS
<1> USE AgentAssumption DEF Init, Idle, Untracked, NoContainer, Cid
<1>1. TypeOK
  BY DEF TypeOK, SandboxInfo, Container, Job
<1>2. PortsApart /\ JobHoldsPort /\ JobContainer
  BY DEF PortsApart, Tracked, JobHoldsPort, JobContainer
<1>3. IdsAcked /\ StartedIsOwned
  BY DEF IdsAcked, StartedIsOwned
<1> QED
  BY <1>1, <1>2, <1>3 DEF Inv

LEMMA InvStartAllocate ==
    ASSUME Inv, NEW s \in Sandbox, StartAllocate(s)
    PROVE  Inv'
<1>1. PICK p \in Port \ allocated :
        /\ allocated' = allocated \cup {p}
        /\ job' = [pc |-> "remove", sb |-> s, port |-> p, cid |-> 0]
  BY DEF StartAllocate, Allocate
<1>2. UNCHANGED <<sandboxes, docker, known, starts, faults, restarts>> /\ job.pc = "idle"
  BY DEF StartAllocate, Idle
<1>3. TypeOK'
  BY <1>1, <1>2, AgentAssumption DEF Inv, TypeOK, Job, Cid
<1>4. PortsApart'
  BY <1>1, <1>2 DEF Inv, PortsApart, Tracked
<1>5. \A t \in Sandbox : sandboxes[t].port # p
  BY AgentAssumption DEF Inv, PortsApart, Tracked, Untracked
<1>6. JobHoldsPort'
  BY <1>1, <1>2, <1>5 DEF JobHoldsPort
<1>7. JobContainer'
  BY <1>1, <1>2 DEF JobContainer
<1>8. IdsAcked' /\ StartedIsOwned'
  BY <1>1, <1>2 DEF Inv, IdsAcked, StartedIsOwned, Owned
<1> QED
  BY <1>3, <1>4, <1>6, <1>7, <1>8 DEF Inv

LEMMA InvStartRemove == ASSUME Inv, StartRemove PROVE Inv'
<1>1. job.pc = "remove" /\ Step("create")
      /\ UNCHANGED <<allocated, sandboxes, known, starts, faults, restarts>>
  BY DEF StartRemove
<1>2. job.sb \in Sandbox /\ AppOf[job.sb] \in App
  BY <1>1, AgentAssumption DEF Inv, JobHoldsPort
<1>3. NoContainer \in Container
  BY AgentAssumption DEF NoContainer, Container, Cid
<1>4. /\ docker' \in [App -> Container]
      /\ docker'[AppOf[job.sb]] = NoContainer
      /\ \A b \in App \ {AppOf[job.sb]} : docker'[b] = docker[b]
  BY <1>2, <1>3, DockerPut DEF StartRemove, Inv
<1>5. job' \in Job /\ job'.pc = "create" /\ job'.sb = job.sb /\ job'.port = job.port
  BY <1>1, StepFields DEF Inv
<1>6. TypeOK' /\ PortsApart' /\ JobHoldsPort'
  BY <1>1, <1>4, <1>5 DEF Inv, TypeOK, PortsApart, Tracked, JobHoldsPort
<1>7. JobContainer'
  BY <1>5 DEF JobContainer
<1>8. IdsAcked'
  BY <1>1, <1>4, AgentAssumption DEF Inv, IdsAcked, NoContainer
<1>9. StartedIsOwned'
  BY <1>1, <1>4, <1>5 DEF Inv, StartedIsOwned, Owned, NoContainer
<1> QED
  BY <1>6, <1>7, <1>8, <1>9 DEF Inv

LEMMA InvStartCreate == ASSUME Inv, StartCreate PROVE Inv'
<1> DEFINE c == [cid |-> starts + 1, port |-> job.port, st |-> "created"]
<1>1. job.pc = "create" /\ starts < MaxStarts /\ starts' = starts + 1
      /\ UNCHANGED <<allocated, sandboxes, known, faults, restarts>>
  BY DEF StartCreate
<1>2. job.sb \in Sandbox /\ AppOf[job.sb] \in App /\ job.port \in allocated
  BY <1>1, AgentAssumption DEF Inv, JobHoldsPort
<1>3. starts \in Nat /\ starts + 1 \in Cid /\ c \in Container
  BY <1>1, <1>2, AgentAssumption DEF Inv, TypeOK, Container, Cid
<1>4. /\ docker' \in [App -> Container]
      /\ docker'[AppOf[job.sb]] = c
      /\ \A b \in App \ {AppOf[job.sb]} : docker'[b] = docker[b]
  BY <1>2, <1>3, DockerPut DEF StartCreate, Inv
<1>5. job' = [pc |-> "start", sb |-> job.sb, port |-> job.port, cid |-> starts + 1]
  BY JobFields DEF StartCreate, Inv
<1>6. TypeOK'
  BY <1>1, <1>2, <1>3, <1>4, <1>5 DEF Inv, TypeOK, Job
<1>7. PortsApart' /\ JobHoldsPort'
  BY <1>1, <1>5 DEF Inv, PortsApart, Tracked, JobHoldsPort
<1>8. JobContainer'
  BY <1>1, <1>3, <1>4, <1>5 DEF JobContainer
<1>9. IdsAcked'
  BY <1>1, <1>3, <1>4, AgentAssumption DEF Inv, IdsAcked
<1>10. StartedIsOwned'
  BY <1>1, <1>4, <1>5 DEF Inv, StartedIsOwned, Owned
<1> QED
  BY <1>6, <1>7, <1>8, <1>9, <1>10 DEF Inv

LEMMA InvStartRun == ASSUME Inv, StartRun PROVE Inv'
<1>1. job.pc = "start"
      /\ UNCHANGED <<allocated, sandboxes, known, starts, faults, restarts>>
  BY DEF StartRun
<1>2. job.sb \in Sandbox /\ AppOf[job.sb] \in App
  BY <1>1, AgentAssumption DEF Inv, JobHoldsPort
<1>3. CASE docker' = [docker EXCEPT ![AppOf[job.sb]].st = "up"] /\ Step("track")
  <2>1. job' \in Job /\ job'.pc = "track" /\ job'.sb = job.sb /\ job'.port = job.port
        /\ job'.cid = job.cid
    BY <1>3, StepFields DEF Inv
  <2>2. /\ docker' \in [App -> Container]
        /\ docker'[AppOf[job.sb]].cid = docker[AppOf[job.sb]].cid
        /\ docker'[AppOf[job.sb]].port = docker[AppOf[job.sb]].port
        /\ docker'[AppOf[job.sb]].st = "up"
        /\ \A b \in App \ {AppOf[job.sb]} : docker'[b] = docker[b]
    BY <1>2, <1>3, DockerStatus DEF Inv
  <2>3. TypeOK' /\ PortsApart' /\ JobHoldsPort'
    BY <1>1, <2>1, <2>2 DEF Inv, TypeOK, PortsApart, Tracked, JobHoldsPort
  <2>4. JobContainer'
    BY <1>1, <2>1, <2>2 DEF Inv, JobContainer
  <2>5. IdsAcked'
    BY <1>1, <2>2, AgentAssumption DEF Inv, IdsAcked
  <2>6. StartedIsOwned'
    BY <1>1, <2>1, <2>2 DEF Inv, StartedIsOwned, Owned
  <2> QED
    BY <2>3, <2>4, <2>5, <2>6 DEF Inv
<1>4. CASE docker' = docker /\ Step("release")
  <2>1. job' \in Job /\ job'.pc = "release" /\ job'.sb = job.sb /\ job'.port = job.port
    BY <1>4, StepFields DEF Inv
  <2>2. TypeOK' /\ PortsApart' /\ JobHoldsPort'
    BY <1>1, <1>4, <2>1 DEF Inv, TypeOK, PortsApart, Tracked, JobHoldsPort
  <2>3. JobContainer' /\ IdsAcked'
    BY <1>1, <1>4, <2>1 DEF Inv, JobContainer, IdsAcked
  <2>4. StartedIsOwned'
    BY <1>1, <1>4, <2>1 DEF Inv, StartedIsOwned, Owned
  <2> QED
    BY <2>2, <2>3, <2>4 DEF Inv
<1> QED
  BY <1>3, <1>4 DEF StartRun

LEMMA InvStartFails == ASSUME Inv, StartFails PROVE Inv'
<1>1. /\ job.pc \in {"remove", "create", "start"}
      /\ faults < MaxFaults /\ faults' = faults + 1
      /\ UNCHANGED <<allocated, sandboxes, docker, known, starts, restarts>>
  BY DEF StartFails
<1>2. job' \in Job /\ job'.pc = "release" /\ job'.sb = job.sb /\ job'.port = job.port
  BY StepFields DEF StartFails, Inv
<1>3. TypeOK'
  BY <1>1, <1>2, AgentAssumption DEF Inv, TypeOK
<1>4. PortsApart' /\ JobHoldsPort'
  BY <1>1, <1>2 DEF Inv, PortsApart, Tracked, JobHoldsPort
<1>5. JobContainer' /\ IdsAcked'
  BY <1>1, <1>2 DEF Inv, JobContainer, IdsAcked
<1>6. StartedIsOwned'
  BY <1>1, <1>2 DEF Inv, StartedIsOwned, Owned
<1> QED
  BY <1>3, <1>4, <1>5, <1>6 DEF Inv

\* The port that is given back is in no entry of the map.
LEMMA InvStartRelease == ASSUME Inv, StartRelease PROVE Inv'
<1>1. /\ job.pc = "release" /\ allocated' = allocated \ {job.port} /\ job' = Idle
      /\ UNCHANGED <<sandboxes, docker, known, starts, faults, restarts>>
  BY DEF StartRelease, Release
<1>2. TypeOK'
  BY <1>1, AgentAssumption DEF Inv, TypeOK, Job, Idle, Cid
<1>3. PortsApart'
  BY <1>1 DEF Inv, PortsApart, Tracked, JobHoldsPort
<1>4. JobHoldsPort' /\ JobContainer' /\ IdsAcked'
  BY <1>1 DEF Inv, JobHoldsPort, JobContainer, IdsAcked, Idle
<1>5. StartedIsOwned'
  BY <1>1 DEF Inv, StartedIsOwned, Owned
<1> QED
  BY <1>2, <1>3, <1>4, <1>5 DEF Inv

LEMMA InvStartTrack == ASSUME Inv, StartTrack PROVE Inv'
<1> DEFINE info == [cid |-> job.cid, port |-> job.port]
<1>1. /\ job.pc = "track" /\ job' = Idle
      /\ sandboxes' = [sandboxes EXCEPT ![job.sb] = info]
      /\ UNCHANGED <<allocated, docker, starts, restarts>>
  BY DEF StartTrack
<1>2. /\ job.sb \in Sandbox /\ AppOf[job.sb] \in App
      /\ job.port \in allocated /\ job.port # NoPort
      /\ \A s \in Sandbox : sandboxes[s].port # job.port
  BY <1>1, AgentAssumption DEF Inv, JobHoldsPort, TypeOK
<1>3. info \in SandboxInfo
  BY JobFields DEF SandboxInfo, Inv
<1>4. /\ sandboxes' \in [Sandbox -> SandboxInfo]
      /\ sandboxes'[job.sb] = info
      /\ \A s \in Sandbox \ {job.sb} : sandboxes'[s] = sandboxes[s]
  BY <1>1, <1>2, <1>3 DEF Inv, TypeOK
<1>5. /\ known' \in [Sandbox -> SUBSET Cid]
      /\ \A s \in Sandbox \ {job.sb} : known'[s] = known[s]
      /\ known'[job.sb] \in {known[job.sb], known[job.sb] \cup {job.cid}}
  BY <1>2, JobFields DEF StartTrack, Inv, TypeOK
<1>6. TypeOK'
  <2>1. faults' \in 0..MaxFaults
    BY AgentAssumption DEF StartTrack, Inv, TypeOK
  <2> QED
    BY <1>1, <1>4, <1>5, <2>1, AgentAssumption DEF Inv, TypeOK, Job, Idle, Cid
<1>7. PortsApart'
  BY <1>1, <1>2, <1>4 DEF Inv, PortsApart, Tracked
<1>8. JobHoldsPort' /\ JobContainer'
  BY <1>1 DEF JobHoldsPort, JobContainer, Idle
<1>9. IdsAcked'
  BY <1>1, <1>2, <1>5 DEF Inv, IdsAcked, JobContainer
<1>10. StartedIsOwned'
  <2> SUFFICES ASSUME restarts = 0, NEW a \in App, docker[a].st \in {"up", "down"}
               PROVE  Owned(a)'
    BY <1>1 DEF StartedIsOwned
  <2>1. CASE a = AppOf[job.sb]
    BY <1>1, <1>2, <1>4, <2>1 DEF Inv, JobContainer, Owned
  <2>2. CASE a # AppOf[job.sb]
    BY <1>1, <1>4, <2>2 DEF Inv, StartedIsOwned, Owned
  <2> QED
    BY <2>1, <2>2
<1> QED
  BY <1>6, <1>7, <1>8, <1>9, <1>10 DEF Inv

LEMMA InvStopRemove ==
    ASSUME Inv, NEW s \in Sandbox, NEW c \in Cid, StopRemove(s, c)
    PROVE  Inv'
<1>1. /\ job' = [pc |-> "untrack", sb |-> s, port |-> NoPort, cid |-> c]
      /\ UNCHANGED <<allocated, sandboxes, known, starts, faults, restarts>>
      /\ job.pc = "idle"
  BY DEF StopRemove, Idle
<1>2. AppOf[s] \in App /\ NoContainer \in Container
  BY AgentAssumption DEF NoContainer, Container, Cid
<1>3. /\ docker' \in [App -> Container]
      /\ docker'[AppOf[s]] = NoContainer
      /\ \A b \in App \ {AppOf[s]} : docker'[b] = docker[b]
  BY <1>2, DockerPut DEF StopRemove, Inv
<1>4. TypeOK' /\ PortsApart'
  BY <1>1, <1>3 DEF Inv, TypeOK, Job, PortsApart, Tracked
<1>5. JobHoldsPort' /\ JobContainer'
  BY <1>1, <1>3 DEF JobHoldsPort, JobContainer, NoContainer
<1>6. IdsAcked'
  BY <1>1, <1>3, AgentAssumption DEF Inv, IdsAcked, NoContainer
<1>7. StartedIsOwned'
  BY <1>1, <1>3 DEF Inv, StartedIsOwned, Owned, NoContainer
<1> QED
  BY <1>4, <1>5, <1>6, <1>7 DEF Inv

\* The entry that goes is not the one of a container that is there: the one of
\* its app has just been removed.
LEMMA InvStopUntrack == ASSUME Inv, StopUntrack PROVE Inv'
<1>1. /\ job.pc = "untrack" /\ job' = Idle
      /\ UNCHANGED <<docker, known, starts, faults, restarts>>
  BY DEF StopUntrack
<1>2. job.sb \in Sandbox /\ docker[AppOf[job.sb]].st = "none"
  BY <1>1 DEF Inv, JobContainer
<1>3. JobHoldsPort' /\ JobContainer' /\ IdsAcked'
  BY <1>1 DEF Inv, JobHoldsPort, JobContainer, IdsAcked, Idle
<1>4. CASE UNCHANGED <<allocated, sandboxes>>
  <2>1. TypeOK' /\ PortsApart'
    BY <1>1, <1>4, AgentAssumption DEF Inv, TypeOK, Job, Idle, Cid, PortsApart, Tracked
  <2>2. StartedIsOwned'
    BY <1>1, <1>4 DEF Inv, StartedIsOwned, Owned
  <2> QED
    BY <1>3, <2>1, <2>2 DEF Inv
<1>5. CASE /\ Tracked(job.sb)
           /\ allocated' = allocated \ {sandboxes[job.sb].port}
           /\ sandboxes' = [sandboxes EXCEPT ![job.sb] = Untracked]
  <2>1. Untracked \in SandboxInfo
    BY AgentAssumption DEF Untracked, SandboxInfo, Cid
  <2>2. /\ sandboxes' \in [Sandbox -> SandboxInfo]
        /\ sandboxes'[job.sb] = Untracked
        /\ \A s \in Sandbox \ {job.sb} : sandboxes'[s] = sandboxes[s]
    BY <1>2, <1>5, <2>1 DEF Inv, TypeOK
  <2>3. TypeOK'
    BY <1>1, <1>5, <2>2, AgentAssumption DEF Inv, TypeOK, Job, Idle, Cid
  <2>4. sandboxes[job.sb].port # NoPort
    BY <1>2, <1>5, AgentAssumption DEF Inv, TypeOK, PortsApart
  <2>5. PortsApart'
    <3> SUFFICES ASSUME NEW s \in Sandbox, Tracked(s)'
                 PROVE  /\ sandboxes'[s].port \in allocated'
                        /\ \A t \in Sandbox \ {s} : sandboxes'[t].port # sandboxes'[s].port
      BY DEF PortsApart
    <3>1. s # job.sb /\ sandboxes'[s] = sandboxes[s] /\ Tracked(s)
      BY <2>2 DEF Tracked
    <3>2. sandboxes[s].port \in allocated
          /\ \A t \in Sandbox \ {s} : sandboxes[t].port # sandboxes[s].port
      BY <3>1 DEF Inv, PortsApart
    <3>3. sandboxes[s].port # NoPort
      BY <3>2, AgentAssumption DEF Inv, TypeOK
    <3> QED
      BY <1>2, <1>5, <2>2, <3>1, <3>2, <3>3 DEF Untracked
  <2>6. StartedIsOwned'
    <3> SUFFICES ASSUME restarts = 0, NEW a \in App, docker[a].st \in {"up", "down"}
                 PROVE  Owned(a)'
      BY <1>1 DEF StartedIsOwned
    <3>1. PICK s \in Sandbox : /\ AppOf[s] = a
                               /\ sandboxes[s].port # NoPort
                               /\ sandboxes[s].port = docker[a].port
      BY <1>1 DEF Inv, StartedIsOwned, Owned
    <3>2. s # job.sb
      BY <1>2, <3>1
    <3> QED
      BY <1>1, <2>2, <3>1, <3>2 DEF Owned
  <2> QED
    BY <1>3, <2>3, <2>5, <2>6 DEF Inv
<1> QED
  BY <1>1, <1>4, <1>5 DEF StopUntrack, Release

\* Steps that change the status of a container that has been started.
LEMMA InvStatus ==
    ASSUME Inv, NEW a \in App, NEW st \in {"up", "down"},
           docker[a].st \in {"up", "down"},
           docker' = [docker EXCEPT ![a].st = st],
           UNCHANGED <<allocated, sandboxes, job, known, starts, restarts>>,
           faults' \in 0..MaxFaults
    PROVE  Inv'
<1>1. /\ docker' \in [App -> Container]
      /\ docker'[a].cid = docker[a].cid
      /\ docker'[a].port = docker[a].port
      /\ docker'[a].st = st
      /\ \A b \in App \ {a} : docker'[b] = docker[b]
  BY DockerStatus DEF Inv
<1>2. TypeOK' /\ PortsApart' /\ JobHoldsPort'
  BY <1>1 DEF Inv, TypeOK, PortsApart, Tracked, JobHoldsPort
<1>3. JobContainer'
  <2>1. job.pc \in {"start", "track", "untrack"} => AppOf[job.sb] \in App
    BY AgentAssumption DEF Inv, JobHoldsPort, JobContainer
  <2>2. job.pc \in {"start", "untrack"} => AppOf[job.sb] # a
    BY DEF Inv, JobContainer
  <2> QED
    BY <1>1, <2>1, <2>2 DEF Inv, JobContainer
<1>4. IdsAcked'
  BY <1>1, AgentAssumption DEF Inv, IdsAcked
<1>5. StartedIsOwned'
  BY <1>1 DEF Inv, StartedIsOwned, Owned
<1> QED
  BY <1>2, <1>3, <1>4, <1>5 DEF Inv

LEMMA InvAgentRestarts == ASSUME Inv, AgentRestarts PROVE Inv'
<1>1. /\ restarts < MaxRestarts /\ restarts' = restarts + 1
      /\ allocated' = {} /\ job' = Idle
      /\ sandboxes' = [s \in Sandbox |-> Untracked]
      /\ UNCHANGED <<docker, known, starts, faults>>
  BY DEF AgentRestarts
<1>2. TypeOK'
  BY <1>1, AgentAssumption DEF Inv, TypeOK, Job, Idle, Cid, Untracked, SandboxInfo
<1>3. PortsApart' /\ JobHoldsPort' /\ JobContainer' /\ IdsAcked'
  BY <1>1 DEF Inv, PortsApart, Tracked, JobHoldsPort, JobContainer, IdsAcked, Idle
<1>4. StartedIsOwned'
  BY <1>1, AgentAssumption DEF Inv, TypeOK, StartedIsOwned
<1> QED
  BY <1>2, <1>3, <1>4 DEF Inv

LEMMA InvNext == ASSUME Inv, [Next]_vars PROVE Inv'
<1>1. CASE Start
  BY <1>1, InvStartAllocate, InvStartRemove, InvStartCreate, InvStartRun, InvStartFails,
     InvStartRelease, InvStartTrack DEF Start
<1>2. CASE StopUntrack
  BY <1>2, InvStopUntrack
<1>3. ASSUME NEW s \in Sandbox, NEW c \in Cid, StopRemove(s, c) PROVE Inv'
  BY <1>3, InvStopRemove
<1>4. ASSUME NEW s \in Sandbox, NEW c \in Cid, StopFails(s, c) PROVE Inv'
  <2>1. faults' \in 0..MaxFaults
    BY <1>4, AgentAssumption DEF StopFails, Inv, TypeOK
  <2>2. AppOf[s] \in App /\ docker[AppOf[s]].st \in {"up", "down"}
    BY <1>4, NamedIsStarted, AgentAssumption DEF StopFails
  <2> QED
    BY <1>4, <2>1, <2>2, InvStatus DEF StopFails
<1>5. ASSUME NEW s \in Sandbox, NEW c \in Cid, Restart(s, c) PROVE Inv'
  <2>1. faults' \in 0..MaxFaults
    BY <1>5 DEF Restart, Inv, TypeOK
  <2>2. AppOf[s] \in App /\ docker[AppOf[s]].st \in {"up", "down"}
    BY <1>5, NamedIsStarted, AgentAssumption DEF Restart
  <2>3. PICK st \in {"up", "down"} : docker' = [docker EXCEPT ![AppOf[s]].st = st]
    BY <1>5 DEF Restart
  <2> QED
    BY <1>5, <2>1, <2>2, <2>3, InvStatus DEF Restart
<1>6. ASSUME NEW a \in App, ContainerExits(a) PROVE Inv'
  <2>1. faults' \in 0..MaxFaults
    BY <1>6 DEF ContainerExits, Inv, TypeOK
  <2> QED
    BY <1>6, <2>1, InvStatus DEF ContainerExits
<1>7. CASE AgentRestarts
  BY <1>7, InvAgentRestarts
<1>8. CASE UNCHANGED vars
  BY <1>8 DEF vars, Inv, TypeOK, PortsApart, Tracked, JobHoldsPort, JobContainer, IdsAcked,
     StartedIsOwned, Owned
<1> QED
  BY <1>1, <1>2, <1>3, <1>4, <1>5, <1>6, <1>7, <1>8 DEF Next, Stop

LEMMA Invariance == Spec => []Inv
<1>1. Inv /\ [Next]_vars => Inv'
  BY InvNext
<1> QED
  BY InvInit, <1>1, PTL DEF Spec

-----------------------------------------------------------------------------
(* The theorems. *)

\* The allocator, the executor's map, Docker's containers and the command in
\* execution keep their types.
THEOREM TypeCorrect == Spec => []TypeOK
<1>1. Inv => TypeOK
  BY DEF Inv
<1> QED
  BY Invariance, <1>1, PTL

\* executeStartSandbox and executeStopSandbox never leave two tracked sandboxes
\* with one host port, or a tracked sandbox with a port the allocator would hand
\* out again.
THEOREM PortsStayApart == Spec => []PortsApart
<1>1. Inv => PortsApart
  BY DEF Inv
<1> QED
  BY Invariance, <1>1, PTL

\* Until the agent restarts, ContainerStart in CreateContainer never finds the
\* port it was given bound by another container.
THEOREM PortStaysFree == Spec => []PortIsFreeTillRestart
<1>1. ASSUME Inv PROVE PortIsFreeTillRestart
  <2> SUFFICES ASSUME restarts = 0, job.pc = "start", job.port \in Bound PROVE FALSE
    BY DEF PortIsFreeTillRestart, PortIsFree
  <2>1. PICK b \in App : docker[b].st = "up" /\ docker[b].port = job.port
    BY DEF Bound
  <2>2. Owned(b)
    BY <1>1, <2>1 DEF Inv, StartedIsOwned
  <2> QED
    BY <1>1, <2>1, <2>2 DEF Inv, JobHoldsPort, Owned
<1> QED
  BY Invariance, <1>1, PTL
=============================================================================
