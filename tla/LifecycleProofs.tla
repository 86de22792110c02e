-------------------------- MODULE LifecycleProofs --------------------------
(***************************************************************************)
(* Proofs about Lifecycle, for any number of sandboxes, nodes, clients,    *)
(* crashes, timeouts and faults: its types, its state machine, and that it *)
(* implements CommandQueue.                                                *)
(***************************************************************************)
EXTENDS Lifecycle, FiniteSetTheorems, TLAPS

-----------------------------------------------------------------------------
(* The inductive invariant. *)

Bounded == Len(cmds) <= MaxCmds

\* The sandboxes a command names: Referenced(s) is s \in Refs.
Refs == {cmds[i].sb : i \in 1..Len(cmds)}

\* The states a row is in only after a node was assigned to it.
Placed == {"starting", "running", "restarting", "stopped", "destroying", "failed"}

RowOK(r) == /\ r.state = "absent" => r.node = NoNode
            /\ r.state \in Placed => r.node \in Node

RowInv == \A s \in Sandbox : RowOK(row[s])

\* The compare-and-set a handler is about to make is an edge of the table.
DestroyEdge == { <<"pending", "destroyed">>, <<"starting", "destroying">>,
                 <<"running", "destroying">>, <<"restarting", "destroying">>,
                 <<"stopped", "destroyed">>, <<"failed", "destroyed">> }
AckEdge == { <<"starting", "running">>, <<"failed", "running">>,
             <<"starting", "failed">>, <<"destroying", "destroyed">> }
EventEdge == { <<"starting", "running">>, <<"failed", "running">>,
               <<"starting", "failed">>, <<"running", "restarting">> }

ApiPc == {"idle", "recycle", "insert", "schedule", "assign", "start_cmd",
          "destroy_cas", "stop_cmd", "wake_cas", "restart_cmd"}

\* A create call owns its id until it has inserted the row, and the row it is
\* about to delete is dead or held by the foreign key.
ApiOK(c, k) ==
    /\ k.pc \in ApiPc
    /\ k.pc # "idle" => k.sb \in Sandbox
    /\ k.pc \in {"recycle", "insert"} =>
          /\ row[k.sb].state = "absent"
          /\ \A d \in Client : d # c => call[Api(d)].sb # k.sb
    /\ k.pc = "recycle" =>
          /\ k.old \in Sandbox
          /\ row[k.old].state \in {"destroyed", "failed", "deleted"} \/ k.old \in Refs
    /\ k.pc \in {"assign", "start_cmd", "restart_cmd", "wake_cas"} => k.node \in Node
    /\ k.pc = "destroy_cas" => <<k.st, k.nxt>> \in DestroyEdge
    /\ k.pc = "wake_cas" => k.st = "stopped" /\ k.nxt = "starting"

ApiInv == \A c \in Client : ApiOK(c, call[Api(c)])

AckPc == {"idle", "created", "stopped", "send", "ack_cas", "ack_reread",
          "ack_persist", "ack_refetch", "ack_route", "ack_reset", "ack_done"}

\* The command an agent is executing is in the table, for the same sandbox.
AckOK(k) ==
    /\ k.pc \in AckPc
    /\ k.pc # "idle" => k.cmd \in 1..Len(cmds) /\ cmds[k.cmd].sb = k.sb
    /\ k.pc = "ack_cas" => <<k.st, k.nxt>> \in AckEdge

AckInv == \A n \in Node : AckOK(call[Ack(n)])

CrashPc == {"event_route", "crash_inc", "crash_fail", "crash_cas"}

EvtPc == {"idle", "event_cas", "crash_cmd"} \cup CrashPc

\* The handler that took a sandbox to 'restarting' is the only one that can take
\* it on, short of a destroy; so the row cannot be running again before it does.
EvtOK(n, k) ==
    /\ k.pc \in EvtPc
    /\ k.pc # "idle" => k.sb \in Sandbox /\ k.node \in Node /\ k.sb \in Refs
    /\ k.pc = "event_cas" => <<k.st, k.nxt>> \in EventEdge
    /\ k.pc \in CrashPc =>
          /\ k.st = "running"
          /\ row[k.sb].state \in {"restarting", "destroying", "destroyed", "deleted"}
          /\ \A m \in Node : m # n /\ call[Evt(m)].pc \in CrashPc
                                 => call[Evt(m)].sb # k.sb

EvtInv == \A n \in Node : EvtOK(n, call[Evt(n)])

MovePc == {"move_route", "move_reset", "move_schedule", "move_fail",
           "move_assign", "move_cmd"}

ReaperOK(k) ==
    /\ k.pc \in {"idle", "reap_cmd", "reap_route"}
    /\ k.pc # "idle" => k.sb \in Sandbox /\ k.node \in Node

MonitorOK(k) ==
    /\ k.pc \in {"idle", "move_list"} \cup MovePc
    /\ k.pc \in MovePc => k.sb \in Sandbox /\ row[k.sb].node \in Node
    /\ k.pc \in {"move_assign", "move_cmd"} => k.node \in Node

\* A row the background passes work on has had a node ever since it was listed.
BatchInv == \A p \in {Reaper, Monitor} : \A x \in batch[p] :
                x.node \in Node /\ row[x.sb].node \in Node

PassInv == BatchInv /\ ReaperOK(call[Reaper]) /\ MonitorOK(call[Monitor])

\* What an agent holds or tracks comes from the commands table.
AgentInv ==
    \A n \in Node : /\ inbox[n] \subseteq 1..Len(cmds)
                    /\ \A s \in tracked[n] : s \in Refs

IndInv == /\ TypeOK /\ Bounded /\ RowInv /\ ApiInv /\ AckInv /\ EvtInv
          /\ PassInv /\ AgentInv

-----------------------------------------------------------------------------
(* What one step of process p may do. *)

Moved(p) == \A q \in Proc : q # p => call'[q] = call[q]

TableGrows == /\ Len(cmds') \in Nat
              /\ Len(cmds) <= Len(cmds')
              /\ \A i \in 1..Len(cmds) : cmds'[i].sb = cmds[i].sb

StateChange == \A s \in Sandbox : row'[s].state # row[s].state
                                      => StateStep(row[s].state, row'[s].state)

\* A row changes along StateStep and keeps its node; only its own create call
\* inserts it, only the crash handler at crash_cas takes it from restarting to
\* starting, and a failed row comes back only if a command names it.
RowStep(p) ==
    \A s \in Sandbox :
        /\ RowOK(row'[s])
        /\ row[s].node \in Node => row'[s].node \in Node
        /\ row'[s].state # row[s].state =>
              /\ StateStep(row[s].state, row'[s].state)
              /\ row[s].state = "absent" =>
                    \E c \in Client : p = Api(c) /\ call[p].pc = "insert" /\ call[p].sb = s
              /\ row[s].state = "restarting" /\ row'[s].state = "starting" =>
                    \E n \in Node : p = Evt(n) /\ call[p].pc = "crash_cas" /\ call[p].sb = s
              /\ row[s].state = "failed" =>
                    row'[s].state \in {"destroyed", "deleted"} \/ s \in Refs

\* The five kinds of process do not overlap.
LEMMA ProcFacts ==
    /\ Reaper \in Proc /\ Monitor \in Proc /\ Reaper # Monitor
    /\ \A c \in Client : Api(c) \in Proc /\ Api(c) # Reaper /\ Api(c) # Monitor
    /\ \A n \in Node : /\ Ack(n) \in Proc /\ Ack(n) # Reaper /\ Ack(n) # Monitor
                       /\ Evt(n) \in Proc /\ Evt(n) # Reaper /\ Evt(n) # Monitor
    /\ \A c, d \in Client : Api(c) = Api(d) => c = d
    /\ \A n, m \in Node : /\ Ack(n) = Ack(m) => n = m
                          /\ Evt(n) = Evt(m) => n = m
                          /\ Ack(n) # Evt(m)
    /\ \A c \in Client, n \in Node : Api(c) # Ack(n) /\ Api(c) # Evt(n)
  BY DEF Proc, Reaper, Monitor, Api, Ack, Evt

LEMMA ZeroCid == 0 \in Cid
  BY ConstantsAssumption DEF Cid

LEMMA IdleType == Idle \in Call
  BY ZeroCid DEF Idle, Begun, Call, Pc

\* The states that a step of StateStep can lead to from the ones that matter.
LEMMA StateStepFacts ==
    ASSUME NEW to, NEW from, StateStep(from, to)
    PROVE  /\ from = "absent" => to = "pending"
           /\ from # "deleted"
           /\ to # "absent"
           /\ from = "destroyed" => to = "deleted"
           /\ from = "destroying" => to = "destroyed"
           /\ from = "restarting" => to \in {"starting", "destroying"}
  BY DEF StateStep, Edge, ValidTransitions

\* A step of one process that respects RowStep keeps every other process's part
\* of the invariant.
LEMMA RefsGrow ==
    ASSUME IndInv, TableGrows
    PROVE  Refs \subseteq Refs'
  <1> SUFFICES ASSUME NEW s \in Refs PROVE s \in Refs'
    OBVIOUS
  <1>1. PICK i \in 1..Len(cmds) : s = cmds[i].sb
    BY DEF Refs
  <1>2. i \in 1..Len(cmds') /\ cmds'[i].sb = s
    BY <1>1 DEF IndInv, TypeOK, TableGrows
  <1> QED
    BY <1>2 DEF Refs

LEMMA OtherApi ==
    ASSUME IndInv, TypeOK', TableGrows, NEW p \in Proc, Moved(p), RowStep(p),
           NEW c \in Client, Api(c) # p,
           \A d \in Client : p = Api(d) =>
              \/ call'[p].sb \in {NoSandbox, call[p].sb}
              \/ \A e \in Client : call[Api(e)].sb # call'[p].sb
              \/ row[call'[p].sb].state # "absent"
    PROVE  ApiOK(c, call[Api(c)])'
  <1> DEFINE k == call[Api(c)]
  <1>1. k' = k /\ ApiOK(c, k)
    BY ProcFacts DEF IndInv, ApiInv, Moved
  <1>2. ASSUME k.pc \in {"recycle", "insert"} PROVE row'[k.sb].state = "absent"
    BY <1>1, <1>2, ProcFacts DEF ApiOK, RowStep, IndInv, ApiInv, ApiPc
  <1>3. ASSUME k.pc \in {"recycle", "insert"}, NEW d \in Client, d # c
        PROVE  call'[Api(d)].sb # k.sb
    BY <1>1, <1>3, ProcFacts, ConstantsAssumption DEF ApiOK, Moved, ApiPc
  <1>4. ASSUME k.pc = "recycle"
        PROVE  row'[k.old].state \in {"destroyed", "failed", "deleted"} \/ k.old \in Refs'
    <2>1. k.old \in Sandbox
      BY <1>1, <1>4 DEF ApiOK
    <2>2. CASE k.old \in Refs
      BY <2>2, RefsGrow
    <2>3. CASE row[k.old].state \in {"destroyed", "failed", "deleted"}
      BY <2>1, <2>3, StateStepFacts, RefsGrow DEF RowStep
    <2> QED BY <1>1, <1>4, <2>2, <2>3 DEF ApiOK
  <1> QED
    BY <1>1, <1>2, <1>3, <1>4 DEF ApiOK

LEMMA OtherAck ==
    ASSUME IndInv, TableGrows, NEW p \in Proc, Moved(p), NEW n \in Node, Ack(n) # p
    PROVE  AckOK(call[Ack(n)])'
  <1>1. call'[Ack(n)] = call[Ack(n)] /\ AckOK(call[Ack(n)])
    BY ProcFacts DEF IndInv, AckInv, Moved
  <1> QED
    BY <1>1 DEF AckOK, TableGrows, IndInv, TypeOK

LEMMA OtherEvt ==
    ASSUME IndInv, TableGrows, NEW p \in Proc, Moved(p), RowStep(p),
           NEW n \in Node, Evt(n) # p,
           \A m \in Node : p = Evt(m) /\ call'[p].pc \in CrashPc =>
              \/ call[p].pc \in CrashPc /\ call'[p].sb = call[p].sb
              \/ row[call'[p].sb].state = "running"
    PROVE  EvtOK(n, call[Evt(n)])'
  <1> DEFINE k == call[Evt(n)]
  <1>1. k' = k /\ EvtOK(n, k)
    BY ProcFacts DEF IndInv, EvtInv, Moved
  <1>2. ASSUME k.pc \in CrashPc
        PROVE  row'[k.sb].state \in {"restarting", "destroying", "destroyed", "deleted"}
    <2>1. /\ k.sb \in Sandbox
          /\ row[k.sb].state \in {"restarting", "destroying", "destroyed", "deleted"}
      BY <1>1, <1>2 DEF EvtOK, CrashPc
    <2>2. ~(row[k.sb].state = "restarting" /\ row'[k.sb].state = "starting")
      BY <1>1, <1>2, <2>1, ProcFacts DEF RowStep, EvtOK, CrashPc
    <2>3. CASE row'[k.sb].state = row[k.sb].state
      BY <2>1, <2>3
    <2>4. CASE row'[k.sb].state # row[k.sb].state
      BY <2>1, <2>2, <2>4, StateStepFacts DEF RowStep
    <2> QED BY <2>3, <2>4
  <1>3. ASSUME k.pc \in CrashPc, NEW m \in Node, m # n, call'[Evt(m)].pc \in CrashPc
        PROVE  call'[Evt(m)].sb # k.sb
    BY <1>1, <1>3, ProcFacts DEF EvtOK, Moved
  <1>4. Refs \subseteq Refs'
    BY RefsGrow
  <1> QED
    BY <1>1, <1>2, <1>3, <1>4 DEF EvtOK

\* A step of process p, with p's own part of the invariant shown.
LEMMA Preserve ==
    ASSUME IndInv, TypeOK', Bounded', TableGrows, AgentInv', BatchInv',
           NEW p \in Proc, Moved(p), RowStep(p),
           \A c \in Client : p = Api(c) =>
              /\ ApiOK(c, call[p])'
              /\ \/ call'[p].sb \in {NoSandbox, call[p].sb}
                 \/ \A e \in Client : call[Api(e)].sb # call'[p].sb
                 \/ row[call'[p].sb].state # "absent",
           \A n \in Node : p = Ack(n) => AckOK(call[p])',
           \A n \in Node : p = Evt(n) =>
              /\ EvtOK(n, call[p])'
              /\ call'[p].pc \in CrashPc =>
                   \/ call[p].pc \in CrashPc /\ call'[p].sb = call[p].sb
                   \/ row[call'[p].sb].state = "running",
           p = Reaper => ReaperOK(call[p])',
           p = Monitor => MonitorOK(call[p])'
    PROVE  IndInv' /\ StateChange
  <1>1. RowInv' /\ StateChange
    BY DEF RowStep, RowInv, StateChange
  <1>2. ApiInv'
    <2> SUFFICES ASSUME NEW c \in Client PROVE ApiOK(c, call[Api(c)])'
      BY DEF ApiInv
    <2>1. CASE p = Api(c)
      BY <2>1
    <2>2. CASE p # Api(c)
      BY <2>2, OtherApi
    <2> QED BY <2>1, <2>2
  <1>3. AckInv'
    <2> SUFFICES ASSUME NEW n \in Node PROVE AckOK(call[Ack(n)])'
      BY DEF AckInv
    <2>1. CASE p = Ack(n)
      BY <2>1
    <2>2. CASE p # Ack(n)
      BY <2>2, OtherAck
    <2> QED BY <2>1, <2>2
  <1>4. EvtInv'
    <2> SUFFICES ASSUME NEW n \in Node PROVE EvtOK(n, call[Evt(n)])'
      BY DEF EvtInv
    <2>1. CASE p = Evt(n)
      BY <2>1
    <2>2. CASE p # Evt(n)
      BY <2>2, OtherEvt
    <2> QED BY <2>1, <2>2
  <1>5. ReaperOK(call[Reaper])'
    BY ProcFacts DEF IndInv, PassInv, Moved, ReaperOK
  <1>6. MonitorOK(call[Monitor])'
    BY ProcFacts DEF IndInv, PassInv, Moved, MonitorOK, RowStep, MovePc
  <1> QED
    BY <1>1, <1>2, <1>3, <1>4, <1>5, <1>6 DEF IndInv, PassInv

-----------------------------------------------------------------------------
(* Steps that leave something alone, and the two ways a table changes. *)

LEMMA SameRow ==
    ASSUME IndInv, UNCHANGED row, NEW p
    PROVE  RowStep(p) /\ row' \in [Sandbox -> Row]
  BY DEF IndInv, TypeOK, RowInv, RowStep

LEMMA SameTable ==
    ASSUME IndInv, UNCHANGED cmds
    PROVE  TableGrows /\ Bounded' /\ cmds' \in Seq(Command)
  BY DEF IndInv, TypeOK, Bounded, TableGrows

LEMMA SameBatch ==
    ASSUME IndInv, UNCHANGED batch, NEW p, RowStep(p)
    PROVE  BatchInv'
  BY DEF IndInv, TypeOK, PassInv, BatchInv, RowStep, Snapshot

LEMMA SameAgents ==
    ASSUME IndInv, UNCHANGED <<inbox, tracked>>, TableGrows
    PROVE  AgentInv'
  <1>1. 1..Len(cmds) \subseteq 1..Len(cmds')
    BY DEF IndInv, TypeOK, TableGrows
  <1> QED
    BY <1>1, RefsGrow DEF IndInv, AgentInv

LEMMA SetStateStep ==
    ASSUME IndInv, NEW p, NEW s \in Sandbox, NEW to \in State \cup {"deleted"},
           SetState(s, to), StateStep(row[s].state, to),
           row[s].state # "absent",
           to \in Placed => row[s].node \in Node,
           row[s].state = "restarting" /\ to = "starting" =>
              \E n \in Node : p = Evt(n) /\ call[p].pc = "crash_cas" /\ call[p].sb = s,
           row[s].state = "failed" => to \in {"destroyed", "deleted"} \/ s \in Refs
    PROVE  RowStep(p) /\ row' \in [Sandbox -> Row]
  <1>1. row' \in [Sandbox -> Row]
    <2>1. row[s] \in Row
      BY DEF IndInv, TypeOK
    <2>2. [row[s] EXCEPT !.state = to] \in Row
      BY <2>1 DEF Row
    <2>3. row' = [row EXCEPT ![s] = [row[s] EXCEPT !.state = to]]
      BY DEF IndInv, TypeOK, SetState
    <2> QED BY <2>2, <2>3 DEF IndInv, TypeOK
  <1>2. ASSUME NEW x \in Sandbox
        PROVE  /\ row'[x].node = row[x].node
               /\ row'[x].state = IF x = s THEN to ELSE row[x].state
    BY DEF IndInv, TypeOK, SetState, Row
  <1>3. to # "absent"
    BY DEF State
  <1>4. RowStep(p)
    BY <1>2, <1>3 DEF IndInv, RowInv, RowStep, RowOK
  <1> QED BY <1>1, <1>4

LEMMA CreateCommandStep ==
    ASSUME IndInv, NEW type \in CmdType, NEW s \in Sandbox, NEW n \in Node \cup {NoNode},
           NEW c \in Cid, CreateCommand(type, s, n, c)
    PROVE  TableGrows /\ Bounded' /\ cmds' \in Seq(Command)
  <1>1. CASE UNCHANGED cmds
    BY <1>1, SameTable
  <1>2. CASE n \in Node /\ InsertCommand(type, s, n, c)
    BY <1>2, ConstantsAssumption
       DEF IndInv, TypeOK, InsertCommand, Command, CmdStatus, TableGrows, Bounded
  <1> QED
    BY <1>1, <1>2 DEF CreateCommand

-----------------------------------------------------------------------------
(* The API's handlers. *)

LEMMA ApiCore ==
    ASSUME IndInv, NEW c \in Client,
           call' \in [Proc -> Call], Moved(Api(c)),
           UNCHANGED <<healthy, batch, agents, route, counts>>,
           RowStep(Api(c)), row' \in [Sandbox -> Row],
           TableGrows, Bounded', cmds' \in Seq(Command),
           ApiOK(c, call[Api(c)])',
           \/ call'[Api(c)].sb \in {NoSandbox, call[Api(c)].sb}
           \/ \A e \in Client : call[Api(e)].sb # call'[Api(c)].sb
           \/ row[call'[Api(c)].sb].state # "absent"
    PROVE  IndInv' /\ StateChange
  <1>1. TypeOK'
    BY DEF IndInv, TypeOK, agents, counts
  <1>2. BatchInv'
    BY SameBatch
  <1>3. AgentInv'
    BY SameAgents DEF agents
  <1>4. \A d \in Client : Api(c) = Api(d) => d = c
    BY ProcFacts
  <1> QED
    BY <1>1, <1>2, <1>3, <1>4, Preserve, ProcFacts

\* A handler's pc moves on, and nothing else of its record.
LEMMA StepTyped ==
    ASSUME TypeOK, NEW p \in Proc, NEW pc \in Pc, Step(p, pc)
    PROVE  /\ call' \in [Proc -> Call] /\ Moved(p)
           /\ call'[p] = [call[p] EXCEPT !.pc = pc]
           /\ call'[p].pc = pc
           /\ call'[p].sb = call[p].sb /\ call'[p].old = call[p].old
           /\ call'[p].st = call[p].st /\ call'[p].nxt = call[p].nxt
           /\ call'[p].node = call[p].node /\ call'[p].cmd = call[p].cmd
  <1> DEFINE k == [call[p] EXCEPT !.pc = pc]
  <1>1. call[p] \in Call
    BY DEF TypeOK
  <1>2. k \in Call /\ k.pc = pc /\ k.sb = call[p].sb /\ k.old = call[p].old
        /\ k.st = call[p].st /\ k.nxt = call[p].nxt
        /\ k.node = call[p].node /\ k.cmd = call[p].cmd
    BY <1>1 DEF Call
  <1>3. call' = [call EXCEPT ![p] = k]
    BY DEF TypeOK, Step
  <1>4. call' \in [Proc -> Call] /\ Moved(p) /\ call'[p] = k
    BY <1>2, <1>3 DEF TypeOK, Moved
  <1> QED BY <1>2, <1>4

LEMMA StepFacts ==
    ASSUME IndInv, NEW p \in Proc, NEW pc \in Pc, Step(p, pc)
    PROVE  /\ call' \in [Proc -> Call] /\ Moved(p)
           /\ call'[p] = [call[p] EXCEPT !.pc = pc]
           /\ call'[p].pc = pc
           /\ call'[p].sb = call[p].sb /\ call'[p].old = call[p].old
           /\ call'[p].st = call[p].st /\ call'[p].nxt = call[p].nxt
           /\ call'[p].node = call[p].node /\ call'[p].cmd = call[p].cmd
  BY StepTyped DEF IndInv

LEMMA ReturnFacts ==
    ASSUME IndInv, NEW p \in Proc, Return(p)
    PROVE  /\ call' \in [Proc -> Call] /\ Moved(p)
           /\ call'[p].pc = "idle" /\ call'[p].sb = NoSandbox
  <1>1. Idle.pc = "idle" /\ Idle.sb = NoSandbox
    BY DEF Idle, Begun
  <1> QED
    BY <1>1, IdleType DEF IndInv, TypeOK, Return, Become, Moved

\* A call that ends leaves its client's part of the invariant empty.
LEMMA ApiReturn ==
    ASSUME IndInv, NEW c \in Client, Return(Api(c))
    PROVE  ApiOK(c, call[Api(c)])' /\ call'[Api(c)].sb \in {NoSandbox, call[Api(c)].sb}
  BY ReturnFacts, ProcFacts DEF ApiOK, ApiPc

\* call[p] is replaced by k.
LEMMA NewCall ==
    ASSUME IndInv, NEW p \in Proc, NEW k \in Call, Become(p, k)
    PROVE  call' \in [Proc -> Call] /\ Moved(p) /\ call'[p] = k
  BY DEF IndInv, TypeOK, Moved, Become

LEMMA CreateLookupOK ==
    ASSUME IndInv, NEW c \in Client, NEW s \in Sandbox, CreateLookup(c, s)
    PROVE  IndInv' /\ StateChange
  <1>1. /\ UNCHANGED <<row, cmds, healthy, batch, agents, route, counts>>
        /\ row[s].state = "absent"
        /\ \A d \in Client : call[Api(d)].sb # s
    BY DEF CreateLookup, db
  <1>2. PICK x \in Sandbox \cup {NoSandbox}, pc \in {"insert", "recycle"} :
          /\ Become(Api(c), Creating(pc, s, x))
          /\ pc = "recycle" => x \in Sandbox /\ row[x].state \in {"destroyed", "failed"}
    BY DEF CreateLookup, RowsOf
  <1>3. /\ call' \in [Proc -> Call] /\ Moved(Api(c))
        /\ call'[Api(c)].sb = s /\ call'[Api(c)].pc = pc /\ call'[Api(c)].old = x
    <2> DEFINE k == Creating(pc, s, x)
    <2>1. k \in Call /\ k.sb = s /\ k.pc = pc /\ k.old = x
      BY ZeroCid DEF Creating, Begun, Call, Pc
    <2> HIDE DEF k
    <2> QED BY <1>2, <2>1, NewCall, ProcFacts DEF k
  <1>4. ApiOK(c, call[Api(c)])'
    BY <1>1, <1>2, <1>3, ProcFacts DEF ApiOK, ApiPc, Moved
  <1> QED
    BY <1>1, <1>3, <1>4, SameRow, SameTable, ApiCore

LEMMA CreateRecycleOK ==
    ASSUME IndInv, NEW c \in Client, CreateRecycle(c)
    PROVE  IndInv' /\ StateChange
  <1> DEFINE x == call[Api(c)].old
  <1>1. /\ UNCHANGED <<cmds, healthy, batch, agents, route, counts>>
        /\ call[Api(c)].pc = "recycle"
    BY DEF CreateRecycle, At
  <1>2. ApiOK(c, call[Api(c)])
    BY DEF IndInv, ApiInv
  <1>3. CASE Return(Api(c)) /\ UNCHANGED row
    BY <1>1, <1>3, SameRow, SameTable, ReturnFacts, ApiReturn, ApiCore, ProcFacts
  <1>4. CASE ~Referenced(x) /\ SetState(x, "deleted") /\ Step(Api(c), "insert")
    <2>1. x \in Sandbox /\ row[x].state \in {"destroyed", "failed", "deleted"}
      BY <1>1, <1>2, <1>4 DEF ApiOK, Referenced, Refs
    <2>2. RowStep(Api(c)) /\ row' \in [Sandbox -> Row]
      <3>1. CASE row[x].state = "deleted"
        <4>1. row' = row
          BY <1>4, <2>1, <3>1 DEF SetState, IndInv, TypeOK, Row
        <4> QED BY <4>1, SameRow
      <3>2. CASE row[x].state # "deleted"
        <4>1. StateStep(row[x].state, "deleted")
          BY <2>1, <3>2 DEF StateStep
        <4> QED
          BY <1>4, <2>1, <4>1, SetStateStep DEF Placed
      <3> QED BY <3>1, <3>2
    <2>3. /\ call' \in [Proc -> Call] /\ Moved(Api(c))
          /\ call'[Api(c)].pc = "insert" /\ call'[Api(c)].sb = call[Api(c)].sb
      BY <1>4, StepFacts, ProcFacts DEF Pc
    <2>4. row'[call[Api(c)].sb].state = "absent"
      BY <1>1, <1>2, <1>4, <2>1, <2>2 DEF ApiOK, SetState, IndInv, TypeOK, Row
    <2>5. ApiOK(c, call[Api(c)])'
      BY <1>1, <1>2, <2>3, <2>4, ProcFacts DEF ApiOK, ApiPc, Moved
    <2> QED BY <1>1, <2>2, <2>3, <2>5, SameTable, ApiCore
  <1> QED BY <1>3, <1>4 DEF CreateRecycle

LEMMA CreateInsertOK ==
    ASSUME IndInv, NEW c \in Client, CreateInsert(c)
    PROVE  IndInv' /\ StateChange
  <1> DEFINE s == call[Api(c)].sb
  <1>1. /\ UNCHANGED <<cmds, healthy, batch, agents, route, counts>>
        /\ call[Api(c)].pc = "insert"
    BY DEF CreateInsert, At
  <1>2. s \in Sandbox /\ row[s].state = "absent" /\ row[s].node = NoNode
    BY <1>1 DEF IndInv, ApiInv, ApiOK, RowInv, RowOK
  <1>3. CASE Return(Api(c)) /\ UNCHANGED row
    BY <1>1, <1>3, SameRow, SameTable, ReturnFacts, ApiReturn, ApiCore, ProcFacts
  <1>4. CASE /\ row' = [row EXCEPT ![s] = [state |-> "pending", node |-> NoNode,
                                           cid |-> 0, fails |-> 0, idle |-> FALSE]]
             /\ Step(Api(c), "schedule")
    <2>1. row' \in [Sandbox -> Row]
      BY <1>2, <1>4, ZeroCid DEF IndInv, TypeOK, Row, State
    <2>2. /\ row'[s].state = "pending" /\ row'[s].node = NoNode
          /\ \A t \in Sandbox : t # s => row'[t] = row[t]
      BY <1>2, <1>4 DEF IndInv, TypeOK
    <2>3. RowStep(Api(c))
      BY <1>1, <1>2, <2>2, ConstantsAssumption
         DEF RowStep, RowOK, Placed, StateStep, IndInv, RowInv
    <2>4. /\ call' \in [Proc -> Call] /\ Moved(Api(c))
          /\ call'[Api(c)].pc = "schedule" /\ call'[Api(c)].sb = s
      BY <1>4, StepFacts, ProcFacts DEF Pc
    <2>5. ApiOK(c, call[Api(c)])'
      BY <1>2, <2>4 DEF ApiOK, ApiPc
    <2> QED BY <1>1, <2>1, <2>3, <2>4, <2>5, SameTable, ApiCore
  <1> QED BY <1>3, <1>4 DEF CreateInsert

\* The record of a handler that has chosen a node.
LEMMA PlacingFacts ==
    ASSUME IndInv, NEW p \in Proc, NEW pc \in {"assign", "move_assign", "move_list"},
           NEW s \in Sandbox \cup {NoSandbox}, NEW n \in Node,
           Become(p, Placing(pc, s, n))
    PROVE  /\ call' \in [Proc -> Call] /\ Moved(p)
           /\ call'[p].pc = pc /\ call'[p].sb = s /\ call'[p].node = n
  <1> DEFINE k == Placing(pc, s, n)
  <1>1. k \in Call /\ k.pc = pc /\ k.sb = s /\ k.node = n
    BY ZeroCid DEF Placing, Begun, Call, Pc
  <1> HIDE DEF k
  <1> QED BY <1>1, NewCall DEF k

LEMMA CreateScheduleOK ==
    ASSUME IndInv, NEW c \in Client, CreateSchedule(c)
    PROVE  IndInv' /\ StateChange
  <1>1. /\ UNCHANGED <<row, cmds, healthy, batch, agents, route, counts>>
        /\ call[Api(c)].pc = "schedule"
    BY DEF CreateSchedule, At, db
  <1>2. call[Api(c)].sb \in Sandbox
    BY <1>1 DEF IndInv, ApiInv, ApiOK
  <1>3. CASE Return(Api(c))
    BY <1>1, <1>3, SameRow, SameTable, ReturnFacts, ApiReturn, ApiCore, ProcFacts
  <1>4. ASSUME NEW n \in healthy,
               Become(Api(c), Placing("assign", call[Api(c)].sb, n))
        PROVE  IndInv' /\ StateChange
    <2>1. n \in Node
      BY DEF IndInv, TypeOK
    <2>2. /\ call' \in [Proc -> Call] /\ Moved(Api(c)) /\ call'[Api(c)].pc = "assign"
          /\ call'[Api(c)].sb = call[Api(c)].sb /\ call'[Api(c)].node = n
      BY <1>2, <1>4, <2>1, PlacingFacts, ProcFacts
    <2>3. ApiOK(c, call[Api(c)])'
      BY <1>2, <2>1, <2>2 DEF ApiOK, ApiPc
    <2> QED BY <1>1, <2>2, <2>3, SameRow, SameTable, ApiCore
  <1> QED BY <1>3, <1>4 DEF CreateSchedule

LEMMA AssignStep ==
    ASSUME IndInv, NEW p, NEW s \in Sandbox, NEW n \in Node,
           StateIs(s, "pending"), AssignSandboxToNode(s, n)
    PROVE  RowStep(p) /\ row' \in [Sandbox -> Row]
  <1>1. row' \in [Sandbox -> Row]
    BY ZeroCid DEF IndInv, TypeOK, AssignSandboxToNode, Row, State
  <1>2. /\ row'[s].state = "starting" /\ row'[s].node = n
        /\ \A t \in Sandbox : t # s => row'[t] = row[t]
    BY DEF IndInv, TypeOK, AssignSandboxToNode
  <1>3. StateStep("pending", "starting")
    BY DEF StateStep, Edge, ValidTransitions
  <1>4. RowStep(p)
    BY <1>2, <1>3 DEF RowStep, RowOK, IndInv, RowInv, StateIs
  <1> QED BY <1>1, <1>4

LEMMA CreateAssignOK ==
    ASSUME IndInv, NEW c \in Client, CreateAssign(c)
    PROVE  IndInv' /\ StateChange
  <1> DEFINE s == call[Api(c)].sb
  <1>1. /\ UNCHANGED <<cmds, healthy, batch, agents, route, counts>>
        /\ call[Api(c)].pc = "assign"
    BY DEF CreateAssign, At
  <1>2. s \in Sandbox /\ call[Api(c)].node \in Node
    BY <1>1 DEF IndInv, ApiInv, ApiOK
  <1>3. CASE Return(Api(c)) /\ UNCHANGED row
    BY <1>1, <1>3, SameRow, SameTable, ReturnFacts, ApiReturn, ApiCore, ProcFacts
  <1>4. CASE /\ StateIs(s, "pending") /\ AssignSandboxToNode(s, call[Api(c)].node)
             /\ Step(Api(c), "start_cmd")
    <2>1. RowStep(Api(c)) /\ row' \in [Sandbox -> Row]
      BY <1>2, <1>4, AssignStep
    <2>2. /\ call' \in [Proc -> Call] /\ Moved(Api(c)) /\ call'[Api(c)].pc = "start_cmd"
          /\ call'[Api(c)].sb = s /\ call'[Api(c)].node = call[Api(c)].node
      BY <1>4, StepFacts, ProcFacts DEF Pc
    <2>3. ApiOK(c, call[Api(c)])'
      BY <1>2, <2>2 DEF ApiOK, ApiPc
    <2> QED BY <1>1, <2>1, <2>2, <2>3, SameTable, ApiCore
  <1> QED BY <1>3, <1>4 DEF CreateAssign

LEMMA StartCmdOK ==
    ASSUME IndInv, NEW c \in Client, StartCmd(c)
    PROVE  IndInv' /\ StateChange
  <1>1. /\ UNCHANGED <<row, healthy, batch, agents, route, counts>>
        /\ call[Api(c)].pc = "start_cmd" /\ Return(Api(c))
        /\ CreateCommand("start_sandbox", call[Api(c)].sb, call[Api(c)].node, 0)
    BY DEF StartCmd, At
  <1>2. call[Api(c)].sb \in Sandbox /\ call[Api(c)].node \in Node
    BY <1>1 DEF IndInv, ApiInv, ApiOK
  <1>3. TableGrows /\ Bounded' /\ cmds' \in Seq(Command)
    BY <1>1, <1>2, ZeroCid, CreateCommandStep DEF CmdType
  <1> QED
    BY <1>1, <1>3, SameRow, ReturnFacts, ApiReturn, ApiCore, ProcFacts

\* A call that begins by reading a row.
LEMMA ReadRowFacts ==
    ASSUME IndInv, NEW p \in Proc, NEW s \in Sandbox,
           NEW pc \in {"destroy_cas", "wake_cas", "restart_cmd", "event_cas"},
           NEW nxt \in State \cup {"none"},
           Become(p, ReadRow(pc, s, nxt))
    PROVE  /\ call' \in [Proc -> Call] /\ Moved(p) /\ call'[p].pc = pc
           /\ call'[p].sb = s /\ call'[p].nxt = nxt /\ call'[p].st = row[s].state
           /\ call'[p].node = row[s].node
  <1> DEFINE k == ReadRow(pc, s, nxt)
  <1>1. row[s] \in Row
    BY DEF IndInv, TypeOK
  <1>2. /\ k \in Call /\ k.pc = pc /\ k.sb = s /\ k.nxt = nxt
        /\ k.st = row[s].state /\ k.node = row[s].node
    BY <1>1, ZeroCid DEF ReadRow, Reading, Call, Row, Pc
  <1> HIDE DEF k
  <1> QED BY <1>2, NewCall DEF k

LEMMA DestroyReadOK ==
    ASSUME IndInv, NEW c \in Client, NEW s \in Sandbox, DestroyRead(c, s)
    PROVE  IndInv' /\ StateChange
  <1>1. /\ UNCHANGED <<row, cmds, healthy, batch, agents, route, counts>>
        /\ Exists(s)
    BY DEF DestroyRead, db
  <1>2. PICK to \in NextState(row[s].state, "destroy_requested") :
          Become(Api(c), ReadRow("destroy_cas", s, to))
    BY DEF DestroyRead
  <1>3. to \in State \cup {"none"} /\ <<row[s].state, to>> \in DestroyEdge
    BY DEF NextState, ValidTransitions, DestroyEdge
  <1>4. /\ call' \in [Proc -> Call] /\ Moved(Api(c)) /\ call'[Api(c)].pc = "destroy_cas"
        /\ call'[Api(c)].sb = s /\ call'[Api(c)].nxt = to
        /\ call'[Api(c)].st = row[s].state
    BY <1>1, <1>2, <1>3, ReadRowFacts, ProcFacts
  <1>5. ApiOK(c, call[Api(c)])'
    BY <1>3, <1>4 DEF ApiOK, ApiPc
  <1>6. row[s].state # "absent"
    BY <1>1 DEF Exists
  <1> QED
    BY <1>1, <1>4, <1>5, <1>6, SameRow, SameTable, ApiCore

\* Edges of the table, as SetStateStep wants them.
LEMMA EdgeFacts ==
    ASSUME NEW from, NEW to,
           <<from, to>> \in DestroyEdge \cup AckEdge \cup EventEdge
                              \cup { <<"stopped", "starting">>, <<"running", "stopped">>,
                                     <<"running", "pending">>, <<"restarting", "starting">> }
    PROVE  /\ to \in State /\ StateStep(from, to) /\ from # "absent"
           /\ to \in Placed => from \in Placed
  BY DEF DestroyEdge, AckEdge, EventEdge, State, StateStep, Edge, ValidTransitions, Placed

LEMMA DestroyCasOK ==
    ASSUME IndInv, NEW c \in Client, DestroyCas(c)
    PROVE  IndInv' /\ StateChange
  <1> DEFINE k == call[Api(c)]
  <1>1. /\ UNCHANGED <<cmds, healthy, batch, agents, route, counts>>
        /\ k.pc = "destroy_cas"
    BY DEF DestroyCas, At
  <1>2. k.sb \in Sandbox /\ <<k.st, k.nxt>> \in DestroyEdge
    BY <1>1 DEF IndInv, ApiInv, ApiOK
  <1>3. CASE Return(Api(c)) /\ UNCHANGED row
    BY <1>1, <1>3, SameRow, SameTable, ReturnFacts, ApiReturn, ApiCore, ProcFacts
  <1>4. CASE StateIs(k.sb, k.st) /\ SetState(k.sb, k.nxt) /\ Step(Api(c), "stop_cmd")
    <2>1. /\ k.nxt \in State /\ StateStep(k.st, k.nxt) /\ k.st # "absent"
          /\ k.nxt \in Placed => row[k.sb].node \in Node
      BY <1>2, <1>4, EdgeFacts DEF StateIs, IndInv, RowInv, RowOK
    <2>2. /\ ~(k.st = "restarting" /\ k.nxt = "starting")
          /\ k.st = "failed" => k.nxt = "destroyed"
      BY <1>2 DEF DestroyEdge
    <2>3. RowStep(Api(c)) /\ row' \in [Sandbox -> Row]
      BY <1>2, <1>4, <2>1, <2>2, SetStateStep DEF StateIs
    <2>4. /\ call' \in [Proc -> Call] /\ Moved(Api(c)) /\ call'[Api(c)].pc = "stop_cmd"
          /\ call'[Api(c)].sb = k.sb
      BY <1>4, StepFacts, ProcFacts DEF Pc
    <2>5. ApiOK(c, call[Api(c)])'
      BY <1>2, <2>4 DEF ApiOK, ApiPc
    <2> QED BY <1>1, <2>3, <2>4, <2>5, SameTable, ApiCore
  <1> QED BY <1>3, <1>4 DEF DestroyCas

LEMMA StopCmdOK ==
    ASSUME IndInv, NEW c \in Client, StopCmd(c)
    PROVE  IndInv' /\ StateChange
  <1> DEFINE k == call[Api(c)]
  <1>1. /\ UNCHANGED <<row, healthy, batch, agents, route, counts>>
        /\ k.pc = "stop_cmd" /\ Return(Api(c))
        /\ CreateCommand("stop_sandbox", k.sb, k.node, k.cid)
    BY DEF StopCmd, At
  <1>2. k.sb \in Sandbox /\ k.cid \in Cid /\ k.node \in Node \cup {NoNode}
    BY <1>1, ProcFacts DEF IndInv, TypeOK, Call, ApiInv, ApiOK
  <1>3. TableGrows /\ Bounded' /\ cmds' \in Seq(Command)
    BY <1>1, <1>2, CreateCommandStep DEF CmdType
  <1> QED
    BY <1>1, <1>3, SameRow, ReturnFacts, ApiReturn, ApiCore, ProcFacts

LEMMA WakeReadOK ==
    ASSUME IndInv, NEW c \in Client, NEW s \in Sandbox, WakeRead(c, s)
    PROVE  IndInv' /\ StateChange
  <1>1. /\ UNCHANGED <<row, cmds, healthy, batch, agents, route, counts>>
        /\ row[s].state = "stopped"
        /\ Become(Api(c), ReadRow("wake_cas", s, "starting"))
    BY DEF WakeRead, db
  <1>2. Exists(s) /\ row[s].node \in Node /\ "starting" \in State \cup {"none"}
    BY <1>1 DEF Exists, IndInv, RowInv, RowOK, Placed, State
  <1>3. /\ call' \in [Proc -> Call] /\ Moved(Api(c)) /\ call'[Api(c)].pc = "wake_cas"
        /\ call'[Api(c)].sb = s /\ call'[Api(c)].nxt = "starting"
        /\ call'[Api(c)].st = row[s].state /\ call'[Api(c)].node = row[s].node
    BY <1>1, <1>2, ReadRowFacts, ProcFacts
  <1>4. ApiOK(c, call[Api(c)])'
    BY <1>1, <1>2, <1>3 DEF ApiOK, ApiPc
  <1> QED
    BY <1>1, <1>3, <1>4, SameRow, SameTable, ApiCore

LEMMA WakeCasOK ==
    ASSUME IndInv, NEW c \in Client, WakeCas(c)
    PROVE  IndInv' /\ StateChange
  <1> DEFINE k == call[Api(c)]
  <1>1. /\ UNCHANGED <<cmds, healthy, batch, agents, route, counts>>
        /\ k.pc = "wake_cas"
    BY DEF WakeCas, At
  <1>2. k.sb \in Sandbox /\ k.node \in Node /\ k.st = "stopped" /\ k.nxt = "starting"
    BY <1>1 DEF IndInv, ApiInv, ApiOK
  <1>3. CASE Return(Api(c)) /\ UNCHANGED row
    BY <1>1, <1>3, SameRow, SameTable, ReturnFacts, ApiReturn, ApiCore, ProcFacts
  <1>4. CASE StateIs(k.sb, k.st) /\ SetState(k.sb, k.nxt) /\ Step(Api(c), "start_cmd")
    <2>1. row[k.sb].node \in Node /\ StateStep("stopped", "starting") /\ "starting" \in State
      BY <1>2, <1>4, EdgeFacts DEF StateIs, IndInv, RowInv, RowOK, Placed
    <2>2. RowStep(Api(c)) /\ row' \in [Sandbox -> Row]
      BY <1>2, <1>4, <2>1, SetStateStep DEF StateIs
    <2>3. /\ call' \in [Proc -> Call] /\ Moved(Api(c)) /\ call'[Api(c)].pc = "start_cmd"
          /\ call'[Api(c)].sb = k.sb /\ call'[Api(c)].node = k.node
      BY <1>4, StepFacts, ProcFacts DEF Pc
    <2>4. ApiOK(c, call[Api(c)])'
      BY <1>2, <2>3 DEF ApiOK, ApiPc
    <2> QED BY <1>1, <2>2, <2>3, <2>4, SameTable, ApiCore
  <1> QED BY <1>3, <1>4 DEF WakeCas

LEMMA RestartReadOK ==
    ASSUME IndInv, NEW c \in Client, NEW s \in Sandbox, RestartRead(c, s)
    PROVE  IndInv' /\ StateChange
  <1>1. /\ UNCHANGED <<row, cmds, healthy, batch, agents, route, counts>>
        /\ row[s].state = "running"
        /\ Become(Api(c), ReadRow("restart_cmd", s, "none"))
    BY DEF RestartRead, db
  <1>2. Exists(s) /\ row[s].node \in Node
    BY <1>1 DEF Exists, IndInv, RowInv, RowOK, Placed
  <1>3. /\ call' \in [Proc -> Call] /\ Moved(Api(c)) /\ call'[Api(c)].pc = "restart_cmd"
        /\ call'[Api(c)].sb = s /\ call'[Api(c)].node = row[s].node
    BY <1>1, <1>2, ReadRowFacts, ProcFacts
  <1>4. ApiOK(c, call[Api(c)])'
    BY <1>2, <1>3 DEF ApiOK, ApiPc
  <1> QED
    BY <1>1, <1>3, <1>4, SameRow, SameTable, ApiCore

LEMMA RestartCmdOK ==
    ASSUME IndInv, NEW c \in Client, RestartCmd(c)
    PROVE  IndInv' /\ StateChange
  <1> DEFINE k == call[Api(c)]
  <1>1. /\ UNCHANGED <<row, healthy, batch, agents, route, counts>>
        /\ k.pc = "restart_cmd" /\ Return(Api(c))
        /\ CreateCommand("restart_sandbox", k.sb, k.node, k.cid)
    BY DEF RestartCmd, At
  <1>2. k.sb \in Sandbox /\ k.node \in Node /\ k.cid \in Cid
    BY <1>1, ProcFacts DEF IndInv, TypeOK, Call, ApiInv, ApiOK
  <1>3. TableGrows /\ Bounded' /\ cmds' \in Seq(Command)
    BY <1>1, <1>2, CreateCommandStep DEF CmdType
  <1> QED
    BY <1>1, <1>3, SameRow, ReturnFacts, ApiReturn, ApiCore, ProcFacts

-----------------------------------------------------------------------------
(* Steps of no handler, and rows whose state and node stay. *)

LEMMA RowDetail ==
    ASSUME IndInv, NEW p, row' \in [Sandbox -> Row],
           \A s \in Sandbox : row'[s].state = row[s].state /\ row'[s].node = row[s].node
    PROVE  RowStep(p)
  BY DEF RowStep, RowOK, IndInv, RowInv

LEMMA NoCall ==
    ASSUME IndInv, UNCHANGED call, TypeOK', Bounded', TableGrows, AgentInv',
           BatchInv', RowStep(Monitor)
    PROVE  IndInv' /\ StateChange
  <1>1. MonitorOK(call[Monitor])'
    BY DEF IndInv, PassInv, MonitorOK, RowStep, MovePc
  <1>2. Moved(Monitor)
    BY DEF Moved
  <1> QED
    BY <1>1, <1>2, Preserve, ProcFacts

LEMMA IdleRow ==
    ASSUME NEW r \in Row, NEW b \in BOOLEAN
    PROVE  [r EXCEPT !.idle = b] \in Row
  BY DEF Row

LEMMA IdleChange ==
    ASSUME IndInv, NEW s \in Sandbox, NEW b \in BOOLEAN,
           row' = [row EXCEPT ![s].idle = b], UNCHANGED <<cmds, call, batch, inbox, tracked>>,
           TypeOK'
    PROVE  IndInv' /\ StateChange
  <1>1. \A t \in Sandbox : row'[t].state = row[t].state /\ row'[t].node = row[t].node
    BY DEF IndInv, TypeOK, Row
  <1>2. row' \in [Sandbox -> Row]
    BY DEF TypeOK
  <1>3. RowStep(Monitor)
    BY <1>1, <1>2, RowDetail
  <1> QED
    BY <1>3, SameTable, SameBatch, SameAgents, NoCall

LEMMA FilePushOK ==
    ASSUME IndInv, NEW s \in Sandbox, FilePush(s)
    PROVE  IndInv' /\ StateChange
  <1>1. row' = [row EXCEPT ![s].idle = FALSE]
        /\ UNCHANGED <<cmds, healthy, call, batch, agents, route, counts>>
    BY DEF FilePush
  <1>2. [row[s] EXCEPT !.idle = FALSE] \in Row
    BY IdleRow DEF IndInv, TypeOK
  <1>3. row' \in [Sandbox -> Row]
    BY <1>1, <1>2 DEF IndInv, TypeOK
  <1>4. TypeOK'
    BY <1>1, <1>3 DEF IndInv, TypeOK, agents, counts
  <1> QED BY <1>1, <1>4, IdleChange DEF agents

LEMMA GoesIdleOK ==
    ASSUME IndInv, NEW s \in Sandbox, GoesIdle(s)
    PROVE  IndInv' /\ StateChange
  <1>1. /\ row' = [row EXCEPT ![s].idle = TRUE] /\ timeouts' = timeouts + 1
        /\ timeouts < MaxTimeouts
        /\ UNCHANGED <<cmds, healthy, call, batch, agents, route, gaveUp, crashes, faults>>
    BY DEF GoesIdle
  <1>2. [row[s] EXCEPT !.idle = TRUE] \in Row
    BY IdleRow DEF IndInv, TypeOK
  <1>3. row' \in [Sandbox -> Row]
    BY <1>1, <1>2 DEF IndInv, TypeOK
  <1>4. timeouts' \in 0..MaxTimeouts
    BY <1>1, ConstantsAssumption DEF IndInv, TypeOK
  <1>5. TypeOK'
    BY <1>1, <1>3, <1>4 DEF IndInv, TypeOK, agents
  <1> QED BY <1>1, <1>5, IdleChange DEF agents

LEMMA HeartbeatOK ==
    ASSUME IndInv, NEW n \in Node, Heartbeat(n)
    PROVE  IndInv' /\ StateChange
  <1>1. UNCHANGED <<row, cmds, call, batch, agents, route, counts>>
    BY DEF Heartbeat
  <1>2. TypeOK'
    BY <1>1 DEF Heartbeat, IndInv, TypeOK, agents, counts
  <1> QED
    BY <1>1, <1>2, SameRow, SameTable, SameBatch, SameAgents, NoCall DEF agents

-----------------------------------------------------------------------------
(* The agents. *)

EventSeq == Seq([type : EventType, app : App])

LEMMA EventsTyped ==
    ASSUME TypeOK, NEW n \in Node, NEW a \in App, NEW types \in Seq(EventType),
           Events(n, a, types)
    PROVE  evq' \in [Node -> EventSeq]
  <1> DEFINE new == [i \in 1..Len(types) |-> [type |-> types[i], app |-> a]]
  <1>1. new \in EventSeq
    BY DEF EventSeq
  <1>2. evq[n] \o new \in EventSeq
    <2>1. evq[n] \in EventSeq
      BY DEF TypeOK, EventSeq
    <2> HIDE DEF new
    <2> QED BY <1>1, <2>1 DEF EventSeq
  <1> QED
    BY <1>2 DEF Events, TypeOK, EventSeq

LEMMA EventsStep ==
    ASSUME IndInv, NEW n \in Node, NEW a \in App, NEW types \in Seq(EventType),
           Events(n, a, types)
    PROVE  evq' \in [Node -> EventSeq]
  BY EventsTyped DEF IndInv

LEMMA DieIfUpType ==
    ASSUME NEW n, NEW a
    PROVE  /\ DieIfUp(n, a) \in Seq(EventType)
           /\ DieIfUp(n, a) \o <<"container_started">> \in Seq(EventType)
  <1>1. DieIfUp(n, a) \in Seq(EventType)
    <2>1. <<>> \in Seq(EventType) /\ <<"container_exited">> \in Seq(EventType)
      BY DEF EventType
    <2> QED BY <2>1 DEF DieIfUp
  <1>2. <<"container_started">> \in Seq(EventType)
    BY DEF EventType
  <1> QED BY <1>1, <1>2

LEMMA AckCore ==
    ASSUME IndInv, NEW n \in Node, TypeOK', Bounded', TableGrows, AgentInv',
           UNCHANGED batch, Moved(Ack(n)), RowStep(Ack(n)), AckOK(call[Ack(n)])'
    PROVE  IndInv' /\ StateChange
  BY SameBatch, Preserve, ProcFacts

LEMMA FaultCount ==
    ASSUME IndInv, faults < MaxFaults, faults' = faults + 1
    PROVE  faults' \in 0..MaxFaults
  BY ConstantsAssumption DEF IndInv, TypeOK

LEMMA DispatchTyped ==
    ASSUME TypeOK, Bounded, NEW n \in Node, Dispatch(n)
    PROVE  TableGrows /\ Bounded' /\ cmds' \in Seq(Command)
  <1> DEFINE new(i) == IF i \in Pending(n) THEN [cmds[i] EXCEPT !.status = "dispatched"]
                                           ELSE cmds[i]
  <1>1. ASSUME NEW i \in 1..Len(cmds) PROVE new(i) \in Command /\ new(i).sb = cmds[i].sb
    <2>1. cmds[i] \in Command
      BY DEF TypeOK
    <2> QED BY <2>1 DEF Command, CmdStatus
  <1>2. cmds' = [i \in 1..Len(cmds) |-> new(i)] /\ Len(cmds) \in Nat
    BY DEF Dispatch, TypeOK
  <1> HIDE DEF new
  <1>3. cmds' \in Seq(Command) /\ Len(cmds') = Len(cmds)
    BY <1>1, <1>2
  <1>4. \A i \in 1..Len(cmds) : cmds'[i].sb = cmds[i].sb
    BY <1>1, <1>2
  <1> QED
    BY <1>2, <1>3, <1>4 DEF TableGrows, Bounded

LEMMA DispatchStep ==
    ASSUME IndInv, NEW n \in Node, Dispatch(n)
    PROVE  TableGrows /\ Bounded' /\ cmds' \in Seq(Command)
  BY DispatchTyped DEF IndInv

LEMMA PendingTyped == ASSUME TypeOK, Bounded, NEW n \in Node
                      PROVE  Pending(n) \subseteq 1..Len(cmds) /\ Pending(n) \subseteq CmdId
  <1>1. Pending(n) \subseteq 1..Len(cmds)
    BY DEF Pending
  <1> QED BY <1>1, ConstantsAssumption DEF TypeOK, Bounded, CmdId

LEMMA PendingType == ASSUME IndInv, NEW n \in Node
                     PROVE  Pending(n) \subseteq 1..Len(cmds) /\ Pending(n) \subseteq CmdId
  BY PendingTyped DEF IndInv

LEMMA AgentPollOK ==
    ASSUME IndInv, NEW n \in Node, AgentPoll(n)
    PROVE  IndInv' /\ StateChange
  <1>1. /\ Dispatch(n) /\ inbox' = [inbox EXCEPT ![n] = Pending(n)]
        /\ UNCHANGED <<row, healthy, call, batch, tracked, ctr, evq, route, counts>>
    BY DEF AgentPoll
  <1>2. TableGrows /\ Bounded' /\ cmds' \in Seq(Command)
    BY <1>1, DispatchStep
  <1>3. TypeOK'
    BY <1>1, <1>2, PendingType DEF IndInv, TypeOK, counts
  <1>4. AgentInv'
    <2>1. 1..Len(cmds) \subseteq 1..Len(cmds')
      BY <1>2 DEF IndInv, TypeOK, TableGrows
    <2> QED BY <1>1, <1>2, <2>1, PendingType, RefsGrow DEF IndInv, TypeOK, AgentInv
  <1> QED
    BY <1>1, <1>2, <1>3, <1>4, SameRow, SameBatch, NoCall

LEMMA LosePollOK ==
    ASSUME IndInv, NEW n \in Node, LosePoll(n)
    PROVE  IndInv' /\ StateChange
  <1>1. /\ Dispatch(n) /\ faults < MaxFaults /\ faults' = faults + 1
        /\ UNCHANGED <<row, healthy, call, batch, agents, route, gaveUp, crashes, timeouts>>
    BY DEF LosePoll
  <1>2. TableGrows /\ Bounded' /\ cmds' \in Seq(Command)
    BY <1>1, DispatchStep
  <1>3. TypeOK'
    BY <1>1, <1>2, FaultCount DEF IndInv, TypeOK, agents
  <1> QED
    BY <1>1, <1>2, <1>3, SameRow, SameBatch, SameAgents, NoCall DEF agents

\* An agent takes a command from its inbox.
LEMMA BeginStep ==
    ASSUME IndInv, NEW n \in Node, NEW i \in inbox[n],
           NEW pc \in {"created", "stopped", "send"}, NEW ok \in BOOLEAN,
           Begin(n, i, pc, ok)
    PROVE  /\ inbox' \in [Node -> SUBSET CmdId]
           /\ \A m \in Node : inbox'[m] \subseteq inbox[m]
           /\ call' \in [Proc -> Call] /\ Moved(Ack(n))
           /\ UNCHANGED cmds => AckOK(call[Ack(n)])'
  <1> DEFINE k == Executing(pc, i, ok)
  <1>1. i \in 1..Len(cmds) /\ i \in Cid /\ cmds[i] \in Command
    BY ConstantsAssumption DEF IndInv, TypeOK, AgentInv, Bounded, Cid
  <1>2. k \in Call /\ k.pc = pc /\ k.cmd = i /\ k.sb = cmds[i].sb
    BY <1>1, ZeroCid DEF Executing, Begun, Call, Command, Pc
  <1> HIDE DEF k
  <1>3. call' \in [Proc -> Call] /\ Moved(Ack(n)) /\ call'[Ack(n)] = k
    BY <1>2, NewCall, ProcFacts DEF Begin, k
  <1>4. UNCHANGED cmds => AckOK(call[Ack(n)])'
    BY <1>1, <1>2, <1>3 DEF AckOK, AckPc
  <1>5. /\ inbox' \in [Node -> SUBSET CmdId]
        /\ \A m \in Node : inbox'[m] \subseteq inbox[m]
    BY DEF Begin, IndInv, TypeOK
  <1> QED BY <1>3, <1>4, <1>5

\* The rest of such a step: only the agent's own state and counters change.
LEMMA AgentCore ==
    ASSUME IndInv, NEW n \in Node, UNCHANGED <<db, batch, tracked, route>>,
           inbox' \in [Node -> SUBSET CmdId],
           \A m \in Node : inbox'[m] \subseteq inbox[m],
           call' \in [Proc -> Call], Moved(Ack(n)), AckOK(call[Ack(n)])',
           evq' \in [Node -> EventSeq],
           ctr' \in [Node -> [App -> [cid : Cid, up : BOOLEAN]]],
           UNCHANGED <<gaveUp, crashes, timeouts>>, faults' \in 0..MaxFaults
    PROVE  IndInv' /\ StateChange
  <1>1. TypeOK'
    BY DEF IndInv, TypeOK, db, EventSeq
  <1>2. AgentInv'
    BY DEF IndInv, AgentInv, db, Refs
  <1> QED
    BY <1>1, <1>2, SameRow, SameTable, AckCore DEF db

\* What a command's step does to the containers and the events of its node.
Container == [cid : Cid, up : BOOLEAN]

LEMMA ContainerType ==
    ASSUME NEW c \in Cid, NEW b \in BOOLEAN
    PROVE  [cid |-> c, up |-> b] \in Container
  BY DEF Container

LEMMA ContainerUp ==
    ASSUME NEW x \in Container, NEW b \in BOOLEAN
    PROVE  [x EXCEPT !.up = b] \in Container
  BY DEF Container

LEMMA ContainersTyped ==
    ASSUME TypeOK, NEW n \in Node, NEW a \in App
    PROVE  /\ \A x \in Container : [ctr EXCEPT ![n][a] = x]
                     \in [Node -> [App -> [cid : Cid, up : BOOLEAN]]]
           /\ \A b \in BOOLEAN : [ctr EXCEPT ![n][a].up = b]
                     \in [Node -> [App -> [cid : Cid, up : BOOLEAN]]]
  <1>1. ctr \in [Node -> [App -> Container]]
    BY DEF TypeOK, Container
  <1>2. \A x \in Container : [ctr EXCEPT ![n][a] = x] \in [Node -> [App -> Container]]
    BY <1>1
  <1>3. \A b \in BOOLEAN : [ctr EXCEPT ![n][a].up = b]
                               = [ctr EXCEPT ![n][a] = [ctr[n][a] EXCEPT !.up = b]]
    BY <1>1
  <1>4. \A b \in BOOLEAN : [ctr[n][a] EXCEPT !.up = b] \in Container
    BY <1>1, ContainerUp
  <1> QED
    BY <1>2, <1>3, <1>4 DEF Container

LEMMA ContainerStep ==
    ASSUME IndInv, NEW n \in Node, NEW a \in App
    PROVE  /\ \A x \in Container : [ctr EXCEPT ![n][a] = x]
                     \in [Node -> [App -> [cid : Cid, up : BOOLEAN]]]
           /\ \A b \in BOOLEAN : [ctr EXCEPT ![n][a].up = b]
                     \in [Node -> [App -> [cid : Cid, up : BOOLEAN]]]
  BY ContainersTyped DEF IndInv

LEMMA CmdFacts ==
    ASSUME IndInv, NEW n \in Node, NEW i \in inbox[n]
    PROVE  i \in Cid /\ AppOf[cmds[i].sb] \in App
  <1>1. i \in 1..Len(cmds) /\ cmds[i] \in Command
    BY DEF IndInv, TypeOK, AgentInv
  <1>2. i \in Cid
    BY <1>1, ConstantsAssumption DEF IndInv, TypeOK, Bounded, Cid
  <1> QED BY <1>1, <1>2, ConstantsAssumption DEF Command

LEMMA AgentStartOK ==
    ASSUME IndInv, NEW n \in Node, NEW i \in inbox[n], AgentStart(n, i)
    PROVE  IndInv' /\ StateChange
  <1> DEFINE a == AppOf[cmds[i].sb]
  <1>1. /\ Begin(n, i, "created", TRUE) /\ UNCHANGED <<db, batch, tracked, route, counts>>
        /\ ctr' = [ctr EXCEPT ![n][a] = [cid |-> i, up |-> TRUE]]
        /\ Events(n, a, DieIfUp(n, a) \o <<"container_started">>)
    BY DEF AgentStart
  <1>2. evq' \in [Node -> EventSeq]
    BY <1>1, CmdFacts, DieIfUpType, EventsStep
  <1>3. ctr' \in [Node -> [App -> [cid : Cid, up : BOOLEAN]]]
    BY <1>1, CmdFacts, ContainerStep, ContainerType
  <1>4. faults' \in 0..MaxFaults /\ UNCHANGED <<gaveUp, crashes, timeouts, cmds>>
    BY <1>1 DEF counts, db, IndInv, TypeOK
  <1> QED
    BY <1>1, <1>2, <1>3, <1>4, BeginStep, AgentCore

LEMMA AgentStartFailsOK ==
    ASSUME IndInv, NEW n \in Node, NEW i \in inbox[n], AgentStartFails(n, i)
    PROVE  IndInv' /\ StateChange
  <1> DEFINE a == AppOf[cmds[i].sb]
  <1>1. /\ Begin(n, i, "send", FALSE) /\ faults < MaxFaults /\ faults' = faults + 1
        /\ UNCHANGED <<db, batch, tracked, route, gaveUp, crashes, timeouts>>
    BY DEF AgentStartFails
  <1>2. evq' \in [Node -> EventSeq] /\ ctr' \in [Node -> [App -> [cid : Cid, up : BOOLEAN]]]
    <2>1. CASE UNCHANGED <<ctr, evq>>
      BY <2>1 DEF IndInv, TypeOK, EventSeq
    <2>2. CASE ctr' = [ctr EXCEPT ![n][a] = NoContainer] /\ Events(n, a, DieIfUp(n, a))
      <3>1. evq' \in [Node -> EventSeq]
        BY <2>2, CmdFacts, DieIfUpType, EventsStep
      <3>2. ctr' \in [Node -> [App -> [cid : Cid, up : BOOLEAN]]]
        BY <2>2, CmdFacts, ContainerStep, ContainerType, ZeroCid DEF NoContainer
      <3> QED BY <3>1, <3>2
    <2> QED BY <2>1, <2>2 DEF AgentStartFails
  <1> QED
    BY <1>1, <1>2, FaultCount, BeginStep, AgentCore DEF db

LEMMA AgentStopFailsOK ==
    ASSUME IndInv, NEW n \in Node, NEW i \in inbox[n], AgentStopFails(n, i)
    PROVE  IndInv' /\ StateChange
  <1> DEFINE a == AppOf[cmds[i].sb]
  <1>1. /\ Begin(n, i, "send", FALSE) /\ faults < MaxFaults /\ faults' = faults + 1
        /\ UNCHANGED <<db, batch, tracked, route, gaveUp, crashes, timeouts>>
    BY DEF AgentStopFails
  <1>2. evq' \in [Node -> EventSeq] /\ ctr' \in [Node -> [App -> [cid : Cid, up : BOOLEAN]]]
    <2>1. CASE UNCHANGED <<ctr, evq>>
      BY <2>1 DEF IndInv, TypeOK, EventSeq
    <2>2. CASE ctr' = [ctr EXCEPT ![n][a].up = FALSE] /\ Events(n, a, DieIfUp(n, a))
      <3>1. evq' \in [Node -> EventSeq]
        BY <2>2, CmdFacts, DieIfUpType, EventsStep
      <3>2. ctr' \in [Node -> [App -> [cid : Cid, up : BOOLEAN]]]
        BY <2>2, CmdFacts, ContainerStep
      <3> QED BY <3>1, <3>2
    <2> QED BY <2>1, <2>2 DEF AgentStopFails
  <1> QED
    BY <1>1, <1>2, FaultCount, BeginStep, AgentCore DEF db

LEMMA AgentStopOK ==
    ASSUME IndInv, NEW n \in Node, NEW i \in inbox[n], AgentStop(n, i)
    PROVE  IndInv' /\ StateChange
  <1> DEFINE a == AppOf[cmds[i].sb]
  <1>1. UNCHANGED <<db, batch, tracked, route, counts>>
    BY DEF AgentStop
  <1>2. faults' \in 0..MaxFaults /\ UNCHANGED <<gaveUp, crashes, timeouts, cmds>>
    BY <1>1 DEF counts, db, IndInv, TypeOK
  <1>3. CASE /\ Begin(n, i, "stopped", TRUE) /\ Events(n, a, DieIfUp(n, a))
             /\ ctr' = [ctr EXCEPT ![n][a] = NoContainer]
    <2>1. evq' \in [Node -> EventSeq]
      BY <1>3, CmdFacts, DieIfUpType, EventsStep
    <2>2. ctr' \in [Node -> [App -> [cid : Cid, up : BOOLEAN]]]
      BY <1>3, CmdFacts, ContainerStep, ContainerType, ZeroCid DEF NoContainer
    <2> QED BY <1>1, <1>2, <1>3, <2>1, <2>2, BeginStep, AgentCore
  <1>4. CASE Begin(n, i, "send", FALSE) /\ UNCHANGED <<ctr, evq>>
    <2>1. evq' \in [Node -> EventSeq] /\ ctr' \in [Node -> [App -> [cid : Cid, up : BOOLEAN]]]
      BY <1>4 DEF IndInv, TypeOK, EventSeq
    <2> QED BY <1>1, <1>2, <1>4, <2>1, BeginStep, AgentCore
  <1> QED BY <1>3, <1>4 DEF AgentStop

LEMMA AgentRestartOK ==
    ASSUME IndInv, NEW n \in Node, NEW i \in inbox[n], AgentRestart(n, i)
    PROVE  IndInv' /\ StateChange
  <1> DEFINE a == AppOf[cmds[i].sb]
  <1>1. UNCHANGED <<db, batch, tracked, route, counts>>
    BY DEF AgentRestart
  <1>2. faults' \in 0..MaxFaults /\ UNCHANGED <<gaveUp, crashes, timeouts, cmds>>
    BY <1>1 DEF counts, db, IndInv, TypeOK
  <1>3. CASE /\ Begin(n, i, "send", TRUE) /\ ctr' = [ctr EXCEPT ![n][a].up = TRUE]
             /\ Events(n, a, DieIfUp(n, a) \o <<"container_started">>)
    <2>1. evq' \in [Node -> EventSeq]
      BY <1>3, CmdFacts, DieIfUpType, EventsStep
    <2>2. ctr' \in [Node -> [App -> [cid : Cid, up : BOOLEAN]]]
      BY <1>3, CmdFacts, ContainerStep
    <2> QED BY <1>1, <1>2, <1>3, <2>1, <2>2, BeginStep, AgentCore
  <1>4. CASE Begin(n, i, "send", FALSE) /\ UNCHANGED <<ctr, evq>>
    <2>1. evq' \in [Node -> EventSeq] /\ ctr' \in [Node -> [App -> [cid : Cid, up : BOOLEAN]]]
      BY <1>4 DEF IndInv, TypeOK, EventSeq
    <2> QED BY <1>1, <1>2, <1>4, <2>1, BeginStep, AgentCore
  <1> QED BY <1>3, <1>4 DEF AgentRestart

LEMMA AgentExpiredOK ==
    ASSUME IndInv, NEW n \in Node, NEW i \in inbox[n], AgentExpired(n, i)
    PROVE  IndInv' /\ StateChange
  <1>1. /\ Begin(n, i, "send", FALSE) /\ faults < MaxFaults /\ faults' = faults + 1
        /\ UNCHANGED <<db, batch, tracked, ctr, evq, route, gaveUp, crashes, timeouts>>
    BY DEF AgentExpired
  <1>2. evq' \in [Node -> EventSeq] /\ ctr' \in [Node -> [App -> [cid : Cid, up : BOOLEAN]]]
    BY <1>1 DEF IndInv, TypeOK, EventSeq
  <1> QED
    BY <1>1, <1>2, FaultCount, BeginStep, AgentCore DEF db

LEMMA AgentTrackOK ==
    ASSUME IndInv, NEW n \in Node, AgentTrack(n)
    PROVE  IndInv' /\ StateChange
  <1> DEFINE k == call[Ack(n)]
  <1>1. /\ k.pc = "created" /\ Step(Ack(n), "send")
        /\ tracked' = [tracked EXCEPT ![n] = @ \cup {k.sb}]
        /\ UNCHANGED <<row, cmds, healthy, batch, inbox, ctr, evq, route, counts>>
    BY DEF AgentTrack, At, db
  <1>2. k.cmd \in 1..Len(cmds) /\ cmds[k.cmd].sb = k.sb
    BY <1>1 DEF IndInv, AckInv, AckOK
  <1>3. k.sb \in Refs /\ k.sb \in Sandbox
    <2>1. cmds[k.cmd] \in Command
      BY <1>2 DEF IndInv, TypeOK
    <2> QED BY <1>2, <2>1 DEF Refs, Command
  <1>4. /\ call' \in [Proc -> Call] /\ Moved(Ack(n)) /\ call'[Ack(n)].pc = "send"
        /\ call'[Ack(n)].sb = k.sb /\ call'[Ack(n)].cmd = k.cmd
    BY <1>1, StepFacts, ProcFacts DEF Pc
  <1>5. TypeOK'
    BY <1>1, <1>3, <1>4 DEF IndInv, TypeOK, counts
  <1>6. AgentInv'
    <2>1. Refs' = Refs
      BY <1>1 DEF Refs
    <2>2. \A m \in Node : tracked'[m] \subseteq tracked[m] \cup {k.sb}
      BY <1>1 DEF IndInv, TypeOK
    <2> QED BY <1>1, <1>3, <2>1, <2>2 DEF IndInv, AgentInv
  <1>7. AckOK(call[Ack(n)])'
    BY <1>1, <1>2, <1>4 DEF AckOK, AckPc
  <1> QED
    BY <1>1, <1>4, <1>5, <1>6, <1>7, SameRow, SameTable, AckCore

LEMMA AgentUntrackOK ==
    ASSUME IndInv, NEW n \in Node, AgentUntrack(n)
    PROVE  IndInv' /\ StateChange
  <1> DEFINE k == call[Ack(n)]
  <1>1. /\ k.pc = "stopped" /\ Step(Ack(n), "send")
        /\ tracked' = [tracked EXCEPT ![n] = @ \ {k.sb}]
        /\ UNCHANGED <<row, cmds, healthy, batch, inbox, ctr, evq, route, counts>>
    BY DEF AgentUntrack, At, db
  <1>2. k.cmd \in 1..Len(cmds) /\ cmds[k.cmd].sb = k.sb
    BY <1>1 DEF IndInv, AckInv, AckOK
  <1>3. /\ call' \in [Proc -> Call] /\ Moved(Ack(n)) /\ call'[Ack(n)].pc = "send"
        /\ call'[Ack(n)].sb = k.sb /\ call'[Ack(n)].cmd = k.cmd
    BY <1>1, StepFacts, ProcFacts DEF Pc
  <1>4. TypeOK'
    BY <1>1, <1>3 DEF IndInv, TypeOK, counts
  <1>5. AgentInv'
    <2>1. Refs' = Refs
      BY <1>1 DEF Refs
    <2>2. \A m \in Node : tracked'[m] \subseteq tracked[m]
      BY <1>1 DEF IndInv, TypeOK
    <2> QED BY <1>1, <2>1, <2>2 DEF IndInv, AgentInv
  <1>6. AckOK(call[Ack(n)])'
    BY <1>1, <1>2, <1>3 DEF AckOK, AckPc
  <1> QED
    BY <1>1, <1>3, <1>4, <1>5, <1>6, SameRow, SameTable, AckCore

-----------------------------------------------------------------------------
(* HandleAck. *)

\* A step of HandleAck: the agents' own state stays.
LEMMA HandleAckCore ==
    ASSUME IndInv, NEW n \in Node, UNCHANGED <<healthy, batch, agents, counts>>,
           RowStep(Ack(n)), row' \in [Sandbox -> Row],
           TableGrows, Bounded', cmds' \in Seq(Command),
           call' \in [Proc -> Call], Moved(Ack(n)), AckOK(call[Ack(n)])',
           route' \in [App -> [node : Node \cup {NoNode}, cid : Cid]]
    PROVE  IndInv' /\ StateChange
  <1>1. TypeOK'
    BY DEF IndInv, TypeOK, agents, counts
  <1> QED
    BY <1>1, SameAgents, AckCore DEF agents

LEMMA SameRoute ==
    ASSUME IndInv, UNCHANGED route
    PROVE  route' \in [App -> [node : Node \cup {NoNode}, cid : Cid]]
  BY DEF IndInv, TypeOK

LEMMA AckReturn ==
    ASSUME IndInv, NEW n \in Node, Return(Ack(n))
    PROVE  AckOK(call[Ack(n)])'
  BY ReturnFacts, ProcFacts DEF AckOK, AckPc

\* The sandbox and the command an ack is about.
LEMMA AckFacts ==
    ASSUME IndInv, NEW n \in Node, call[Ack(n)].pc # "idle"
    PROVE  /\ call[Ack(n)] \in Call
           /\ call[Ack(n)].cmd \in 1..Len(cmds)
           /\ cmds[call[Ack(n)].cmd] \in Command
           /\ cmds[call[Ack(n)].cmd].sb = call[Ack(n)].sb
           /\ call[Ack(n)].sb \in Sandbox /\ call[Ack(n)].sb \in Refs
  <1>1. call[Ack(n)] \in Call
    BY ProcFacts DEF IndInv, TypeOK
  <1>2. call[Ack(n)].cmd \in 1..Len(cmds) /\ cmds[call[Ack(n)].cmd].sb = call[Ack(n)].sb
    BY DEF IndInv, AckInv, AckOK
  <1>3. cmds[call[Ack(n)].cmd] \in Command
    BY <1>2 DEF IndInv, TypeOK
  <1>4. cmds[call[Ack(n)].cmd].sb \in Sandbox
    BY <1>3 DEF Command
  <1>5. cmds[call[Ack(n)].cmd].sb \in Refs
    BY <1>2 DEF Refs
  <1> QED BY <1>1, <1>2, <1>3, <1>4, <1>5

AckPc2 == {"ack_reread", "ack_persist", "ack_refetch", "ack_route", "ack_reset",
           "ack_done"}

\* HandleAck moves on within itself; only ack_cas asks for more.
LEMMA AckStepFacts ==
    ASSUME IndInv, NEW n \in Node, call[Ack(n)].pc # "idle", UNCHANGED cmds,
           NEW pc \in AckPc2, Step(Ack(n), pc)
    PROVE  call' \in [Proc -> Call] /\ Moved(Ack(n)) /\ AckOK(call[Ack(n)])'
  <1>1. pc \in Pc /\ pc \in AckPc /\ pc # "ack_cas"
    BY DEF AckPc2, Pc, AckPc
  <1>2. /\ call' \in [Proc -> Call] /\ Moved(Ack(n)) /\ call'[Ack(n)].pc = pc
        /\ call'[Ack(n)].sb = call[Ack(n)].sb /\ call'[Ack(n)].cmd = call[Ack(n)].cmd
    BY <1>1, StepFacts, ProcFacts
  <1> QED
    BY <1>1, <1>2, AckFacts DEF AckOK

\* HandleAck reads the row, again or for the first time.
LEMMA AckReadingFacts ==
    ASSUME IndInv, NEW n \in Node, call[Ack(n)].pc # "idle", UNCHANGED cmds,
           NEW pc \in AckPc2 \cup {"ack_cas"}, NEW nxt \in State \cup {"none"},
           pc = "ack_cas" => <<row[call[Ack(n)].sb].state, nxt>> \in AckEdge,
           Become(Ack(n), Reading(pc, call[Ack(n)].sb, nxt, call[Ack(n)].cmd,
                                  call[Ack(n)].ok))
    PROVE  call' \in [Proc -> Call] /\ Moved(Ack(n)) /\ AckOK(call[Ack(n)])'
  <1> DEFINE s == call[Ack(n)].sb
             i == call[Ack(n)].cmd
             b == call[Ack(n)].ok
             k == Reading(pc, s, nxt, i, b)
  <1>1. s \in Sandbox /\ i \in Cid /\ b \in BOOLEAN
    BY AckFacts DEF Call
  <1>2. pc \in Pc /\ pc \in AckPc
    BY DEF AckPc2, Pc, AckPc
  <1>3. row[s] \in Row
    BY <1>1 DEF IndInv, TypeOK
  <1>4. /\ k \in Call /\ k.pc = pc /\ k.sb = s /\ k.cmd = i
        /\ k.st = row[s].state /\ k.nxt = nxt
    BY <1>1, <1>2, <1>3 DEF Reading, Call, Row
  <1> HIDE DEF k
  <1>5. call' \in [Proc -> Call] /\ Moved(Ack(n)) /\ call'[Ack(n)] = k
    BY <1>4, NewCall, ProcFacts DEF k
  <1>6. AckOK(call[Ack(n)])'
    BY <1>2, <1>4, <1>5, AckFacts DEF AckOK
  <1> QED BY <1>5, <1>6

LEMMA AfterTransitionPc ==
    ASSUME NEW nxt
    PROVE  AfterTransition(nxt) \in AckPc2
  BY DEF AfterTransition, AckPc2

\* What the state machine says of the three events of an ack.
LEMMA AckEventEdge ==
    ASSUME NEW type \in CmdType, NEW ok \in BOOLEAN, NEW st,
           AckEvent(type, ok, st) # "none",
           NEW to \in NextState(st, AckEvent(type, ok, st))
    PROVE  to \in State /\ <<st, to>> \in AckEdge
  <1>1. \/ AckEvent(type, ok, st) = "started" \/ AckEvent(type, ok, st) = "start_failed"
        \/ st = "destroying" /\ AckEvent(type, ok, st) = "destroyed"
    BY DEF AckEvent, CmdType
  <1>2. ASSUME NEW ev \in {"started", "start_failed"}, NEW t \in NextState(st, ev)
        PROVE  t \in State /\ <<st, t>> \in AckEdge
    BY DEF NextState, ValidTransitions, AckEdge, State
  <1>3. ASSUME NEW t \in NextState("destroying", "destroyed")
        PROVE  t \in State /\ <<"destroying", t>> \in AckEdge
    BY DEF NextState, ValidTransitions, AckEdge, State
  <1> QED BY <1>1, <1>2, <1>3

LEMMA AckReadOK ==
    ASSUME IndInv, NEW n \in Node, AckRead(n)
    PROVE  IndInv' /\ StateChange
  <1> DEFINE k  == call[Ack(n)]
             st == row[k.sb].state
             ev == AckEvent(cmds[k.cmd].type, k.ok, st)
  <1>1. /\ k.pc = "send"
        /\ UNCHANGED <<row, cmds, healthy, batch, agents, route, counts>>
    BY DEF AckRead, At, db
  <1>2. cmds[k.cmd].type \in CmdType /\ k.ok \in BOOLEAN /\ k.sb \in Sandbox
    BY <1>1, AckFacts DEF Command, Call
  <1>3. call' \in [Proc -> Call] /\ Moved(Ack(n)) /\ AckOK(call[Ack(n)])'
    <2>1. CASE Step(Ack(n), "ack_done")
      BY <1>1, <2>1, AckStepFacts DEF AckPc2
    <2>2. ASSUME ev # "none", NEW to \in NextState(st, ev),
                 Become(Ack(n), Reading("ack_cas", k.sb, to, k.cmd, k.ok))
          PROVE  call' \in [Proc -> Call] /\ Moved(Ack(n)) /\ AckOK(call[Ack(n)])'
      <3>1. to \in State /\ <<st, to>> \in AckEdge
        BY <1>2, <2>2, AckEventEdge
      <3> QED BY <1>1, <2>2, <3>1, AckReadingFacts
    <2>3. CASE /\ ev # "none" /\ st = AckTarget(ev)
               /\ Become(Ack(n), Reading(AfterTransition(st), k.sb, st, k.cmd, k.ok))
      <3>1. ev \in {"started", "start_failed", "destroyed"}
        BY <1>2, <2>3 DEF AckEvent, CmdType
      <3>2. AckTarget(ev) \in State
        BY <3>1 DEF AckTarget, State
      <3>3. AfterTransition(st) \in AckPc2 /\ AfterTransition(st) # "ack_cas"
        BY AfterTransitionPc DEF AckPc2
      <3> QED BY <1>1, <2>3, <3>2, <3>3, AckReadingFacts
    <2>4. CASE Return(Ack(n))
      BY <2>4, ReturnFacts, AckReturn, ProcFacts
    <2> QED BY <2>1, <2>2, <2>3, <2>4 DEF AckRead
  <1> QED
    BY <1>1, <1>3, SameRow, SameTable, SameRoute, HandleAckCore

LEMMA AckCasOK ==
    ASSUME IndInv, NEW n \in Node, AckCas(n)
    PROVE  IndInv' /\ StateChange
  <1> DEFINE k == call[Ack(n)]
  <1>1. /\ k.pc = "ack_cas" /\ UNCHANGED <<cmds, healthy, batch, agents, route, counts>>
    BY DEF AckCas, At
  <1>2. k.sb \in Sandbox /\ k.sb \in Refs /\ <<k.st, k.nxt>> \in AckEdge
    BY <1>1, AckFacts DEF IndInv, AckInv, AckOK
  <1>3. CASE UNCHANGED row /\ Step(Ack(n), "ack_reread")
    <2>1. call' \in [Proc -> Call] /\ Moved(Ack(n)) /\ AckOK(call[Ack(n)])'
      BY <1>1, <1>3, AckStepFacts DEF AckPc2
    <2> QED BY <1>1, <1>3, <2>1, SameRow, SameTable, SameRoute, HandleAckCore
  <1>4. CASE /\ StateIs(k.sb, k.st) /\ SetState(k.sb, k.nxt)
             /\ Step(Ack(n), AfterTransition(k.nxt))
    <2>1. call' \in [Proc -> Call] /\ Moved(Ack(n)) /\ AckOK(call[Ack(n)])'
      BY <1>1, <1>4, AfterTransitionPc, AckStepFacts
    <2>2. /\ k.nxt \in State /\ StateStep(k.st, k.nxt) /\ k.st # "absent"
          /\ k.nxt \in Placed => row[k.sb].node \in Node
      BY <1>2, <1>4, EdgeFacts DEF StateIs, IndInv, RowInv, RowOK
    <2>3. k.nxt # "starting"
      BY <1>2 DEF AckEdge
    <2>4. RowStep(Ack(n)) /\ row' \in [Sandbox -> Row]
      BY <1>2, <1>4, <2>2, <2>3, SetStateStep DEF StateIs
    <2> QED BY <1>1, <2>1, <2>4, SameTable, SameRoute, HandleAckCore
  <1> QED BY <1>3, <1>4 DEF AckCas

LEMMA AckRereadOK ==
    ASSUME IndInv, NEW n \in Node, AckReread(n)
    PROVE  IndInv' /\ StateChange
  <1> DEFINE k == call[Ack(n)]
  <1>1. /\ k.pc = "ack_reread"
        /\ UNCHANGED <<row, cmds, healthy, batch, agents, route, counts>>
    BY DEF AckReread, At, db
  <1>2. k.nxt \in State \cup {"none"}
    BY <1>1, AckFacts DEF Call
  <1>3. call' \in [Proc -> Call] /\ Moved(Ack(n)) /\ AckOK(call[Ack(n)])'
    <2>1. CASE Become(Ack(n), Reading(AfterTransition(k.nxt), k.sb, k.nxt, k.cmd, k.ok))
      <3>1. AfterTransition(k.nxt) \in AckPc2 /\ AfterTransition(k.nxt) # "ack_cas"
        BY AfterTransitionPc DEF AckPc2
      <3> QED BY <1>1, <1>2, <2>1, <3>1, AckReadingFacts
    <2>2. CASE Return(Ack(n))
      BY <2>2, ReturnFacts, AckReturn, ProcFacts
    <2> QED BY <2>1, <2>2 DEF AckReread
  <1> QED
    BY <1>1, <1>3, SameRow, SameTable, SameRoute, HandleAckCore

\* The columns of a row that no handler's condition looks at.
LEMMA CidRow ==
    ASSUME IndInv, NEW s \in Sandbox, NEW c \in Cid, NEW p,
           row' = [row EXCEPT ![s].cid = c]
    PROVE  RowStep(p) /\ row' \in [Sandbox -> Row]
  <1>1. row[s] \in Row
    BY DEF IndInv, TypeOK
  <1>2. [row[s] EXCEPT !.cid = c] \in Row
    BY <1>1 DEF Row
  <1>3. row' \in [Sandbox -> Row]
    BY <1>2 DEF IndInv, TypeOK
  <1>4. \A t \in Sandbox : row'[t].state = row[t].state /\ row'[t].node = row[t].node
    BY DEF IndInv, TypeOK, Row
  <1> QED BY <1>3, <1>4, RowDetail

LEMMA FailsRow ==
    ASSUME IndInv, NEW s \in Sandbox, NEW f \in Nat, NEW p,
           row' = [row EXCEPT ![s].fails = f]
    PROVE  RowStep(p) /\ row' \in [Sandbox -> Row]
  <1>1. row[s] \in Row
    BY DEF IndInv, TypeOK
  <1>2. [row[s] EXCEPT !.fails = f] \in Row
    BY <1>1 DEF Row
  <1>3. row' \in [Sandbox -> Row]
    BY <1>2 DEF IndInv, TypeOK
  <1>4. \A t \in Sandbox : row'[t].state = row[t].state /\ row'[t].node = row[t].node
    BY DEF IndInv, TypeOK, Row
  <1> QED BY <1>3, <1>4, RowDetail

LEMMA AckPersistOK ==
    ASSUME IndInv, NEW n \in Node, AckPersist(n)
    PROVE  IndInv' /\ StateChange
  <1> DEFINE k == call[Ack(n)]
  <1>1. /\ k.pc = "ack_persist" /\ UNCHANGED <<cmds, healthy, batch, agents, route, counts>>
        /\ row' = [row EXCEPT ![k.sb].cid = k.cmd] /\ Step(Ack(n), "ack_refetch")
    BY DEF AckPersist, At
  <1>2. call' \in [Proc -> Call] /\ Moved(Ack(n)) /\ AckOK(call[Ack(n)])'
    BY <1>1, AckStepFacts DEF AckPc2
  <1>3. k.sb \in Sandbox /\ k.cmd \in Cid
    BY <1>1, AckFacts DEF Call
  <1> QED
    BY <1>1, <1>2, <1>3, CidRow, SameTable, SameRoute, HandleAckCore

LEMMA AckRefetchOK ==
    ASSUME IndInv, NEW n \in Node, AckRefetch(n)
    PROVE  IndInv' /\ StateChange
  <1> DEFINE k == call[Ack(n)]
  <1>1. /\ k.pc = "ack_refetch"
        /\ UNCHANGED <<row, cmds, healthy, batch, agents, route, counts>>
        /\ Become(Ack(n), Reading("ack_route", k.sb, k.nxt, k.cmd, k.ok))
    BY DEF AckRefetch, At, db
  <1>2. /\ k.nxt \in State \cup {"none"}
        /\ "ack_route" \in AckPc2 \cup {"ack_cas"} /\ "ack_route" # "ack_cas"
    BY <1>1, AckFacts DEF Call, AckPc2
  <1>3. call' \in [Proc -> Call] /\ Moved(Ack(n)) /\ AckOK(call[Ack(n)])'
    BY <1>1, <1>2, AckReadingFacts
  <1> QED
    BY <1>1, <1>3, SameRow, SameTable, SameRoute, HandleAckCore

\* An app's route changes.
LEMMA RouteStep ==
    ASSUME IndInv, NEW a \in App, NEW n \in Node \cup {NoNode}, NEW c \in Cid,
           route' = [route EXCEPT ![a] = [node |-> n, cid |-> c]]
    PROVE  route' \in [App -> [node : Node \cup {NoNode}, cid : Cid]]
  BY DEF IndInv, TypeOK

LEMMA NoRouteStep ==
    ASSUME IndInv, NEW s \in Sandbox, route' = [route EXCEPT ![AppOf[s]] = NoRoute]
    PROVE  route' \in [App -> [node : Node \cup {NoNode}, cid : Cid]]
  BY ZeroCid, RouteStep, ConstantsAssumption DEF NoRoute

LEMMA AckRouteOK ==
    ASSUME IndInv, NEW n \in Node, AckRoute(n)
    PROVE  IndInv' /\ StateChange
  <1> DEFINE k == call[Ack(n)]
  <1>1. /\ k.pc = "ack_route" /\ UNCHANGED <<row, cmds, healthy, batch, agents, counts>>
    BY DEF AckRoute, At, db
  <1>2. PICK pc \in AckPc2 : Step(Ack(n), pc)
    BY DEF AckRoute, AckPc2
  <1>3. call' \in [Proc -> Call] /\ Moved(Ack(n)) /\ AckOK(call[Ack(n)])'
    BY <1>1, <1>2, AckStepFacts
  <1>4. k.sb \in Sandbox /\ k.cid \in Cid /\ k.node \in Node \cup {NoNode}
    BY <1>1, AckFacts DEF Call
  <1>5. route' \in [App -> [node : Node \cup {NoNode}, cid : Cid]]
    <2>1. CASE route' = [route EXCEPT ![AppOf[k.sb]] = [node |-> k.node, cid |-> k.cid]]
      BY <1>4, <2>1, RouteStep, ConstantsAssumption
    <2>2. CASE route' = [route EXCEPT ![AppOf[k.sb]] = NoRoute]
      BY <1>4, <2>2, NoRouteStep
    <2>3. CASE route' = route
      BY <2>3, SameRoute
    <2> QED BY <2>1, <2>2, <2>3 DEF AckRoute
  <1> QED
    BY <1>1, <1>3, <1>5, SameRow, SameTable, HandleAckCore

LEMMA AckResetOK ==
    ASSUME IndInv, NEW n \in Node, AckReset(n)
    PROVE  IndInv' /\ StateChange
  <1> DEFINE k == call[Ack(n)]
  <1>1. /\ k.pc = "ack_reset" /\ UNCHANGED <<cmds, healthy, batch, agents, route, counts>>
        /\ row' = [row EXCEPT ![k.sb].fails = 0] /\ Step(Ack(n), "ack_done")
    BY DEF AckReset, At
  <1>2. call' \in [Proc -> Call] /\ Moved(Ack(n)) /\ AckOK(call[Ack(n)])'
    BY <1>1, AckStepFacts DEF AckPc2
  <1>3. RowStep(Ack(n)) /\ row' \in [Sandbox -> Row]
    BY <1>1, AckFacts, FailsRow
  <1> QED
    BY <1>1, <1>2, <1>3, SameTable, SameRoute, HandleAckCore

LEMMA AckDoneOK ==
    ASSUME IndInv, NEW n \in Node, AckDone(n)
    PROVE  IndInv' /\ StateChange
  <1> DEFINE k == call[Ack(n)]
  <1>1. /\ k.pc = "ack_done" /\ UNCHANGED <<row, healthy, batch, agents, route, counts>>
        /\ Return(Ack(n))
    BY DEF AckDone, At
  <1>2. PICK st \in CmdStatus : cmds' = [cmds EXCEPT ![k.cmd].status = st]
    BY DEF AckDone, CmdStatus
  <1>3. k.cmd \in 1..Len(cmds) /\ cmds[k.cmd] \in Command
    BY <1>1, AckFacts
  <1>4. /\ [cmds[k.cmd] EXCEPT !.status = st] \in Command
        /\ [cmds[k.cmd] EXCEPT !.status = st].sb = cmds[k.cmd].sb
    BY <1>3 DEF Command
  <1>5. cmds' \in Seq(Command) /\ Len(cmds') = Len(cmds)
    BY <1>2, <1>3, <1>4 DEF IndInv, TypeOK
  <1>6. \A i \in 1..Len(cmds) : cmds'[i].sb = cmds[i].sb
    BY <1>2, <1>3, <1>4 DEF IndInv, TypeOK
  <1>7. TableGrows /\ Bounded'
    BY <1>5, <1>6 DEF TableGrows, Bounded, IndInv, TypeOK
  <1> QED
    BY <1>1, <1>5, <1>7, SameRow, ReturnFacts, AckReturn, SameRoute, HandleAckCore, ProcFacts

-----------------------------------------------------------------------------
(* HandleEvent and HandleCrash. *)

\* A step of HandleEvent: the commands table may grow, a row may change.
LEMMA EvtCore ==
    ASSUME IndInv, NEW n \in Node, UNCHANGED <<healthy, batch, inbox, tracked, ctr>>,
           UNCHANGED <<crashes, timeouts, faults>>, gaveUp' \subseteq Sandbox,
           RowStep(Evt(n)), row' \in [Sandbox -> Row],
           TableGrows, Bounded', cmds' \in Seq(Command),
           call' \in [Proc -> Call], Moved(Evt(n)),
           evq' \in [Node -> EventSeq],
           route' \in [App -> [node : Node \cup {NoNode}, cid : Cid]],
           EvtOK(n, call[Evt(n)])',
           call'[Evt(n)].pc \in CrashPc =>
              \/ call[Evt(n)].pc \in CrashPc /\ call'[Evt(n)].sb = call[Evt(n)].sb
              \/ row[call'[Evt(n)].sb].state = "running"
    PROVE  IndInv' /\ StateChange
  <1>1. TypeOK'
    BY DEF IndInv, TypeOK, EventSeq
  <1>2. \A m \in Node : Evt(n) = Evt(m) => m = n
    BY ProcFacts
  <1> QED
    BY <1>1, <1>2, SameAgents, SameBatch, Preserve, ProcFacts

LEMMA SameEvents ==
    ASSUME IndInv, UNCHANGED evq
    PROVE  evq' \in [Node -> EventSeq]
  BY DEF IndInv, TypeOK, EventSeq

LEMMA EvtReturn ==
    ASSUME IndInv, NEW n \in Node, Return(Evt(n))
    PROVE  /\ call' \in [Proc -> Call] /\ Moved(Evt(n))
           /\ EvtOK(n, call[Evt(n)])' /\ call'[Evt(n)].pc \notin CrashPc
  <1>1. call' \in [Proc -> Call] /\ Moved(Evt(n)) /\ call'[Evt(n)].pc = "idle"
    BY ReturnFacts, ProcFacts
  <1> QED BY <1>1 DEF EvtOK, EvtPc, CrashPc

\* What the state machine says of the events of a container.
LEMMA MachineEventEdge ==
    ASSUME NEW type, NEW st, NEW to \in NextState(st, MachineEvent(type))
    PROVE  to \in State /\ <<st, to>> \in EventEdge /\ st \in Placed
  <1>1. MachineEvent(type) \in {"started", "container_exited"}
    BY DEF MachineEvent
  <1>2. ASSUME NEW ev \in {"started", "container_exited"}, NEW t \in NextState(st, ev)
        PROVE  t \in State /\ <<st, t>> \in EventEdge /\ st \in Placed
    BY DEF NextState, ValidTransitions, EventEdge, State, Placed
  <1> QED BY <1>1, <1>2

LEMMA EventReadOK ==
    ASSUME IndInv, NEW n \in Node, EventRead(n)
    PROVE  IndInv' /\ StateChange
  <1> DEFINE e == Head(evq[n])
  <1>1. /\ UNCHANGED <<row, cmds, healthy, batch, inbox, tracked, ctr, route>>
        /\ UNCHANGED <<gaveUp, crashes, timeouts, faults>>
        /\ evq[n] # <<>> /\ evq' = [evq EXCEPT ![n] = Tail(@)]
    BY DEF EventRead, db, counts
  <1>2. evq' \in [Node -> EventSeq]
    <2>1. evq[n] \in EventSeq
      BY DEF IndInv, TypeOK, EventSeq
    <2>2. Tail(evq[n]) \in EventSeq
      BY <1>1, <2>1 DEF EventSeq
    <2> QED BY <1>1, <2>2 DEF IndInv, TypeOK, EventSeq
  <1>3. CASE UNCHANGED call
    <2>1. TypeOK'
      BY <1>1, <1>2, <1>3 DEF IndInv, TypeOK, EventSeq
    <2> QED
      BY <1>1, <1>3, <2>1, SameRow, SameTable, SameBatch, SameAgents, NoCall
  <1>4. ASSUME NEW s \in tracked[n],
               NEW to \in NextState(row[s].state, MachineEvent(e.type)),
               Become(Evt(n), ReadRow("event_cas", s, to))
        PROVE  IndInv' /\ StateChange
    <2>1. s \in Sandbox /\ s \in Refs
      BY DEF IndInv, TypeOK, AgentInv
    <2>2. to \in State /\ <<row[s].state, to>> \in EventEdge /\ row[s].state \in Placed
      BY MachineEventEdge
    <2>3. row[s].node \in Node
      BY <2>1, <2>2 DEF IndInv, RowInv, RowOK
    <2>4. /\ call' \in [Proc -> Call] /\ Moved(Evt(n)) /\ call'[Evt(n)].pc = "event_cas"
          /\ call'[Evt(n)].sb = s /\ call'[Evt(n)].nxt = to
          /\ call'[Evt(n)].st = row[s].state /\ call'[Evt(n)].node = row[s].node
      BY <1>4, <2>1, <2>2, ReadRowFacts, ProcFacts
    <2>5. Refs' = Refs
      BY <1>1 DEF Refs
    <2>6. EvtOK(n, call[Evt(n)])' /\ call'[Evt(n)].pc \notin CrashPc
      BY <2>1, <2>2, <2>3, <2>4, <2>5 DEF EvtOK, EvtPc, CrashPc
    <2> QED
      BY <1>1, <1>2, <2>4, <2>6, SameRow, SameTable, SameRoute, EvtCore DEF IndInv, TypeOK
  <1> QED
    BY <1>3, <1>4 DEF EventRead

\* The row of a handler past event_cas, and the handler itself.
LEMMA EvtFacts ==
    ASSUME IndInv, NEW n \in Node, call[Evt(n)].pc # "idle"
    PROVE  /\ EvtOK(n, call[Evt(n)])
           /\ call[Evt(n)] \in Call /\ row[call[Evt(n)].sb] \in Row
           /\ call[Evt(n)].sb \in Sandbox /\ call[Evt(n)].node \in Node
           /\ call[Evt(n)].sb \in Refs
  <1>1. EvtOK(n, call[Evt(n)])
    BY DEF IndInv, EvtInv
  <1> QED
    BY <1>1, ProcFacts DEF EvtOK, IndInv, TypeOK

\* A handler goes on within HandleCrash while its row stays where it may be.
LEMMA CrashStep ==
    ASSUME IndInv, NEW n \in Node, call[Evt(n)].pc \in CrashPc, UNCHANGED cmds,
           NEW pc \in CrashPc, Step(Evt(n), pc),
           row'[call[Evt(n)].sb].state = row[call[Evt(n)].sb].state
    PROVE  /\ call' \in [Proc -> Call] /\ Moved(Evt(n)) /\ EvtOK(n, call[Evt(n)])'
           /\ call'[Evt(n)].sb = call[Evt(n)].sb
  <1>1. pc \in Pc /\ pc \in EvtPc /\ pc # "event_cas"
    BY DEF CrashPc, Pc, EvtPc
  <1>2. /\ call' \in [Proc -> Call] /\ Moved(Evt(n)) /\ call'[Evt(n)].pc = pc
        /\ call'[Evt(n)].sb = call[Evt(n)].sb /\ call'[Evt(n)].st = call[Evt(n)].st
        /\ call'[Evt(n)].node = call[Evt(n)].node
    BY <1>1, StepFacts, ProcFacts
  <1>3. Refs' = Refs
    BY DEF Refs
  <1>4. call[Evt(n)].pc # "idle"
    BY DEF CrashPc
  <1>5. \A m \in Node : m # n => call'[Evt(m)] = call[Evt(m)]
    BY <1>2, ProcFacts DEF Moved
  <1> QED
    BY <1>1, <1>2, <1>3, <1>4, <1>5, EvtFacts DEF EvtOK

LEMMA EventCasOK ==
    ASSUME IndInv, NEW n \in Node, EventCas(n)
    PROVE  IndInv' /\ StateChange
  <1> DEFINE k == call[Evt(n)]
  <1>1. /\ k.pc = "event_cas" /\ UNCHANGED <<cmds, healthy, batch, agents, route, counts>>
    BY DEF EventCas, At
  <1>2. k.sb \in Sandbox /\ k.sb \in Refs /\ k.node \in Node /\ <<k.st, k.nxt>> \in EventEdge
    BY <1>1, EvtFacts DEF EvtOK
  <1>3. /\ UNCHANGED <<healthy, batch, inbox, tracked, ctr, crashes, timeouts, faults>>
        /\ gaveUp' \subseteq Sandbox /\ UNCHANGED evq
    BY <1>1 DEF agents, counts, IndInv, TypeOK
  <1>4. CASE Return(Evt(n)) /\ UNCHANGED row
    BY <1>1, <1>3, <1>4, EvtReturn, SameRow, SameTable, SameRoute, SameEvents, EvtCore
  <1>5. CASE StateIs(k.sb, k.st) /\ SetState(k.sb, k.nxt)
             /\ IF k.nxt = "restarting" THEN Step(Evt(n), "event_route") ELSE Return(Evt(n))
    <2>1. /\ k.nxt \in State /\ StateStep(k.st, k.nxt) /\ k.st # "absent"
          /\ k.nxt \in Placed => row[k.sb].node \in Node
      BY <1>2, <1>5, EdgeFacts DEF StateIs, IndInv, RowInv, RowOK
    <2>2. k.nxt # "starting" /\ (k.nxt = "restarting" => k.st = "running")
      BY <1>2 DEF EventEdge
    <2>3. RowStep(Evt(n)) /\ row' \in [Sandbox -> Row]
      BY <1>2, <1>5, <2>1, <2>2, SetStateStep DEF StateIs
    <2>4. CASE k.nxt # "restarting"
      BY <1>1, <1>3, <1>5, <2>3, <2>4, EvtReturn, SameTable, SameRoute, SameEvents, EvtCore
    <2>5. CASE k.nxt = "restarting"
      <3>1. Step(Evt(n), "event_route") /\ "event_route" \in Pc
        BY <1>5, <2>5 DEF Pc
      <3>2. /\ call' \in [Proc -> Call] /\ Moved(Evt(n)) /\ call'[Evt(n)].pc = "event_route"
            /\ call'[Evt(n)].sb = k.sb /\ call'[Evt(n)].st = k.st
            /\ call'[Evt(n)].node = k.node
        BY <3>1, StepFacts, ProcFacts
      <3>3. row[k.sb].state = "running" /\ row'[k.sb].state = "restarting"
        BY <1>2, <1>5, <2>2, <2>5 DEF StateIs, SetState, IndInv, TypeOK, Row
      <3>4. ASSUME NEW m \in Node, m # n, call'[Evt(m)].pc \in CrashPc
            PROVE  call'[Evt(m)].sb # k.sb
        <4>1. call'[Evt(m)] = call[Evt(m)]
          BY <3>2, <3>4, ProcFacts DEF Moved
        <4>2. EvtOK(m, call[Evt(m)])
          BY DEF IndInv, EvtInv
        <4> QED BY <3>3, <3>4, <4>1, <4>2 DEF EvtOK
      <3>5. Refs' = Refs
        BY <1>1 DEF Refs
      <3>6. EvtOK(n, call[Evt(n)])'
        BY <1>2, <2>2, <2>5, <3>2, <3>3, <3>4, <3>5 DEF EvtOK, EvtPc, CrashPc
      <3> QED
        BY <1>1, <1>3, <2>3, <3>2, <3>3, <3>6, SameTable, SameRoute, SameEvents, EvtCore
    <2> QED BY <2>4, <2>5
  <1> QED BY <1>4, <1>5 DEF EventCas

LEMMA EventRouteOK ==
    ASSUME IndInv, NEW n \in Node, EventRoute(n)
    PROVE  IndInv' /\ StateChange
  <1> DEFINE k == call[Evt(n)]
  <1>1. /\ k.pc = "event_route" /\ Step(Evt(n), "crash_inc")
        /\ route' = [route EXCEPT ![AppOf[k.sb]] = NoRoute]
        /\ UNCHANGED <<row, cmds, healthy, batch, agents, counts>>
    BY DEF EventRoute, At, db
  <1>2. /\ UNCHANGED <<healthy, batch, inbox, tracked, ctr, crashes, timeouts, faults>>
        /\ gaveUp' \subseteq Sandbox /\ UNCHANGED evq
    BY <1>1 DEF agents, counts, IndInv, TypeOK
  <1>3. k.pc \in CrashPc /\ "crash_inc" \in CrashPc
    BY <1>1 DEF CrashPc
  <1>4. /\ call' \in [Proc -> Call] /\ Moved(Evt(n)) /\ EvtOK(n, call[Evt(n)])'
        /\ call'[Evt(n)].sb = k.sb
    BY <1>1, <1>3, CrashStep
  <1>5. route' \in [App -> [node : Node \cup {NoNode}, cid : Cid]]
    BY <1>1, EvtFacts, NoRouteStep
  <1> QED
    BY <1>1, <1>2, <1>3, <1>4, <1>5, SameRow, SameTable, SameEvents, EvtCore

LEMMA CrashIncOK ==
    ASSUME IndInv, NEW n \in Node, CrashInc(n)
    PROVE  IndInv' /\ StateChange
  <1> DEFINE k == call[Evt(n)]
  <1>1. /\ k.pc = "crash_inc" /\ UNCHANGED <<cmds, healthy, batch, agents, route, counts>>
        /\ row' = [row EXCEPT ![k.sb].fails = @ + 1]
    BY DEF CrashInc, At
  <1>2. PICK pc \in CrashPc : Step(Evt(n), pc)
    BY DEF CrashInc, CrashPc
  <1>3. /\ UNCHANGED <<healthy, batch, inbox, tracked, ctr, crashes, timeouts, faults>>
        /\ gaveUp' \subseteq Sandbox /\ UNCHANGED evq
    BY <1>1 DEF agents, counts, IndInv, TypeOK
  <1>4. k.pc \in CrashPc /\ k.sb \in Sandbox /\ row[k.sb] \in Row
    BY <1>1, EvtFacts DEF CrashPc
  <1>5. row[k.sb].fails + 1 \in Nat
    BY <1>4 DEF Row
  <1>6. row' = [row EXCEPT ![k.sb].fails = row[k.sb].fails + 1]
    BY <1>1, <1>4 DEF IndInv, TypeOK
  <1>7. RowStep(Evt(n)) /\ row' \in [Sandbox -> Row]
    BY <1>4, <1>5, <1>6, FailsRow
  <1>8. row'[k.sb].state = row[k.sb].state
    BY <1>1, <1>4 DEF IndInv, TypeOK, Row
  <1>9. /\ call' \in [Proc -> Call] /\ Moved(Evt(n)) /\ EvtOK(n, call[Evt(n)])'
        /\ call'[Evt(n)].sb = k.sb
    BY <1>1, <1>2, <1>4, <1>8, CrashStep
  <1> QED
    BY <1>1, <1>3, <1>4, <1>7, <1>9, SameTable, SameRoute, SameEvents, EvtCore

\* The compare-and-set on a state the row cannot be in any more: it never hits.
LEMMA CrashFailOK ==
    ASSUME IndInv, NEW n \in Node, CrashFail(n)
    PROVE  IndInv' /\ StateChange
  <1> DEFINE k == call[Evt(n)]
  <1>1. /\ k.pc = "crash_fail" /\ Return(Evt(n)) /\ gaveUp' = gaveUp \cup {k.sb}
        /\ UNCHANGED <<cmds, healthy, batch, agents, route, crashes, timeouts, faults>>
    BY DEF CrashFail, At
  <1>2. ~StateIs(k.sb, k.st) /\ k.sb \in Sandbox
    BY <1>1, EvtFacts DEF EvtOK, CrashPc, StateIs
  <1>3. UNCHANGED row
    BY <1>2 DEF CrashFail
  <1>4. /\ UNCHANGED <<inbox, tracked, ctr, evq>> /\ gaveUp' \subseteq Sandbox
    BY <1>1, <1>2 DEF agents, IndInv, TypeOK
  <1> QED
    BY <1>1, <1>3, <1>4, EvtReturn, SameRow, SameTable, SameRoute, SameEvents, EvtCore

LEMMA CrashCasOK ==
    ASSUME IndInv, NEW n \in Node, CrashCas(n)
    PROVE  IndInv' /\ StateChange
  <1> DEFINE k == call[Evt(n)]
  <1>1. /\ k.pc = "crash_cas" /\ UNCHANGED <<cmds, healthy, batch, agents, route, counts>>
    BY DEF CrashCas, At
  <1>2. /\ UNCHANGED <<healthy, batch, inbox, tracked, ctr, crashes, timeouts, faults>>
        /\ gaveUp' \subseteq Sandbox /\ UNCHANGED evq
    BY <1>1 DEF agents, counts, IndInv, TypeOK
  <1>3. k.sb \in Sandbox /\ k.sb \in Refs /\ k.node \in Node
    BY <1>1, EvtFacts
  <1>4. CASE Return(Evt(n)) /\ UNCHANGED row
    BY <1>1, <1>2, <1>4, EvtReturn, SameRow, SameTable, SameRoute, SameEvents, EvtCore
  <1>5. CASE /\ StateIs(k.sb, "restarting") /\ SetState(k.sb, "starting")
             /\ Step(Evt(n), "crash_cmd")
    <2>1. row[k.sb].node \in Node /\ StateStep("restarting", "starting") /\ "starting" \in State
      BY <1>3, <1>5, EdgeFacts DEF StateIs, IndInv, RowInv, RowOK, Placed
    <2>2. RowStep(Evt(n)) /\ row' \in [Sandbox -> Row]
      BY <1>1, <1>3, <1>5, <2>1, SetStateStep DEF StateIs
    <2>3. "crash_cmd" \in Pc
      BY DEF Pc
    <2>4. /\ call' \in [Proc -> Call] /\ Moved(Evt(n)) /\ call'[Evt(n)].pc = "crash_cmd"
          /\ call'[Evt(n)].sb = k.sb /\ call'[Evt(n)].node = k.node
      BY <1>5, <2>3, StepFacts, ProcFacts
    <2>5. Refs' = Refs
      BY <1>1 DEF Refs
    <2>6. EvtOK(n, call[Evt(n)])' /\ call'[Evt(n)].pc \notin CrashPc
      BY <1>3, <2>4, <2>5 DEF EvtOK, EvtPc, CrashPc
    <2> QED
      BY <1>1, <1>2, <2>2, <2>4, <2>6, SameTable, SameRoute, SameEvents, EvtCore
  <1> QED BY <1>4, <1>5 DEF CrashCas

LEMMA CrashCmdOK ==
    ASSUME IndInv, NEW n \in Node, CrashCmd(n)
    PROVE  IndInv' /\ StateChange
  <1> DEFINE k == call[Evt(n)]
  <1>1. /\ k.pc = "crash_cmd" /\ UNCHANGED <<row, healthy, batch, agents, route, counts>>
        /\ CreateCommand("start_sandbox", k.sb, k.node, 0) /\ Return(Evt(n))
    BY DEF CrashCmd, At
  <1>2. /\ UNCHANGED <<healthy, batch, inbox, tracked, ctr, crashes, timeouts, faults>>
        /\ gaveUp' \subseteq Sandbox /\ UNCHANGED evq
    BY <1>1 DEF agents, counts, IndInv, TypeOK
  <1>3. TableGrows /\ Bounded' /\ cmds' \in Seq(Command)
    BY <1>1, EvtFacts, ZeroCid, CreateCommandStep DEF CmdType
  <1> QED
    BY <1>1, <1>2, <1>3, EvtReturn, SameRow, SameRoute, SameEvents, EvtCore

-----------------------------------------------------------------------------
(* The idle reaper and the rescheduler. *)

\* A step of one of the two background passes.
LEMMA PassCore ==
    ASSUME IndInv, NEW p \in {Reaper, Monitor},
           UNCHANGED <<agents, gaveUp, crashes, faults>>,
           timeouts' \in 0..MaxTimeouts, healthy' \subseteq Node,
           RowStep(p), row' \in [Sandbox -> Row],
           TableGrows, Bounded', cmds' \in Seq(Command),
           call' \in [Proc -> Call], Moved(p),
           batch' \in [{Reaper, Monitor} -> SUBSET Snapshot], BatchInv',
           route' \in [App -> [node : Node \cup {NoNode}, cid : Cid]],
           p = Reaper => ReaperOK(call[p])',
           p = Monitor => MonitorOK(call[p])'
    PROVE  IndInv' /\ StateChange
  <1>1. TypeOK'
    BY DEF IndInv, TypeOK, agents
  <1>2. AgentInv'
    BY SameAgents DEF agents
  <1> QED
    BY <1>1, <1>2, Preserve, ProcFacts

\* A listed batch stays, or loses a row that has been visited.
LEMMA BatchShrinks ==
    ASSUME IndInv, NEW p, RowStep(p), NEW q \in {Reaper, Monitor}, NEW x,
           \/ UNCHANGED batch
           \/ batch' = [batch EXCEPT ![q] = @ \ {x}]
    PROVE  batch' \in [{Reaper, Monitor} -> SUBSET Snapshot] /\ BatchInv'
  <1>1. /\ batch' \in [{Reaper, Monitor} -> SUBSET Snapshot]
        /\ \A r \in {Reaper, Monitor} : batch'[r] \subseteq batch[r]
    BY DEF IndInv, TypeOK
  <1>2. \A r \in {Reaper, Monitor} : \A y \in batch[r] :
          y.sb \in Sandbox /\ y.node \in Node /\ row[y.sb].node \in Node
    BY DEF IndInv, TypeOK, Snapshot, PassInv, BatchInv
  <1>3. BatchInv'
    BY <1>1, <1>2 DEF BatchInv, RowStep
  <1> QED BY <1>1, <1>3

\* The rows a pass lists are running, so they have a node.
LEMMA BatchListed ==
    ASSUME IndInv, UNCHANGED row, NEW q \in {Reaper, Monitor}, NEW rows \in SUBSET Sandbox,
           \A s \in rows : row[s].state = "running",
           batch' = [batch EXCEPT ![q] = {SnapshotOf(s) : s \in rows}]
    PROVE  batch' \in [{Reaper, Monitor} -> SUBSET Snapshot] /\ BatchInv'
  <1> DEFINE new == {SnapshotOf(s) : s \in rows}
  <1>1. \A y \in new : y \in Snapshot /\ y.node \in Node /\ row[y.sb].node \in Node
    <2> SUFFICES ASSUME NEW s \in rows
                 PROVE  /\ SnapshotOf(s) \in Snapshot /\ SnapshotOf(s).node \in Node
                        /\ row[SnapshotOf(s).sb].node \in Node
      OBVIOUS
    <2>1. row[s] \in Row /\ row[s].node \in Node
      BY DEF IndInv, TypeOK, RowInv, RowOK, Placed
    <2> QED BY <2>1 DEF SnapshotOf, Snapshot, Row
  <1> HIDE DEF new
  <1>2. /\ batch' \in [{Reaper, Monitor} -> SUBSET Snapshot]
        /\ \A r \in {Reaper, Monitor} : batch'[r] \subseteq batch[r] \cup new
    BY <1>1 DEF IndInv, TypeOK, new
  <1>3. BatchInv'
    BY <1>1, <1>2 DEF IndInv, PassInv, BatchInv
  <1> QED BY <1>2, <1>3

\* A pass takes up a listed row.
LEMMA VisitFacts ==
    ASSUME IndInv, NEW p \in {Reaper, Monitor}, NEW x \in batch[p],
           NEW pc \in {"reap_cmd", "move_route"}, Become(p, Visit(x, pc))
    PROVE  /\ call' \in [Proc -> Call] /\ Moved(p) /\ call'[p].pc = pc
           /\ call'[p].sb = x.sb /\ call'[p].node = x.node
  <1> DEFINE k == Visit(x, pc)
  <1>1. x \in Snapshot
    BY DEF IndInv, TypeOK
  <1>2. k \in Call /\ k.pc = pc /\ k.sb = x.sb /\ k.node = x.node
    BY <1>1, ZeroCid DEF Visit, Begun, Call, Snapshot, Pc
  <1> HIDE DEF k
  <1> QED BY <1>2, NewCall, ProcFacts DEF k

LEMMA ListedFacts ==
    ASSUME IndInv, NEW p \in {Reaper, Monitor}, NEW x \in batch[p]
    PROVE  x.sb \in Sandbox /\ x.node \in Node /\ row[x.sb].node \in Node
  BY DEF IndInv, TypeOK, Snapshot, PassInv, BatchInv

LEMMA PassReturn ==
    ASSUME IndInv, NEW p \in {Reaper, Monitor}, Return(p)
    PROVE  /\ call' \in [Proc -> Call] /\ Moved(p)
           /\ p = Reaper => ReaperOK(call[p])'
           /\ p = Monitor => MonitorOK(call[p])'
  <1>1. call' \in [Proc -> Call] /\ Moved(p) /\ call'[p].pc = "idle"
    BY ReturnFacts, ProcFacts
  <1> QED BY <1>1 DEF ReaperOK, MonitorOK, MovePc

LEMMA PassCounts ==
    ASSUME IndInv, UNCHANGED <<healthy, agents, counts>>
    PROVE  /\ UNCHANGED <<agents, gaveUp, crashes, faults>>
           /\ timeouts' \in 0..MaxTimeouts /\ healthy' \subseteq Node
  BY DEF IndInv, TypeOK, counts

LEMMA ReapListOK ==
    ASSUME IndInv, ReapList
    PROVE  IndInv' /\ StateChange
  <1>1. UNCHANGED <<row, cmds, healthy, call, agents, route, counts>>
    BY DEF ReapList, db
  <1>2. PICK rows \in SUBSET Sandbox :
          /\ \A s \in rows : row[s].state = "running"
          /\ batch' = [batch EXCEPT ![Reaper] = {SnapshotOf(s) : s \in rows}]
    BY DEF ReapList
  <1>3. batch' \in [{Reaper, Monitor} -> SUBSET Snapshot] /\ BatchInv'
    BY <1>1, <1>2, BatchListed
  <1>4. TypeOK'
    BY <1>1, <1>3 DEF IndInv, TypeOK, agents, counts
  <1> QED
    BY <1>1, <1>3, <1>4, SameRow, SameTable, SameAgents, NoCall DEF agents

LEMMA ReapCasOK ==
    ASSUME IndInv, NEW x \in batch[Reaper], ReapCas(x)
    PROVE  IndInv' /\ StateChange
  <1>1. /\ UNCHANGED <<cmds, healthy, agents, route, counts>>
        /\ batch' = [batch EXCEPT ![Reaper] = @ \ {x}]
    BY DEF ReapCas
  <1>2. x.sb \in Sandbox /\ x.node \in Node /\ row[x.sb].node \in Node
    BY ListedFacts
  <1>3. CASE UNCHANGED <<row, call>>
    <2>1. batch' \in [{Reaper, Monitor} -> SUBSET Snapshot] /\ BatchInv'
      BY <1>1, <1>3, SameRow, BatchShrinks
    <2>2. TypeOK'
      BY <1>1, <1>3, <2>1 DEF IndInv, TypeOK, agents, counts
    <2> QED
      BY <1>1, <1>3, <2>1, <2>2, SameRow, SameTable, SameAgents, NoCall DEF agents
  <1>4. CASE /\ StateIs(x.sb, "running") /\ SetState(x.sb, "stopped")
             /\ Become(Reaper, Visit(x, "reap_cmd"))
    <2>1. StateStep("running", "stopped") /\ "stopped" \in State
      BY EdgeFacts
    <2>2. RowStep(Reaper) /\ row' \in [Sandbox -> Row]
      BY <1>2, <1>4, <2>1, SetStateStep DEF StateIs
    <2>3. batch' \in [{Reaper, Monitor} -> SUBSET Snapshot] /\ BatchInv'
      BY <1>1, <2>2, BatchShrinks
    <2>4. /\ call' \in [Proc -> Call] /\ Moved(Reaper) /\ call'[Reaper].pc = "reap_cmd"
          /\ call'[Reaper].sb = x.sb /\ call'[Reaper].node = x.node
      BY <1>4, VisitFacts
    <2>5. ReaperOK(call[Reaper])'
      BY <1>2, <2>4 DEF ReaperOK
    <2> QED
      BY <1>1, <2>2, <2>3, <2>4, <2>5, SameTable, SameRoute, PassCounts, PassCore, ProcFacts
  <1> QED BY <1>3, <1>4 DEF ReapCas

LEMMA ReapCmdOK ==
    ASSUME IndInv, ReapCmd
    PROVE  IndInv' /\ StateChange
  <1> DEFINE k == call[Reaper]
  <1>1. /\ k.pc = "reap_cmd" /\ UNCHANGED <<row, healthy, batch, agents, route, counts>>
        /\ CreateCommand("stop_sandbox", k.sb, k.node, k.cid) /\ Step(Reaper, "reap_route")
    BY DEF ReapCmd, At
  <1>2. k.sb \in Sandbox /\ k.node \in Node /\ k.cid \in Cid
    BY <1>1, ProcFacts DEF IndInv, TypeOK, Call, PassInv, ReaperOK
  <1>3. TableGrows /\ Bounded' /\ cmds' \in Seq(Command)
    BY <1>1, <1>2, CreateCommandStep DEF CmdType
  <1>4. "reap_route" \in Pc
    BY DEF Pc
  <1>5. /\ call' \in [Proc -> Call] /\ Moved(Reaper) /\ call'[Reaper].pc = "reap_route"
        /\ call'[Reaper].sb = k.sb /\ call'[Reaper].node = k.node
    BY <1>1, <1>4, StepFacts, ProcFacts
  <1>6. ReaperOK(call[Reaper])'
    BY <1>2, <1>5 DEF ReaperOK
  <1>7. batch' \in [{Reaper, Monitor} -> SUBSET Snapshot] /\ BatchInv'
    BY <1>1, SameRow, SameBatch DEF IndInv, TypeOK
  <1> QED
    BY <1>1, <1>3, <1>5, <1>6, <1>7, SameRow, SameRoute, PassCounts, PassCore, ProcFacts

LEMMA ReapRouteOK ==
    ASSUME IndInv, ReapRoute
    PROVE  IndInv' /\ StateChange
  <1> DEFINE k == call[Reaper]
  <1>1. /\ k.pc = "reap_route" /\ UNCHANGED <<row, cmds, healthy, batch, agents, counts>>
        /\ route' = [route EXCEPT ![AppOf[k.sb]] = NoRoute] /\ Return(Reaper)
    BY DEF ReapRoute, At, db
  <1>2. k.sb \in Sandbox
    BY <1>1 DEF IndInv, PassInv, ReaperOK
  <1>3. batch' \in [{Reaper, Monitor} -> SUBSET Snapshot] /\ BatchInv'
    BY <1>1, SameRow, SameBatch DEF IndInv, TypeOK
  <1> QED
    BY <1>1, <1>2, <1>3, NoRouteStep, PassReturn, SameRow, SameTable, PassCounts,
       PassCore, ProcFacts

LEMMA MonitorMarkOK ==
    ASSUME IndInv, NEW n \in Node, MonitorMark(n)
    PROVE  IndInv' /\ StateChange
  <1>1. /\ UNCHANGED <<row, cmds, batch, agents, route, gaveUp, crashes, faults>>
        /\ timeouts < MaxTimeouts /\ timeouts' = timeouts + 1 /\ healthy' = healthy \ {n}
        /\ Become(Monitor, Placing("move_list", NoSandbox, n))
    BY DEF MonitorMark
  <1>2. timeouts' \in 0..MaxTimeouts /\ healthy' \subseteq Node
    BY <1>1, ConstantsAssumption DEF IndInv, TypeOK
  <1>3. call' \in [Proc -> Call] /\ Moved(Monitor) /\ call'[Monitor].pc = "move_list"
    BY <1>1, PlacingFacts, ProcFacts
  <1>4. MonitorOK(call[Monitor])'
    BY <1>3 DEF MonitorOK, MovePc
  <1>5. batch' \in [{Reaper, Monitor} -> SUBSET Snapshot] /\ BatchInv'
    BY <1>1, SameRow, SameBatch DEF IndInv, TypeOK
  <1> QED
    BY <1>1, <1>2, <1>3, <1>4, <1>5, SameRow, SameTable, SameRoute, PassCore, ProcFacts

LEMMA MoveListOK ==
    ASSUME IndInv, MoveList
    PROVE  IndInv' /\ StateChange
  <1>1. UNCHANGED <<row, cmds, healthy, agents, route, counts>> /\ Return(Monitor)
    BY DEF MoveList, db
  <1>2. PICK rows \in SUBSET Sandbox :
          /\ \A s \in rows : row[s].state = "running"
          /\ batch' = [batch EXCEPT ![Monitor] = {SnapshotOf(s) : s \in rows}]
    BY DEF MoveList
  <1>3. batch' \in [{Reaper, Monitor} -> SUBSET Snapshot] /\ BatchInv'
    BY <1>1, <1>2, BatchListed
  <1> QED
    BY <1>1, <1>3, PassReturn, SameRow, SameTable, SameRoute, PassCounts, PassCore, ProcFacts

LEMMA MoveCasOK ==
    ASSUME IndInv, NEW x \in batch[Monitor], MoveCas(x)
    PROVE  IndInv' /\ StateChange
  <1>1. /\ UNCHANGED <<cmds, healthy, agents, route, counts>>
        /\ batch' = [batch EXCEPT ![Monitor] = @ \ {x}]
    BY DEF MoveCas
  <1>2. x.sb \in Sandbox /\ x.node \in Node /\ row[x.sb].node \in Node
    BY ListedFacts
  <1>3. CASE UNCHANGED <<row, call>>
    <2>1. batch' \in [{Reaper, Monitor} -> SUBSET Snapshot] /\ BatchInv'
      BY <1>1, <1>3, SameRow, BatchShrinks
    <2>2. TypeOK'
      BY <1>1, <1>3, <2>1 DEF IndInv, TypeOK, agents, counts
    <2> QED
      BY <1>1, <1>3, <2>1, <2>2, SameRow, SameTable, SameAgents, NoCall DEF agents
  <1>4. CASE /\ StateIs(x.sb, "running") /\ SetState(x.sb, "pending")
             /\ Become(Monitor, Visit(x, "move_route"))
    <2>1. StateStep("running", "pending") /\ "pending" \in State
      BY EdgeFacts
    <2>2. RowStep(Monitor) /\ row' \in [Sandbox -> Row]
      BY <1>2, <1>4, <2>1, SetStateStep DEF StateIs
    <2>3. batch' \in [{Reaper, Monitor} -> SUBSET Snapshot] /\ BatchInv'
      BY <1>1, <2>2, BatchShrinks
    <2>4. /\ call' \in [Proc -> Call] /\ Moved(Monitor) /\ call'[Monitor].pc = "move_route"
          /\ call'[Monitor].sb = x.sb
      BY <1>4, VisitFacts
    <2>5. MonitorOK(call[Monitor])'
      BY <1>2, <2>2, <2>4 DEF MonitorOK, MovePc, RowStep
    <2> QED
      BY <1>1, <2>2, <2>3, <2>4, <2>5, SameTable, SameRoute, PassCounts, PassCore, ProcFacts
  <1> QED BY <1>3, <1>4 DEF MoveCas

\* The rescheduler moves on; it keeps its sandbox.
LEMMA MoveStep ==
    ASSUME IndInv, call[Monitor].pc \in MovePc, RowStep(Monitor),
           NEW pc \in MovePc, Step(Monitor, pc),
           pc \in {"move_assign", "move_cmd"} => call[Monitor].node \in Node
    PROVE  call' \in [Proc -> Call] /\ Moved(Monitor) /\ MonitorOK(call[Monitor])'
  <1>1. pc \in Pc
    BY DEF Pc, MovePc
  <1>2. /\ call' \in [Proc -> Call] /\ Moved(Monitor) /\ call'[Monitor].pc = pc
        /\ call'[Monitor].sb = call[Monitor].sb /\ call'[Monitor].node = call[Monitor].node
    BY <1>1, StepFacts, ProcFacts
  <1>3. call[Monitor].sb \in Sandbox /\ row[call[Monitor].sb].node \in Node
    BY DEF IndInv, PassInv, MonitorOK
  <1>4. row'[call[Monitor].sb].node \in Node
    BY <1>3 DEF RowStep
  <1> QED BY <1>2, <1>3, <1>4 DEF MonitorOK

LEMMA MoveRouteOK ==
    ASSUME IndInv, MoveRoute
    PROVE  IndInv' /\ StateChange
  <1> DEFINE k == call[Monitor]
  <1>1. /\ k.pc = "move_route" /\ UNCHANGED <<row, cmds, healthy, batch, agents, counts>>
        /\ route' = [route EXCEPT ![AppOf[k.sb]] = NoRoute] /\ Step(Monitor, "move_reset")
    BY DEF MoveRoute, At, db
  <1>2. k.pc \in MovePc /\ "move_reset" \in MovePc
    BY <1>1 DEF MovePc
  <1>3. call' \in [Proc -> Call] /\ Moved(Monitor) /\ MonitorOK(call[Monitor])'
    BY <1>1, <1>2, SameRow, MoveStep
  <1>4. k.sb \in Sandbox
    BY <1>2 DEF IndInv, PassInv, MonitorOK
  <1>5. batch' \in [{Reaper, Monitor} -> SUBSET Snapshot] /\ BatchInv'
    BY <1>1, SameRow, SameBatch DEF IndInv, TypeOK
  <1> QED
    BY <1>1, <1>3, <1>4, <1>5, NoRouteStep, SameRow, SameTable, PassCounts, PassCore, ProcFacts

LEMMA MoveResetOK ==
    ASSUME IndInv, MoveReset
    PROVE  IndInv' /\ StateChange
  <1> DEFINE k == call[Monitor]
  <1>1. /\ k.pc = "move_reset" /\ UNCHANGED <<cmds, healthy, batch, agents, route, counts>>
        /\ row' = [row EXCEPT ![k.sb].fails = 0] /\ Step(Monitor, "move_schedule")
    BY DEF MoveReset, At
  <1>2. k.pc \in MovePc /\ "move_schedule" \in MovePc
    BY <1>1 DEF MovePc
  <1>3. k.sb \in Sandbox
    BY <1>2 DEF IndInv, PassInv, MonitorOK
  <1>4. RowStep(Monitor) /\ row' \in [Sandbox -> Row]
    BY <1>1, <1>3, FailsRow
  <1>5. call' \in [Proc -> Call] /\ Moved(Monitor) /\ MonitorOK(call[Monitor])'
    BY <1>1, <1>2, <1>4, MoveStep
  <1>6. batch' \in [{Reaper, Monitor} -> SUBSET Snapshot] /\ BatchInv'
    BY <1>1, <1>4, SameBatch DEF IndInv, TypeOK
  <1> QED
    BY <1>1, <1>4, <1>5, <1>6, SameTable, SameRoute, PassCounts, PassCore, ProcFacts

LEMMA MoveScheduleOK ==
    ASSUME IndInv, MoveSchedule
    PROVE  IndInv' /\ StateChange
  <1> DEFINE k == call[Monitor]
  <1>1. k.pc = "move_schedule" /\ UNCHANGED <<row, cmds, healthy, batch, agents, route, counts>>
    BY DEF MoveSchedule, At, db
  <1>2. k.pc \in MovePc /\ "move_fail" \in MovePc
    BY <1>1 DEF MovePc
  <1>3. k.sb \in Sandbox /\ row[k.sb].node \in Node
    BY <1>2 DEF IndInv, PassInv, MonitorOK
  <1>4. call' \in [Proc -> Call] /\ Moved(Monitor) /\ MonitorOK(call[Monitor])'
    <2>1. CASE Step(Monitor, "move_fail")
      BY <1>1, <1>2, <2>1, SameRow, MoveStep
    <2>2. ASSUME NEW n \in healthy, Become(Monitor, Placing("move_assign", k.sb, n))
          PROVE  call' \in [Proc -> Call] /\ Moved(Monitor) /\ MonitorOK(call[Monitor])'
      <3>1. n \in Node
        BY DEF IndInv, TypeOK
      <3>2. /\ call' \in [Proc -> Call] /\ Moved(Monitor)
            /\ call'[Monitor].pc = "move_assign"
            /\ call'[Monitor].sb = k.sb /\ call'[Monitor].node = n
        BY <1>3, <2>2, <3>1, PlacingFacts, ProcFacts
      <3> QED BY <1>1, <1>3, <3>1, <3>2 DEF MonitorOK, MovePc
    <2> QED BY <2>1, <2>2 DEF MoveSchedule
  <1>5. batch' \in [{Reaper, Monitor} -> SUBSET Snapshot] /\ BatchInv'
    BY <1>1, SameRow, SameBatch DEF IndInv, TypeOK
  <1> QED
    BY <1>1, <1>4, <1>5, SameRow, SameTable, SameRoute, PassCounts, PassCore, ProcFacts

LEMMA MoveFailOK ==
    ASSUME IndInv, MoveFail
    PROVE  IndInv' /\ StateChange
  <1> DEFINE k == call[Monitor]
  <1>1. /\ k.pc = "move_fail" /\ UNCHANGED <<cmds, healthy, batch, agents, route, counts>>
        /\ Return(Monitor)
    BY DEF MoveFail, At
  <1>2. k.sb \in Sandbox /\ row[k.sb].node \in Node
    BY <1>1 DEF IndInv, PassInv, MonitorOK, MovePc
  <1>3. RowStep(Monitor) /\ row' \in [Sandbox -> Row]
    <2>1. CASE UNCHANGED row
      BY <2>1, SameRow
    <2>2. CASE StateIs(k.sb, "pending") /\ SetState(k.sb, "failed")
      <3>1. StateStep("pending", "failed") /\ "failed" \in State
        BY DEF StateStep, State
      <3> QED BY <1>2, <2>2, <3>1, SetStateStep DEF StateIs
    <2> QED BY <2>1, <2>2 DEF MoveFail
  <1>4. batch' \in [{Reaper, Monitor} -> SUBSET Snapshot] /\ BatchInv'
    BY <1>1, <1>3, SameBatch DEF IndInv, TypeOK
  <1> QED
    BY <1>1, <1>3, <1>4, PassReturn, SameTable, SameRoute, PassCounts, PassCore, ProcFacts

LEMMA MoveAssignOK ==
    ASSUME IndInv, MoveAssign
    PROVE  IndInv' /\ StateChange
  <1> DEFINE k == call[Monitor]
  <1>1. k.pc = "move_assign" /\ UNCHANGED <<cmds, healthy, batch, agents, route, counts>>
    BY DEF MoveAssign, At
  <1>2. k.sb \in Sandbox /\ k.node \in Node
    BY <1>1 DEF IndInv, PassInv, MonitorOK, MovePc
  <1>3. CASE Return(Monitor) /\ UNCHANGED row
    <2>1. batch' \in [{Reaper, Monitor} -> SUBSET Snapshot] /\ BatchInv'
      BY <1>1, <1>3, SameRow, SameBatch DEF IndInv, TypeOK
    <2> QED
      BY <1>1, <1>3, <2>1, PassReturn, SameRow, SameTable, SameRoute, PassCounts, PassCore,
         ProcFacts
  <1>4. CASE /\ StateIs(k.sb, "pending") /\ AssignSandboxToNode(k.sb, k.node)
             /\ Step(Monitor, "move_cmd")
    <2>1. RowStep(Monitor) /\ row' \in [Sandbox -> Row]
      BY <1>2, <1>4, AssignStep
    <2>2. k.pc \in MovePc /\ "move_cmd" \in MovePc
      BY <1>1 DEF MovePc
    <2>3. call' \in [Proc -> Call] /\ Moved(Monitor) /\ MonitorOK(call[Monitor])'
      BY <1>2, <1>4, <2>1, <2>2, MoveStep
    <2>4. batch' \in [{Reaper, Monitor} -> SUBSET Snapshot] /\ BatchInv'
      BY <1>1, <2>1, SameBatch DEF IndInv, TypeOK
    <2> QED
      BY <1>1, <2>1, <2>3, <2>4, SameTable, SameRoute, PassCounts, PassCore, ProcFacts
  <1> QED BY <1>3, <1>4 DEF MoveAssign

LEMMA MoveCmdOK ==
    ASSUME IndInv, MoveCmd
    PROVE  IndInv' /\ StateChange
  <1> DEFINE k == call[Monitor]
  <1>1. /\ k.pc = "move_cmd" /\ UNCHANGED <<row, healthy, batch, agents, route, counts>>
        /\ CreateCommand("start_sandbox", k.sb, k.node, 0) /\ Return(Monitor)
    BY DEF MoveCmd, At
  <1>2. k.sb \in Sandbox /\ k.node \in Node
    BY <1>1 DEF IndInv, PassInv, MonitorOK, MovePc
  <1>3. TableGrows /\ Bounded' /\ cmds' \in Seq(Command)
    BY <1>1, <1>2, ZeroCid, CreateCommandStep DEF CmdType
  <1>4. batch' \in [{Reaper, Monitor} -> SUBSET Snapshot] /\ BatchInv'
    BY <1>1, SameRow, SameBatch DEF IndInv, TypeOK
  <1> QED
    BY <1>1, <1>3, <1>4, PassReturn, SameRow, SameRoute, PassCounts, PassCore, ProcFacts

-----------------------------------------------------------------------------
(* The environment and its faults. *)

LEMMA ContainerExitsOK ==
    ASSUME IndInv, NEW n \in Node, NEW a \in App, ContainerExits(n, a)
    PROVE  IndInv' /\ StateChange
  <1>1. /\ crashes < MaxCrashes /\ crashes' = crashes + 1
        /\ ctr' = [ctr EXCEPT ![n][a].up = FALSE]
        /\ UNCHANGED <<row, cmds, healthy, call, batch, inbox, tracked, route>>
        /\ UNCHANGED <<gaveUp, timeouts, faults>>
    BY DEF ContainerExits, db
  <1>2. evq' \in [Node -> EventSeq]
    <2>1. /\ <<"container_exited">> \in Seq(EventType)
          /\ <<"container_oom", "container_exited">> \in Seq(EventType)
      BY DEF EventType
    <2> QED BY <2>1, EventsStep DEF ContainerExits
  <1>3. ctr' \in [Node -> [App -> [cid : Cid, up : BOOLEAN]]]
    BY <1>1, ContainerStep
  <1>4. crashes' \in 0..MaxCrashes
    BY <1>1, ConstantsAssumption DEF IndInv, TypeOK
  <1>5. TypeOK'
    BY <1>1, <1>2, <1>3, <1>4 DEF IndInv, TypeOK, EventSeq
  <1> QED
    BY <1>1, <1>5, SameRow, SameTable, SameBatch, SameAgents, NoCall

\* Whichever process it is, a handler that ends leaves nothing to preserve.
LEMMA EndedOK ==
    ASSUME IndInv, NEW p \in Proc, Return(p), TypeOK',
           UNCHANGED <<row, cmds, batch>>, AgentInv'
    PROVE  IndInv' /\ StateChange
  <1>1. Moved(p) /\ call'[p].pc = "idle" /\ call'[p].sb = NoSandbox
    BY ReturnFacts
  <1>2. /\ \A c \in Client : ApiOK(c, call[p])'
        /\ AckOK(call[p])' /\ \A n \in Node : EvtOK(n, call[p])'
        /\ ReaperOK(call[p])' /\ MonitorOK(call[p])' /\ call'[p].pc \notin CrashPc
    BY <1>1 DEF ApiOK, ApiPc, AckOK, AckPc, EvtOK, EvtPc, CrashPc, ReaperOK, MonitorOK, MovePc
  <1> QED
    BY <1>1, <1>2, SameRow, SameTable, SameBatch, Preserve

LEMMA AbortCallOK ==
    ASSUME IndInv, NEW p \in Proc, AbortCall(p)
    PROVE  IndInv' /\ StateChange
  <1>1. /\ faults < MaxFaults /\ faults' = faults + 1 /\ Return(p)
        /\ UNCHANGED <<row, cmds, healthy, batch, agents, route, gaveUp, crashes, timeouts>>
    BY DEF AbortCall, db
  <1>2. TypeOK'
    BY <1>1, FaultCount, ReturnFacts DEF IndInv, TypeOK, agents
  <1> QED
    BY <1>1, <1>2, SameTable, SameAgents, EndedOK DEF agents

LEMMA LoseAckOK ==
    ASSUME IndInv, NEW n \in Node, LoseAck(n)
    PROVE  IndInv' /\ StateChange
  <1>1. /\ faults < MaxFaults /\ faults' = faults + 1 /\ Return(Ack(n)) /\ Ack(n) \in Proc
        /\ UNCHANGED <<row, cmds, healthy, batch, agents, route, gaveUp, crashes, timeouts>>
    BY ProcFacts DEF LoseAck, db
  <1>2. TypeOK'
    BY <1>1, FaultCount, ReturnFacts DEF IndInv, TypeOK, agents
  <1> QED
    BY <1>1, <1>2, SameTable, SameAgents, EndedOK DEF agents

LEMMA AgentCrashOK ==
    ASSUME IndInv, NEW n \in Node, AgentCrash(n)
    PROVE  IndInv' /\ StateChange
  <1>1. /\ faults < MaxFaults /\ faults' = faults + 1 /\ Return(Ack(n)) /\ Ack(n) \in Proc
        /\ inbox' = [inbox EXCEPT ![n] = {}] /\ tracked' = [tracked EXCEPT ![n] = {}]
        /\ evq' = [evq EXCEPT ![n] = <<>>]
        /\ UNCHANGED <<row, cmds, healthy, batch, ctr, route, gaveUp, crashes, timeouts>>
    BY ProcFacts DEF AgentCrash, db
  <1>2. TypeOK'
    <2>1. call' \in [Proc -> Call] /\ faults' \in 0..MaxFaults
      BY <1>1, FaultCount, ReturnFacts
    <2>2. inbox' \in [Node -> SUBSET CmdId] /\ tracked' \in [Node -> SUBSET Sandbox]
      BY <1>1 DEF IndInv, TypeOK
    <2>3. evq' \in [Node -> EventSeq]
      <3>1. <<>> \in EventSeq
        BY DEF EventSeq
      <3>2. evq \in [Node -> EventSeq]
        BY DEF IndInv, TypeOK, EventSeq
      <3> QED BY <1>1, <3>1, <3>2
    <2> QED BY <1>1, <2>1, <2>2, <2>3 DEF IndInv, TypeOK, EventSeq
  <1>3. AgentInv'
    <2>1. /\ \A m \in Node : inbox'[m] \subseteq inbox[m] /\ tracked'[m] \subseteq tracked[m]
          /\ Refs' = Refs
      BY <1>1 DEF IndInv, TypeOK, Refs
    <2> QED BY <1>1, <2>1 DEF IndInv, AgentInv
  <1> QED
    BY <1>1, <1>2, <1>3, EndedOK

\* Only the reaper, the rescheduler and HandleAck pass over a failed statement.
LEMMA SkipStatementOK ==
    ASSUME IndInv, NEW p \in Proc, SkipStatement(p)
    PROVE  IndInv' /\ StateChange
  <1> DEFINE pc == Tolerated[call[p].pc]
  <1>1. /\ faults < MaxFaults /\ faults' = faults + 1 /\ Step(p, pc)
        /\ UNCHANGED <<row, cmds, healthy, batch, agents, route, gaveUp, crashes, timeouts>>
    BY DEF SkipStatement, db
  <1>2. \/ call[p].pc = "reap_cmd" /\ pc = "reap_route"
        \/ call[p].pc = "move_reset" /\ pc = "move_schedule"
        \/ call[p].pc = "ack_persist" /\ pc = "ack_refetch"
        \/ call[p].pc = "ack_refetch" /\ pc = "ack_route"
        \/ call[p].pc = "ack_reset" /\ pc = "ack_done"
    BY DEF SkipStatement, Tolerated
  <1>3. pc \in Pc
    BY <1>2 DEF Pc
  <1> HIDE DEF pc
  <1>4. /\ call' \in [Proc -> Call] /\ Moved(p) /\ call'[p].pc = pc
        /\ call'[p].sb = call[p].sb /\ call'[p].cmd = call[p].cmd
        /\ call'[p].node = call[p].node
    BY <1>1, <1>3, StepFacts
  <1>5. ASSUME NEW c \in Client PROVE p # Api(c)
    BY <1>2 DEF IndInv, ApiInv, ApiOK, ApiPc
  <1>6. ASSUME NEW n \in Node PROVE p # Evt(n)
    BY <1>2 DEF IndInv, EvtInv, EvtOK, EvtPc, CrashPc
  <1>7. ASSUME NEW n \in Node, p = Ack(n) PROVE AckOK(call[p])'
    BY <1>1, <1>2, <1>4, <1>7 DEF IndInv, AckInv, AckOK, AckPc
  <1>8. p = Reaper => ReaperOK(call[p])'
    BY <1>2, <1>4 DEF IndInv, PassInv, ReaperOK
  <1>9. p = Monitor => MonitorOK(call[p])'
    BY <1>1, <1>2, <1>4 DEF IndInv, PassInv, MonitorOK, MovePc
  <1>10. TypeOK'
    BY <1>1, <1>4, FaultCount DEF IndInv, TypeOK, agents
  <1>11. AgentInv'
    BY <1>1, SameTable, SameAgents DEF agents
  <1> QED
    BY <1>1, <1>4, <1>5, <1>6, <1>7, <1>8, <1>9, <1>10, <1>11, SameRow, SameTable,
       SameBatch, Preserve

LEMMA ControlRestartOK ==
    ASSUME IndInv, ControlRestart
    PROVE  IndInv' /\ StateChange
  <1>1. /\ faults < MaxFaults /\ faults' = faults + 1
        /\ call' = [p \in Proc |-> IF InControl(p) THEN Idle ELSE call[p]]
        /\ batch' = [p \in DOMAIN batch |-> {}]
        /\ UNCHANGED <<row, cmds, healthy, agents, route, gaveUp, crashes, timeouts>>
    BY DEF ControlRestart, db
  <1>2. Idle.pc = "idle" /\ Idle.sb = NoSandbox
    BY DEF Idle, Begun
  <1>3. \A p \in Proc : \/ call'[p] = call[p]
                        \/ call'[p].pc = "idle" /\ call'[p].sb = NoSandbox
    BY <1>1, <1>2
  <1>4. TypeOK' /\ Refs' = Refs
    <2>1. call' \in [Proc -> Call]
      BY <1>1, IdleType DEF IndInv, TypeOK
    <2>2. batch' \in [{Reaper, Monitor} -> SUBSET Snapshot]
      BY <1>1 DEF IndInv, TypeOK
    <2> QED BY <1>1, <2>1, <2>2, FaultCount DEF IndInv, TypeOK, agents, Refs
  <1>5. Bounded' /\ RowInv' /\ StateChange
    BY <1>1 DEF IndInv, Bounded, RowInv, StateChange
  <1>6. ApiInv'
    <2> SUFFICES ASSUME NEW c \in Client PROVE ApiOK(c, call[Api(c)])'
      BY DEF ApiInv
    <2>1. CASE call'[Api(c)].pc = "idle"
      BY <2>1 DEF ApiOK, ApiPc
    <2>2. CASE call'[Api(c)] = call[Api(c)]
      <3>1. ApiOK(c, call[Api(c)])
        BY DEF IndInv, ApiInv
      <3>2. ASSUME NEW d \in Client, call[Api(d)].sb # call[Api(c)].sb,
                   call[Api(c)].sb \in Sandbox
            PROVE  call'[Api(d)].sb # call[Api(c)].sb
        BY <1>3, <3>2, ProcFacts, ConstantsAssumption
      <3> QED BY <1>1, <1>4, <2>2, <3>1, <3>2 DEF ApiOK
    <2> QED BY <1>3, <2>1, <2>2, ProcFacts
  <1>7. AckInv'
    <2> SUFFICES ASSUME NEW n \in Node PROVE AckOK(call[Ack(n)])'
      BY DEF AckInv
    <2>1. CASE call'[Ack(n)].pc = "idle"
      BY <2>1 DEF AckOK, AckPc
    <2>2. CASE call'[Ack(n)] = call[Ack(n)]
      BY <1>1, <2>2 DEF IndInv, AckInv, AckOK
    <2> QED BY <1>3, <2>1, <2>2, ProcFacts
  <1>8. EvtInv'
    <2> SUFFICES ASSUME NEW n \in Node PROVE EvtOK(n, call[Evt(n)])'
      BY DEF EvtInv
    <2>1. CASE call'[Evt(n)].pc = "idle"
      BY <2>1 DEF EvtOK, EvtPc, CrashPc
    <2>2. CASE call'[Evt(n)] = call[Evt(n)]
      <3>1. EvtOK(n, call[Evt(n)])
        BY DEF IndInv, EvtInv
      <3>2. ASSUME NEW m \in Node, call'[Evt(m)].pc \in CrashPc
            PROVE  call'[Evt(m)] = call[Evt(m)]
        BY <1>3, <3>2, ProcFacts DEF CrashPc
      <3> QED BY <1>1, <1>4, <2>2, <3>1, <3>2 DEF EvtOK
    <2> QED BY <1>3, <2>1, <2>2, ProcFacts
  <1>9. PassInv'
    <2>1. BatchInv'
      BY <1>1 DEF IndInv, TypeOK, BatchInv
    <2>2. ReaperOK(call[Reaper])'
      BY <1>3, ProcFacts DEF IndInv, PassInv, ReaperOK
    <2>3. MonitorOK(call[Monitor])'
      <3>1. CASE call'[Monitor].pc = "idle"
        BY <3>1 DEF MonitorOK, MovePc
      <3>2. CASE call'[Monitor] = call[Monitor]
        BY <1>1, <3>2 DEF IndInv, PassInv, MonitorOK
      <3> QED BY <1>3, <3>1, <3>2, ProcFacts
    <2> QED BY <2>1, <2>2, <2>3 DEF PassInv
  <1>10. AgentInv'
    BY <1>1, <1>4 DEF IndInv, AgentInv, agents
  <1> QED
    BY <1>4, <1>5, <1>6, <1>7, <1>8, <1>9, <1>10 DEF IndInv

-----------------------------------------------------------------------------
(* The theorems. *)

LEMMA InitOK == Init => IndInv
  <1> SUFFICES ASSUME Init PROVE IndInv
    OBVIOUS
  <1>1. \A p \in Proc : call[p] = Idle
    BY DEF Init
  <1>2. Idle.pc = "idle"
    BY DEF Idle, Begun
  <1>3. Len(cmds) = 0 /\ cmds \in Seq(Command)
    BY DEF Init
  <1>4. TypeOK
    <2>1. row \in [Sandbox -> Row]
      BY ZeroCid DEF Init, Row
    <2>2. call \in [Proc -> Call]
      BY IdleType DEF Init
    <2>3. NoContainer \in Container
      BY ZeroCid, ContainerType DEF NoContainer
    <2>4. ctr \in [Node -> [App -> [cid : Cid, up : BOOLEAN]]]
      BY <2>3 DEF Init, Container
    <2>5. route \in [App -> [node : Node \cup {NoNode}, cid : Cid]]
      BY ZeroCid DEF Init, NoRoute
    <2>6. crashes \in 0..MaxCrashes /\ timeouts \in 0..MaxTimeouts /\ faults \in 0..MaxFaults
      BY ConstantsAssumption DEF Init
    <2>7. /\ healthy \subseteq Node /\ gaveUp \subseteq Sandbox
          /\ batch \in [{Reaper, Monitor} -> SUBSET Snapshot]
          /\ inbox \in [Node -> SUBSET CmdId] /\ tracked \in [Node -> SUBSET Sandbox]
      BY DEF Init
    <2>8. evq \in [Node -> Seq([type : EventType, app : App])]
      BY DEF Init
    <2> QED BY <1>3, <2>1, <2>2, <2>4, <2>5, <2>6, <2>7, <2>8 DEF TypeOK
  <1>5. Bounded
    BY <1>3, ConstantsAssumption DEF Bounded
  <1>6. RowInv
    BY DEF Init, RowInv, RowOK, Placed
  <1>7. ApiInv
    BY <1>1, <1>2, ProcFacts DEF ApiInv, ApiOK, ApiPc
  <1>8. AckInv
    BY <1>1, <1>2, ProcFacts DEF AckInv, AckOK, AckPc
  <1>9. EvtInv
    BY <1>1, <1>2, ProcFacts DEF EvtInv, EvtOK, EvtPc, CrashPc
  <1>10. PassInv
    BY <1>1, <1>2, ProcFacts DEF Init, PassInv, BatchInv, ReaperOK, MonitorOK, MovePc
  <1>11. AgentInv
    BY DEF Init, AgentInv
  <1> QED
    BY <1>4, <1>5, <1>6, <1>7, <1>8, <1>9, <1>10, <1>11 DEF IndInv

LEMMA StutterOK == IndInv /\ UNCHANGED vars => IndInv' /\ StateChange
  <1> SUFFICES ASSUME IndInv, UNCHANGED vars PROVE IndInv' /\ StateChange
    OBVIOUS
  <1>1. TypeOK'
    BY DEF vars, IndInv, TypeOK
  <1> QED
    BY <1>1, SameRow, SameTable, SameBatch, SameAgents, NoCall DEF vars

LEMMA NextOK == IndInv /\ Next => IndInv' /\ StateChange
  <1> SUFFICES ASSUME IndInv, Next PROVE IndInv' /\ StateChange
    OBVIOUS
  <1>1. ASSUME NEW c \in Client, ApiStep(c) PROVE IndInv' /\ StateChange
    BY <1>1, CreateRecycleOK, CreateInsertOK, CreateScheduleOK, CreateAssignOK, StartCmdOK,
       DestroyCasOK, StopCmdOK, WakeCasOK, RestartCmdOK DEF ApiStep
  <1>2. ASSUME NEW c \in Client, NEW s \in Sandbox, ApiRequest(c, s)
        PROVE  IndInv' /\ StateChange
    BY <1>2, CreateLookupOK, DestroyReadOK, WakeReadOK, RestartReadOK DEF ApiRequest
  <1>3. ASSUME NEW n \in Node, AgentStep(n) PROVE IndInv' /\ StateChange
    BY <1>3, AgentPollOK, AgentTrackOK, AgentUntrackOK, AgentStartOK, AgentStopOK,
       AgentRestartOK DEF AgentStep
  <1>4. ASSUME NEW n \in Node, HandleAck(n) PROVE IndInv' /\ StateChange
    BY <1>4, AckReadOK, AckCasOK, AckRereadOK, AckPersistOK, AckRefetchOK, AckRouteOK,
       AckResetOK, AckDoneOK DEF HandleAck
  <1>5. ASSUME NEW n \in Node, HandleEvent(n) PROVE IndInv' /\ StateChange
    BY <1>5, EventReadOK, EventCasOK, EventRouteOK, CrashIncOK, CrashFailOK, CrashCasOK,
       CrashCmdOK DEF HandleEvent
  <1>6. ASSUME ReaperStep PROVE IndInv' /\ StateChange
    BY <1>6, ReapListOK, ReapCasOK, ReapCmdOK, ReapRouteOK DEF ReaperStep
  <1>7. ASSUME Reschedule PROVE IndInv' /\ StateChange
    BY <1>7, MoveListOK, MoveCasOK, MoveRouteOK, MoveResetOK, MoveScheduleOK, MoveFailOK,
       MoveAssignOK, MoveCmdOK DEF Reschedule
  <1>8. ASSUME Environment PROVE IndInv' /\ StateChange
    BY <1>8, MonitorMarkOK, HeartbeatOK, ContainerExitsOK, GoesIdleOK, FilePushOK
       DEF Environment
  <1>9. ASSUME Fault PROVE IndInv' /\ StateChange
    BY <1>9, AbortCallOK, SkipStatementOK, ControlRestartOK, LosePollOK, LoseAckOK,
       AgentCrashOK, AgentExpiredOK, AgentStartFailsOK, AgentStopFailsOK DEF Fault
  <1> QED
    BY <1>1, <1>2, <1>3, <1>4, <1>5, <1>6, <1>7, <1>8, <1>9 DEF Next

LEMMA StepOK == IndInv /\ [Next]_vars => IndInv' /\ StateChange
  BY NextOK, StutterOK

\* The invariant holds throughout, however many crashes, timeouts and faults.
THEOREM IndInvariant == Spec => []IndInv
  <1>1. Init => IndInv
    BY InitOK
  <1>2. IndInv /\ [Next]_vars => IndInv'
    BY StepOK
  <1> QED
    BY <1>1, <1>2, PTL DEF Spec

\* Every variable keeps its type; in particular no command is ever addressed to
\* a NULL node and the table's bound is respected.
THEOREM TypeCorrect == Spec => []TypeOK
  <1>1. IndInv => TypeOK
    BY DEF IndInv
  <1> QED
    BY <1>1, IndInvariant, PTL

\* Whatever handlers interleave, and whatever fails between their statements, a
\* sandbox's state changes only along StateStep.
THEOREM StatesFollowTheMachine == Spec => StateMachineRespected
  <1>1. IndInv /\ [Next]_vars => [StateChange]_vars
    BY StepOK
  <1>2. Spec => [][StateChange]_vars
    BY <1>1, IndInvariant, PTL DEF Spec
  <1> QED
    BY <1>2 DEF StateMachineRespected, StateChange

-----------------------------------------------------------------------------
(* The commands table and the agents implement CommandQueue. *)

\* What is in an inbox was dispatched to that node and is not being executed.
HeldInv ==
    \A n \in Node : \A i \in inbox[n] :
        /\ cmds[i].node = n /\ cmds[i].status = "dispatched"
        /\ \A m \in Node : call[Ack(m)].cmd # i

\* What a node executes or acks was dispatched to it and is not acked yet.
SpentInv ==
    \A n \in Node :
        /\ call[Ack(n)].pc = "idle" => call[Ack(n)].cmd = 0
        /\ call[Ack(n)].pc # "idle" => /\ cmds[call[Ack(n)].cmd].node = n
                                       /\ cmds[call[Ack(n)].cmd].status = "dispatched"

QueueInv == IndInv /\ HeldInv /\ SpentInv

\* What the types of a step's results depend on, and all the queue depends on: a
\* handler at work has a sandbox, one about to make a compare-and-set has a state
\* to set, and what an agent holds or has begun is in the table.
CasPc == {"destroy_cas", "wake_cas", "ack_cas", "event_cas"}

CallOK(k) == /\ k.pc \notin {"idle", "move_list"} => k.sb \in Sandbox
             /\ k.pc \in CasPc => k.nxt \in State

CallsOK == \A p \in Proc : CallOK(call[p])

BegunInv == \A n \in Node : call[Ack(n)].pc # "idle" => call[Ack(n)].cmd \in 1..Len(cmds)

InboxInv == \A n \in Node : inbox[n] \subseteq 1..Len(cmds)

TypeInv == TypeOK /\ Bounded /\ CallsOK /\ BegunInv /\ InboxInv

\* Where only the types are known: another service may write the rows meanwhile.
DeliveryInv == TypeInv /\ HeldInv /\ SpentInv

LEMMA TypesSuffice == IndInv => TypeInv
<1> SUFFICES ASSUME IndInv PROVE TypeInv
  OBVIOUS
<1>1. TypeOK /\ Bounded
  BY DEF IndInv
<1>2. BegunInv
  BY DEF IndInv, AckInv, AckOK, BegunInv
<1>3. InboxInv
  BY DEF IndInv, AgentInv, InboxInv
<1>4. ASSUME NEW p \in Proc PROVE CallOK(call[p])
  <2>1. ASSUME NEW c \in Client PROVE CallOK(call[Api(c)])
    <3>1. ApiOK(c, call[Api(c)])
      BY DEF IndInv, ApiInv
    <3> QED BY <3>1 DEF ApiOK, ApiPc, DestroyEdge, CallOK, CasPc, State
  <2>2. ASSUME NEW n \in Node PROVE CallOK(call[Ack(n)])
    <3>1. AckOK(call[Ack(n)])
      BY DEF IndInv, AckInv
    <3>2. \A i \in 1..Len(cmds) : cmds[i] \in Command
      BY <1>1 DEF TypeOK
    <3>3. \A i \in 1..Len(cmds) : cmds[i].sb \in Sandbox
      BY <3>2 DEF Command
    <3> QED BY <3>1, <3>3 DEF AckOK, AckPc, AckEdge, CallOK, CasPc, State
  <2>3. ASSUME NEW n \in Node PROVE CallOK(call[Evt(n)])
    <3>1. EvtOK(n, call[Evt(n)])
      BY DEF IndInv, EvtInv
    <3> QED BY <3>1 DEF EvtOK, EvtPc, CrashPc, EventEdge, CallOK, CasPc, State
  <2>4. CallOK(call[Reaper])
    BY DEF IndInv, PassInv, ReaperOK, CallOK, CasPc
  <2>5. CallOK(call[Monitor])
    BY DEF IndInv, PassInv, MonitorOK, MovePc, CallOK, CasPc
  <2> QED BY <2>1, <2>2, <2>3, <2>4, <2>5 DEF Proc
<1> QED
  BY <1>1, <1>2, <1>3, <1>4 DEF TypeInv, CallsOK

\* The command loop of n goes on with the same command, or ends.
AckKeeps(n) ==
    \/ call'[Ack(n)] = call[Ack(n)]
    \/ call'[Ack(n)].pc = "idle" /\ call'[Ack(n)].cmd = 0
    \/ /\ call[Ack(n)].pc # "idle" /\ call'[Ack(n)].pc # "idle"
       /\ call'[Ack(n)].cmd = call[Ack(n)].cmd

\* A step that no command is moved by.
Quietly == UNCHANGED <<cmds, inbox>> /\ \A n \in Node : AckKeeps(n)

\* A step that issues a command.
Issues ==
    /\ \E type \in CmdType, s \in Sandbox, n \in Node, c \in Cid :
         InsertCommand(type, s, n, c)
    /\ UNCHANGED inbox
    /\ \A n \in Node : call'[Ack(n)] = call[Ack(n)]

-----------------------------------------------------------------------------
(* CommandQueue's operators over the commands table. *)

LEMMA QueueAt ==
    ASSUME TypeInv, NEW n \in Node, NEW life
    PROVE  Queue!At(n, life) = {i \in 1..Len(cmds) : cmds[i].node = n /\ LifeOf(i) = life}
<1> DEFINE log == [i \in 1..Len(cmds) |-> [node |-> cmds[i].node, life |-> LifeOf(i)]]
<1>1. Len(cmds) \in Nat
  BY DEF TypeInv, TypeOK
<1>2. Len(log) = Len(cmds)
  BY <1>1
<1> QED
  BY <1>2 DEF Queue!At

LEMMA QueueMove ==
    ASSUME TypeInv, NEW I, NEW life, Len(cmds') = Len(cmds),
           \A i \in 1..Len(cmds) :
               /\ cmds'[i].node = cmds[i].node
               /\ (LifeOf(i))' = IF i \in I THEN life ELSE LifeOf(i)
    PROVE  Queue!Move(I, life)
<1> DEFINE log == [i \in 1..Len(cmds) |-> [node |-> cmds[i].node, life |-> LifeOf(i)]]
<1>1. Len(cmds) \in Nat
  BY DEF TypeInv, TypeOK
<1>2. Len(log) = Len(cmds)
  BY <1>1
<1> QED
  BY <1>2 DEF Queue!Move

LEMMA LifeFacts ==
    ASSUME TypeInv, NEW i \in 1..Len(cmds)
    PROVE  /\ cmds[i].status = "pending" <=> LifeOf(i) = "queued"
           /\ LifeOf(i) = "held" <=> /\ cmds[i].status = "dispatched"
                                     /\ \E n \in Node : i \in inbox[n]
           /\ LifeOf(i) = "spent" <=> /\ cmds[i].status = "dispatched"
                                      /\ \A n \in Node : i \notin inbox[n]
           /\ cmds[i].status \in {"completed", "failed"} => LifeOf(i) = cmds[i].status
<1> DEFINE H == \E n \in Node : i \in inbox[n]
<1>1. cmds[i].status \in CmdStatus
  <2>1. cmds[i] \in Command
    BY DEF TypeInv, TypeOK
  <2> QED BY <2>1 DEF Command
<1>2. LifeOf(i) = CASE cmds[i].status = "pending" -> "queued"
                    [] cmds[i].status = "dispatched" /\ H -> "held"
                    [] cmds[i].status = "dispatched" /\ ~H -> "spent"
                    [] OTHER -> cmds[i].status
  <2>1. (\A n \in Node : i \notin inbox[n]) <=> ~H
    OBVIOUS
  <2>2. CASE H
    BY <2>1, <2>2 DEF LifeOf
  <2>3. CASE ~H
    BY <2>1, <2>3 DEF LifeOf
  <2> QED BY <2>2, <2>3
<1>3. H \in BOOLEAN
  OBVIOUS
<1> HIDE DEF H
<1>4. /\ cmds[i].status = "pending" <=> LifeOf(i) = "queued"
      /\ LifeOf(i) = "held" <=> cmds[i].status = "dispatched" /\ H
      /\ LifeOf(i) = "spent" <=> cmds[i].status = "dispatched" /\ ~H
      /\ cmds[i].status \in {"completed", "failed"} => LifeOf(i) = cmds[i].status
  BY <1>1, <1>2, <1>3 DEF CmdStatus
<1> QED
  BY <1>4 DEF H

-----------------------------------------------------------------------------
(* The five kinds of step. *)

LEMMA QuietOK ==
    ASSUME DeliveryInv, Quietly
    PROVE  HeldInv' /\ SpentInv' /\ UNCHANGED Queue!vars
<1>1. UNCHANGED <<cmds, inbox>> /\ \A n \in Node : AckKeeps(n)
  BY DEF Quietly
<1>2. \A n \in Node : call'[Ack(n)].cmd \in {0, call[Ack(n)].cmd}
  BY <1>1 DEF AckKeeps
<1>3. \A n \in Node : \A i \in inbox[n] : i # 0
  BY DEF DeliveryInv, TypeInv, InboxInv, TypeOK
<1>4. HeldInv'
  BY <1>1, <1>2, <1>3 DEF DeliveryInv, HeldInv
<1>5. SpentInv'
  BY <1>1 DEF DeliveryInv, SpentInv, AckKeeps
<1>6. \A i \in 1..Len(cmds) : (LifeOf(i))' = LifeOf(i)
  BY <1>1 DEF LifeOf
<1> QED
  BY <1>1, <1>4, <1>5, <1>6 DEF Queue!vars

LEMMA IssueOK ==
    ASSUME DeliveryInv, Issues
    PROVE  HeldInv' /\ SpentInv' /\ Queue!Next
<1> DEFINE log == [i \in 1..Len(cmds) |-> [node |-> cmds[i].node, life |-> LifeOf(i)]]
           k == Len(cmds)
<1>1. PICK type \in CmdType, s \in Sandbox, n \in Node, c \in Cid :
        InsertCommand(type, s, n, c)
  BY DEF Issues
<1>2. UNCHANGED inbox /\ \A m \in Node : call'[Ack(m)] = call[Ack(m)]
  BY DEF Issues
<1>3. cmds \in Seq(Command) /\ k \in Nat
  BY DEF DeliveryInv, TypeInv, TypeOK
<1>4. /\ Len(cmds') = k + 1
      /\ \A i \in 1..k : cmds'[i] = cmds[i]
      /\ cmds'[k + 1].node = n /\ cmds'[k + 1].status = "pending"
  BY <1>1, <1>3 DEF InsertCommand
<1>5. \A m \in Node : \A i \in inbox[m] : i \in 1..k
  BY DEF DeliveryInv, TypeInv, InboxInv
<1>6. HeldInv'
  BY <1>2, <1>4, <1>5 DEF DeliveryInv, HeldInv
<1>7. SpentInv'
  <2>1. \A m \in Node : call[Ack(m)].pc # "idle" => call[Ack(m)].cmd \in 1..k
    BY DEF DeliveryInv, TypeInv, BegunInv
  <2> QED
    BY <1>2, <1>4, <2>1 DEF DeliveryInv, SpentInv
<1>8. Queue!Issue(n)
  <2>1. \A i \in 1..k : (LifeOf(i))' = LifeOf(i)
    BY <1>2, <1>4 DEF LifeOf
  <2>2. \A i : i = k + 1 => (LifeOf(i))' = "queued"
    BY <1>4 DEF LifeOf
  <2>3. log' = [i \in 1..(k + 1) |-> IF i = k + 1 THEN [node |-> n, life |-> "queued"]
                                                  ELSE log[i]]
    <3> DEFINE e(i) == [node |-> cmds[i].node, life |-> LifeOf(i)]
    <3>1. ASSUME NEW i \in 1..(k + 1)
          PROVE  (e(i))' = IF i = k + 1 THEN [node |-> n, life |-> "queued"] ELSE log[i]
      BY <1>3, <1>4, <2>1, <2>2
    <3>2. log' = [i \in 1..(k + 1) |-> (e(i))']
      BY <1>4
    <3> HIDE DEF e, log
    <3> QED BY <3>1, <3>2
  <2>4. log \in Seq([node : Node, life : {LifeOf(i) : i \in 1..k}]) /\ Len(log) = k
    <3>1. \A i \in 1..k : cmds[i] \in Command
      BY <1>3
    <3>2. \A i \in 1..k : cmds[i].node \in Node
      BY <3>1 DEF Command
    <3> QED BY <1>3, <3>2
  <2>5. log' = Append(log, [node |-> n, life |-> "queued"])
    <3> HIDE DEF log
    <3> QED BY <1>3, <2>3, <2>4
  <2> QED
    BY <2>5 DEF Queue!Issue
<1> QED
  BY <1>6, <1>7, <1>8 DEF Queue!Next

LEMMA DispatchFacts ==
    ASSUME TypeInv, NEW n \in Node, Dispatch(n)
    PROVE  /\ Len(cmds') = Len(cmds)
           /\ \A i \in 1..Len(cmds) :
                /\ cmds'[i].node = cmds[i].node
                /\ i \in Pending(n) => cmds'[i].status = "dispatched"
                /\ i \notin Pending(n) => cmds'[i] = cmds[i]
<1> DEFINE new(i) == IF i \in Pending(n) THEN [cmds[i] EXCEPT !.status = "dispatched"]
                                         ELSE cmds[i]
<1>1. ASSUME NEW i \in 1..Len(cmds)
      PROVE  /\ new(i).node = cmds[i].node
             /\ i \in Pending(n) => new(i).status = "dispatched"
             /\ i \notin Pending(n) => new(i) = cmds[i]
  <2>1. cmds[i] \in Command
    BY DEF TypeInv, TypeOK
  <2> QED BY <2>1 DEF Command
<1>2. cmds' = [i \in 1..Len(cmds) |-> new(i)] /\ Len(cmds) \in Nat
  BY DEF Dispatch, TypeInv, TypeOK
<1> HIDE DEF new
<1> QED
  BY <1>1, <1>2

\* LIMIT after ORDER BY created_at: what a poll leaves is younger than what it takes.
LEMMA OldestFirst ==
    ASSUME TypeInv, NEW n \in Node
    PROVE  \A i \in Pending(n), j \in 1..Len(cmds) :
               cmds[j].node = n /\ cmds[j].status = "pending" /\ j \notin Pending(n)
                   => i < j
<1> DEFINE all == {i \in 1..Len(cmds) : cmds[i].node = n /\ cmds[i].status = "pending"}
           before(i) == {j \in all : j < i}
<1> SUFFICES ASSUME NEW i \in Pending(n), NEW j \in all, j \notin Pending(n), ~(i < j)
             PROVE  FALSE
  OBVIOUS
<1>1. i \in all /\ Cardinality(before(i)) < PollLimit /\ Len(cmds) \in Nat
  BY DEF Pending, TypeInv, TypeOK
<1>2. before(j) \subseteq before(i)
  BY <1>1
<1>3. IsFiniteSet(before(i))
  <2>1. IsFiniteSet(1..Len(cmds))
    BY <1>1, FS_Interval
  <2>2. before(i) \subseteq 1..Len(cmds)
    OBVIOUS
  <2> QED BY <2>1, <2>2, FS_Subset
<1>4. Cardinality(before(j)) <= Cardinality(before(i))
  BY <1>2, <1>3, FS_Subset
<1>5. Cardinality(before(i)) \in Nat /\ Cardinality(before(j)) \in Nat
  BY <1>2, <1>3, FS_Subset, FS_CardinalityType
<1>6. Cardinality(before(j)) < PollLimit
  BY <1>1, <1>4, <1>5 DEF PollLimit
<1> QED
  BY <1>6 DEF Pending

LEMMA HeldIsInInbox ==
    ASSUME DeliveryInv, NEW n \in Node, NEW i \in 1..Len(cmds)
    PROVE  i \in Queue!At(n, "held") <=> i \in inbox[n]
<1>1. DeliveryInv => TypeInv
  BY DEF DeliveryInv
<1>2. i \in Queue!At(n, "held") <=> cmds[i].node = n /\ LifeOf(i) = "held"
  BY <1>1, QueueAt
<1>3. LifeOf(i) = "held" <=> cmds[i].status = "dispatched" /\ \E m \in Node : i \in inbox[m]
  BY <1>1, LifeFacts
<1> QED
  BY <1>2, <1>3 DEF DeliveryInv, HeldInv

\* A poll, whether its answer arrives (life is "held") or not ("spent").
LEMMA PollOK ==
    ASSUME DeliveryInv, NEW n \in Node, AgentPoll(n) \/ LosePoll(n)
    PROVE  HeldInv' /\ SpentInv' /\ Queue!Next
<1> DEFINE I == Pending(n)
<1>1. /\ Dispatch(n) /\ inbox[n] = {} /\ I # {} /\ call[Ack(n)].pc = "idle"
      /\ UNCHANGED call
      /\ \/ inbox' = [inbox EXCEPT ![n] = I]
         \/ inbox' = inbox
  BY DEF AgentPoll, LosePoll, At, agents
<1>2. TypeInv /\ inbox \in [Node -> SUBSET CmdId]
  BY DEF DeliveryInv, TypeInv, TypeOK
<1>3. /\ Len(cmds') = Len(cmds)
      /\ \A i \in 1..Len(cmds) : /\ cmds'[i].node = cmds[i].node
                                 /\ i \in I => cmds'[i].status = "dispatched"
                                 /\ i \notin I => cmds'[i] = cmds[i]
  BY <1>1, <1>2, DispatchFacts
<1>4. /\ I \subseteq 1..Len(cmds)
      /\ \A i \in I : cmds[i].node = n /\ cmds[i].status = "pending"
  BY DEF Pending
<1>5. \A m \in Node : \A i \in inbox[m] :
        i \in 1..Len(cmds) /\ i \notin I /\ cmds'[i] = cmds[i]
  BY <1>2, <1>3, <1>4 DEF DeliveryInv, HeldInv, TypeInv, InboxInv
<1>6. \A m \in Node : call[Ack(m)].pc # "idle" =>
        /\ call[Ack(m)].cmd \in 1..Len(cmds)
        /\ call[Ack(m)].cmd \notin I
        /\ cmds'[call[Ack(m)].cmd] = cmds[call[Ack(m)].cmd]
  BY <1>3, <1>4 DEF DeliveryInv, SpentInv, TypeInv, BegunInv
<1>7. SpentInv'
  BY <1>1, <1>6 DEF DeliveryInv, SpentInv
<1>8. \A m \in Node : \A i \in I : call[Ack(m)].cmd # i
  <2> HIDE DEF I
  <2>1. \A i \in I : i # 0
    BY <1>2, <1>4 DEF TypeInv, TypeOK
  <2> QED BY <1>6, <2>1 DEF DeliveryInv, SpentInv
<1>9. HeldInv'
  <2>1. CASE inbox' = inbox
    BY <1>1, <1>5, <2>1 DEF DeliveryInv, HeldInv
  <2>2. CASE inbox' = [inbox EXCEPT ![n] = I]
    <3>1. inbox'[n] = I /\ \A m \in Node \ {n} : inbox'[m] = inbox[m]
      BY <1>2, <2>2
    <3> QED
      BY <1>1, <1>3, <1>4, <1>5, <1>8, <3>1 DEF DeliveryInv, HeldInv
  <2> QED BY <1>1, <2>1, <2>2
<1>10. Queue!At(n, "held") = {}
  <2>1. \A i \in Queue!At(n, "held") : i \in 1..Len(cmds)
    BY <1>2, QueueAt
  <2> QED BY <1>1, <2>1, HeldIsInInbox
<1>11. I \in SUBSET Queue!At(n, "queued")
  BY <1>2, <1>4, QueueAt, LifeFacts
<1>12. \A i \in I, j \in Queue!At(n, "queued") \ I : i < j
  <2>1. \A j \in Queue!At(n, "queued") :
          j \in 1..Len(cmds) /\ cmds[j].node = n /\ cmds[j].status = "pending"
    BY <1>2, QueueAt, LifeFacts
  <2> QED BY <1>2, <2>1, OldestFirst
<1>13. Queue!Move(I, "held") \/ Queue!Move(I, "spent")
  <2>1. ASSUME NEW i \in 1..Len(cmds), i \notin I PROVE (LifeOf(i))' = LifeOf(i)
    <3>1. \A m \in Node : i \in inbox'[m] <=> i \in inbox[m]
      BY <1>1, <1>2, <2>1
    <3> QED BY <1>3, <2>1, <3>1 DEF LifeOf
  <2>2. CASE inbox' = inbox
    <3>1. ASSUME NEW i \in I PROVE (LifeOf(i))' = "spent"
      <4>1. \A m \in Node : i \notin inbox'[m]
        BY <1>5, <2>2
      <4> QED BY <1>3, <1>4, <4>1 DEF LifeOf
    <3>2. \A i \in 1..Len(cmds) : (LifeOf(i))' = IF i \in I THEN "spent" ELSE LifeOf(i)
      BY <2>1, <3>1
    <3> HIDE DEF I
    <3> QED BY <1>2, <1>3, <3>2, QueueMove
  <2>3. CASE inbox' = [inbox EXCEPT ![n] = I]
    <3>1. ASSUME NEW i \in I PROVE (LifeOf(i))' = "held"
      <4>1. \E m \in Node : i \in inbox'[m]
        BY <1>2, <2>3
      <4> QED BY <1>3, <1>4, <4>1 DEF LifeOf
    <3>2. \A i \in 1..Len(cmds) : (LifeOf(i))' = IF i \in I THEN "held" ELSE LifeOf(i)
      BY <2>1, <3>1
    <3> HIDE DEF I
    <3> QED BY <1>2, <1>3, <3>2, QueueMove
  <2> QED BY <1>1, <2>2, <2>3
<1>14. Queue!Poll(n)
  <2> HIDE DEF I
  <2> QED BY <1>1, <1>10, <1>11, <1>12, <1>13 DEF Queue!Poll
<1> QED
  BY <1>7, <1>9, <1>14 DEF Queue!Next

\* An agent takes a command from its inbox.
LEMMA BeginOK ==
    ASSUME DeliveryInv, NEW n \in Node, NEW i \in inbox[n], NEW pc, pc # "idle", NEW ok,
           Begin(n, i, pc, ok), UNCHANGED cmds
    PROVE  HeldInv' /\ SpentInv' /\ Queue!Next
<1>1. /\ inbox' = [inbox EXCEPT ![n] = @ \ {i}]
      /\ call' = [call EXCEPT ![Ack(n)] = Executing(pc, i, ok)]
  BY DEF Begin, Become
<1>2. /\ TypeInv /\ inbox \in [Node -> SUBSET CmdId] /\ call \in [Proc -> Call]
      /\ i \in 1..Len(cmds)
  BY DEF DeliveryInv, TypeInv, TypeOK, InboxInv
<1>3. call'[Ack(n)].pc = pc /\ call'[Ack(n)].cmd = i
  BY <1>1, <1>2, ProcFacts DEF Executing, Begun
<1>4. \A m \in Node \ {n} : call'[Ack(m)] = call[Ack(m)]
  BY <1>1, <1>2, ProcFacts
<1>5. inbox'[n] = inbox[n] \ {i} /\ \A m \in Node \ {n} : inbox'[m] = inbox[m]
  BY <1>1, <1>2
<1>6. cmds[i].node = n /\ cmds[i].status = "dispatched"
  BY DEF DeliveryInv, HeldInv
<1>7. \A m \in Node \ {n} : i \notin inbox[m]
  BY <1>6 DEF DeliveryInv, HeldInv
<1>8. HeldInv'
  BY <1>3, <1>4, <1>5, <1>7 DEF DeliveryInv, HeldInv
<1>9. SpentInv'
  BY <1>3, <1>4, <1>6 DEF DeliveryInv, SpentInv
<1>10. \A j \in 1..Len(cmds) : (LifeOf(j))' = IF j \in {i} THEN "spent" ELSE LifeOf(j)
  <2>1. \A m \in Node : i \notin inbox'[m]
    BY <1>5, <1>7
  <2>2. (LifeOf(i))' = "spent"
    BY <1>6, <2>1 DEF LifeOf
  <2>3. ASSUME NEW j \in 1..Len(cmds), j # i PROVE (LifeOf(j))' = LifeOf(j)
    <3>1. \A m \in Node : j \in inbox'[m] <=> j \in inbox[m]
      BY <1>5, <2>3
    <3> QED BY <3>1 DEF LifeOf
  <2> QED BY <2>2, <2>3
<1>11. Queue!Move({i}, "spent")
  BY <1>2, <1>10, QueueMove
<1>12. Queue!Execute(n)
  BY <1>2, <1>11, HeldIsInInbox DEF Queue!Execute
<1> QED
  BY <1>8, <1>9, <1>12 DEF Queue!Next

\* AckCommand writes the result.
LEMMA AckOnceOK ==
    ASSUME DeliveryInv, NEW n \in Node, AckDone(n)
    PROVE  HeldInv' /\ SpentInv' /\ Queue!Next
<1> DEFINE k == call[Ack(n)].cmd
<1>1. PICK result \in {"completed", "failed"} : cmds' = [cmds EXCEPT ![k].status = result]
  BY DEF AckDone
<1>2. call[Ack(n)].pc = "ack_done" /\ Return(Ack(n)) /\ UNCHANGED inbox
  BY DEF AckDone, At, agents
<1>3. TypeInv /\ cmds \in Seq(Command) /\ call \in [Proc -> Call] /\ Ack(n) \in Proc
  BY ProcFacts DEF DeliveryInv, TypeInv, TypeOK
<1>4. /\ k \in 1..Len(cmds) /\ cmds[k] \in Command
      /\ cmds[k].node = n /\ cmds[k].status = "dispatched"
  <2>1. k \in 1..Len(cmds)
    BY <1>2 DEF DeliveryInv, TypeInv, BegunInv
  <2> QED BY <1>2, <1>3, <2>1 DEF DeliveryInv, SpentInv
<1>5. \A m \in Node : k \notin inbox[m]
  BY DEF DeliveryInv, HeldInv
<1>6. \A m \in Node \ {n} : call[Ack(m)].pc # "idle" => call[Ack(m)].cmd # k
  BY <1>4 DEF DeliveryInv, SpentInv
<1>7. call'[Ack(n)] = Idle /\ \A m \in Node \ {n} : call'[Ack(m)] = call[Ack(m)]
  BY <1>2, <1>3, ProcFacts DEF Return, Become
<1>8. Idle.pc = "idle" /\ Idle.cmd = 0
  BY DEF Idle, Begun
<1>9. /\ [cmds[k] EXCEPT !.status = result].node = n
      /\ [cmds[k] EXCEPT !.status = result].status = result
  BY <1>4 DEF Command
<1>10. /\ Len(cmds') = Len(cmds)
       /\ cmds'[k].node = n /\ cmds'[k].status = result
       /\ \A i \in 1..Len(cmds) : i # k => cmds'[i] = cmds[i]
  BY <1>1, <1>3, <1>4, <1>9
<1> HIDE DEF k
<1>11. \A m \in Node : \A i \in inbox[m] : i \in 1..Len(cmds) /\ i # k /\ i # 0
  BY <1>3, <1>5 DEF TypeInv, InboxInv, TypeOK
<1>12. HeldInv'
  BY <1>2, <1>7, <1>8, <1>10, <1>11 DEF DeliveryInv, HeldInv
<1>13. \A m \in Node : call[Ack(m)].pc # "idle" => call[Ack(m)].cmd \in 1..Len(cmds)
  BY <1>3 DEF TypeInv, BegunInv
<1>14. SpentInv'
  BY <1>6, <1>7, <1>8, <1>10, <1>13 DEF DeliveryInv, SpentInv
<1>15. \A i \in 1..Len(cmds) : (LifeOf(i))' = IF i \in {k} THEN result ELSE LifeOf(i)
  <2>1. ASSUME NEW i \in 1..Len(cmds), i # k PROVE (LifeOf(i))' = LifeOf(i)
    BY <1>2, <1>10, <2>1 DEF LifeOf
  <2>2. ASSUME NEW i \in 1..Len(cmds), i = k PROVE (LifeOf(i))' = result
    BY <1>10, <2>2 DEF LifeOf
  <2> QED BY <2>1, <2>2
<1>16. Queue!Move({k}, result)
  <2>1. \A i \in 1..Len(cmds) : cmds'[i].node = cmds[i].node
    BY <1>4, <1>10
  <2> QED BY <1>3, <1>10, <1>15, <2>1, QueueMove
<1>17. k \in Queue!At(n, "spent")
  <2>1. LifeOf(k) = "spent"
    BY <1>3, <1>4, <1>5, LifeFacts
  <2> QED BY <1>3, <1>4, <2>1, QueueAt
<1>18. Queue!Ack(n)
  BY <1>16, <1>17 DEF Queue!Ack
<1> QED
  BY <1>12, <1>14, <1>18 DEF Queue!Next

\* The agent restarts: what it held is forgotten, and so is what it was doing.
LEMMA ForgetOK ==
    ASSUME DeliveryInv, NEW n \in Node, AgentCrash(n)
    PROVE  HeldInv' /\ SpentInv' /\ (Queue!Next \/ UNCHANGED Queue!vars)
<1>1. Return(Ack(n)) /\ inbox' = [inbox EXCEPT ![n] = {}] /\ UNCHANGED cmds
  BY DEF AgentCrash, db
<1>2. /\ TypeInv /\ inbox \in [Node -> SUBSET CmdId] /\ call \in [Proc -> Call]
      /\ Ack(n) \in Proc
  BY ProcFacts DEF DeliveryInv, TypeInv, TypeOK
<1>3. call'[Ack(n)] = Idle /\ \A m \in Node \ {n} : call'[Ack(m)] = call[Ack(m)]
  BY <1>1, <1>2, ProcFacts DEF Return, Become
<1>4. Idle.pc = "idle" /\ Idle.cmd = 0
  BY DEF Idle, Begun
<1>5. inbox'[n] = {} /\ \A m \in Node \ {n} : inbox'[m] = inbox[m]
  BY <1>1, <1>2
<1>6. \A m \in Node : \A i \in inbox[m] : i # 0
  BY <1>2 DEF TypeInv, InboxInv, TypeOK
<1>7. HeldInv'
  BY <1>1, <1>3, <1>4, <1>5, <1>6 DEF DeliveryInv, HeldInv
<1>8. SpentInv'
  BY <1>1, <1>3, <1>4 DEF DeliveryInv, SpentInv
<1>9. CASE inbox[n] = {}
  <2>1. \A i \in 1..Len(cmds) : (LifeOf(i))' = LifeOf(i)
    <3>1. inbox' = inbox
      BY <1>1, <1>2, <1>9
    <3> QED BY <1>1, <3>1 DEF LifeOf
  <2>2. UNCHANGED Queue!vars
    BY <1>1, <2>1 DEF Queue!vars
  <2> QED BY <1>7, <1>8, <2>2
<1>10. CASE inbox[n] # {}
  <2>1. Queue!At(n, "held") = inbox[n]
    <3>1. \A i \in inbox[n] : i \in 1..Len(cmds)
      BY <1>2 DEF TypeInv, InboxInv
    <3>2. \A i \in Queue!At(n, "held") : i \in 1..Len(cmds)
      BY <1>2, QueueAt
    <3> QED BY <3>1, <3>2, HeldIsInInbox
  <2>2. ASSUME NEW i \in inbox[n] PROVE (LifeOf(i))' = "spent"
    <3>1. cmds[i].node = n /\ cmds[i].status = "dispatched"
      BY DEF DeliveryInv, HeldInv
    <3>2. \A m \in Node : i \notin inbox'[m]
      BY <1>5, <3>1 DEF DeliveryInv, HeldInv
    <3> QED BY <1>1, <3>1, <3>2 DEF LifeOf
  <2>3. ASSUME NEW i \in 1..Len(cmds), i \notin inbox[n] PROVE (LifeOf(i))' = LifeOf(i)
    <3>1. \A m \in Node : i \in inbox'[m] <=> i \in inbox[m]
      BY <1>5, <2>3
    <3> QED BY <1>1, <3>1 DEF LifeOf
  <2>4. \A i \in 1..Len(cmds) : (LifeOf(i))' = IF i \in inbox[n] THEN "spent" ELSE LifeOf(i)
    BY <2>2, <2>3
  <2>5. Queue!Move(Queue!At(n, "held"), "spent")
    BY <1>1, <1>2, <2>1, <2>4, QueueMove
  <2>6. Queue!Forget(n)
    BY <1>10, <2>1, <2>5 DEF Queue!Forget
  <2> QED BY <1>7, <1>8, <2>6 DEF Queue!Next
<1> QED
  BY <1>9, <1>10

-----------------------------------------------------------------------------
(* Every step is of one of these kinds. *)

\* A step of a process that is no command loop.
LEMMA Elsewhere ==
    ASSUME TypeInv, NEW p \in Proc, \A n \in Node : p # Ack(n),
           (\E pc : Step(p, pc)) \/ (\E k : Become(p, k))
    PROVE  \A n \in Node : call'[Ack(n)] = call[Ack(n)]
<1>1. call \in [Proc -> Call]
  BY DEF TypeInv, TypeOK
<1>2. \A q \in Proc : q # p => call'[q] = call[q]
  BY <1>1 DEF Step, Become
<1> QED
  BY <1>2, ProcFacts

\* A step of a command loop that has begun a command.
LEMMA InLoop ==
    ASSUME TypeInv, NEW n \in Node, call[Ack(n)].pc # "idle",
           \/ \E pc \in Pc \ {"idle"} : Step(Ack(n), pc)
           \/ Return(Ack(n))
           \/ \E pc \in Pc \ {"idle"} : \E s, nxt, ok :
                Become(Ack(n), Reading(pc, s, nxt, call[Ack(n)].cmd, ok))
    PROVE  \A m \in Node : AckKeeps(m)
<1>1. call \in [Proc -> Call] /\ Ack(n) \in Proc
  BY ProcFacts DEF TypeInv, TypeOK
<1>2. \A m \in Node : m # n => Ack(m) \in Proc /\ Ack(m) # Ack(n)
  BY ProcFacts
<1>3. ASSUME NEW pc \in Pc \ {"idle"}, Step(Ack(n), pc) PROVE \A m \in Node : AckKeeps(m)
  <2>1. call'[Ack(n)].pc = pc /\ call'[Ack(n)].cmd = call[Ack(n)].cmd /\ Moved(Ack(n))
    BY <1>1, <1>3, StepTyped DEF TypeInv
  <2> QED BY <1>2, <2>1 DEF AckKeeps, Moved
<1>4. ASSUME Return(Ack(n)) PROVE \A m \in Node : AckKeeps(m)
  <2>1. Idle.pc = "idle" /\ Idle.cmd = 0
    BY DEF Idle, Begun
  <2>2. call'[Ack(n)] = Idle /\ \A m \in Node : m # n => call'[Ack(m)] = call[Ack(m)]
    BY <1>1, <1>2, <1>4 DEF Return, Become
  <2> QED BY <2>1, <2>2 DEF AckKeeps
<1>5. ASSUME NEW pc \in Pc \ {"idle"}, NEW s, NEW nxt, NEW ok,
             Become(Ack(n), Reading(pc, s, nxt, call[Ack(n)].cmd, ok))
      PROVE  \A m \in Node : AckKeeps(m)
  <2>1. /\ call'[Ack(n)].pc = pc /\ call'[Ack(n)].cmd = call[Ack(n)].cmd
        /\ \A m \in Node : m # n => call'[Ack(m)] = call[Ack(m)]
    BY <1>1, <1>2, <1>5 DEF Become, Reading
  <2> QED BY <2>1 DEF AckKeeps
<1> QED
  BY <1>3, <1>4, <1>5

LEMMA Waiting == ASSUME UNCHANGED <<cmds, inbox, call>> PROVE Quietly
  BY DEF Quietly, AckKeeps

\* Every kind of step does what CommandQueue allows.
StepQ == HeldInv' /\ SpentInv' /\ (Queue!Next \/ UNCHANGED Queue!vars)

LEMMA ApiQuiet ==
    ASSUME TypeInv, NEW c \in Client,
           \/ CreateRecycle(c) \/ CreateInsert(c) \/ CreateSchedule(c) \/ CreateAssign(c)
           \/ DestroyCas(c) \/ WakeCas(c)
           \/ \E s \in Sandbox : ApiRequest(c, s)
    PROVE  Quietly
<1>1. UNCHANGED <<cmds, inbox>>
  BY DEF CreateRecycle, CreateInsert, CreateSchedule, CreateAssign, DestroyCas, WakeCas,
     ApiRequest, CreateLookup, DestroyRead, WakeRead, RestartRead, db, agents
<1>2. (\E pc : Step(Api(c), pc)) \/ (\E k : Become(Api(c), k))
  <2>1. CASE CreateRecycle(c) \/ CreateInsert(c)
    BY <2>1 DEF CreateRecycle, CreateInsert, Return
  <2>2. CASE CreateSchedule(c) \/ CreateAssign(c)
    BY <2>2 DEF CreateSchedule, CreateAssign, Return
  <2>3. CASE DestroyCas(c) \/ WakeCas(c)
    BY <2>3 DEF DestroyCas, WakeCas, Return
  <2>4. CASE \E s \in Sandbox : ApiRequest(c, s)
    BY <2>4 DEF ApiRequest, CreateLookup, DestroyRead, WakeRead, RestartRead
  <2> QED BY <2>1, <2>2, <2>3, <2>4
<1>3. \A n \in Node : call'[Ack(n)] = call[Ack(n)]
  BY <1>2, Elsewhere, ProcFacts
<1> QED
  BY <1>1, <1>3 DEF Quietly, AckKeeps

\* An insert the table's constraints refuse moves no command.
LEMMA CommandIssued ==
    ASSUME NEW type \in CmdType, NEW s \in Sandbox, NEW n \in Node \cup {NoNode}, NEW c \in Cid,
           CreateCommand(type, s, n, c), UNCHANGED inbox,
           \A m \in Node : call'[Ack(m)] = call[Ack(m)]
    PROVE  Issues \/ Quietly
<1>1. CASE UNCHANGED cmds
  BY <1>1 DEF Quietly, AckKeeps
<1>2. CASE n \in Node /\ InsertCommand(type, s, n, c)
  BY <1>2 DEF Issues
<1> QED
  BY <1>1, <1>2 DEF CreateCommand

LEMMA ApiIssues ==
    ASSUME TypeInv, NEW c \in Client, StartCmd(c) \/ StopCmd(c) \/ RestartCmd(c)
    PROVE  Issues \/ Quietly
<1> DEFINE k == call[Api(c)]
<1>1. /\ UNCHANGED inbox /\ Return(Api(c)) /\ k.pc \in {"start_cmd", "stop_cmd", "restart_cmd"}
  BY DEF StartCmd, StopCmd, RestartCmd, At, agents
<1>2. \A n \in Node : call'[Ack(n)] = call[Ack(n)]
  BY <1>1, Elsewhere, ProcFacts DEF Return
<1>3. k \in Call
  BY ProcFacts DEF TypeInv, TypeOK
<1>4. k.node \in Node \cup {NoNode} /\ k.cid \in Cid
  BY <1>3 DEF Call
<1>5. k.sb \in Sandbox
  BY <1>1, ProcFacts DEF TypeInv, CallsOK, CallOK
<1>6. PICK type \in CmdType, id \in Cid : CreateCommand(type, k.sb, k.node, id)
  BY <1>4, ZeroCid DEF StartCmd, StopCmd, RestartCmd, CmdType
<1> QED
  BY <1>1, <1>2, <1>4, <1>5, <1>6, CommandIssued

LEMMA EventQuiet ==
    ASSUME TypeInv, NEW n \in Node,
           \/ EventRead(n) \/ EventCas(n) \/ EventRoute(n)
           \/ CrashInc(n) \/ CrashFail(n) \/ CrashCas(n)
    PROVE  Quietly
<1>1. UNCHANGED <<cmds, inbox>>
  BY DEF EventRead, EventCas, EventRoute, CrashInc, CrashFail, CrashCas, db, agents
<1>2. CASE UNCHANGED call
  BY <1>1, <1>2, Waiting
<1>3. CASE (\E pc : Step(Evt(n), pc)) \/ (\E k : Become(Evt(n), k))
  <2>1. \A m \in Node : call'[Ack(m)] = call[Ack(m)]
    BY <1>3, Elsewhere, ProcFacts
  <2> QED BY <1>1, <2>1 DEF Quietly, AckKeeps
<1>4. CASE EventRead(n)
  BY <1>2, <1>3, <1>4 DEF EventRead
<1>5. CASE EventCas(n)
  BY <1>3, <1>5 DEF EventCas, Return
<1>6. CASE EventRoute(n) \/ CrashInc(n)
  BY <1>3, <1>6 DEF EventRoute, CrashInc
<1>7. CASE CrashFail(n) \/ CrashCas(n)
  BY <1>3, <1>7 DEF CrashFail, CrashCas, Return
<1> QED
  BY <1>4, <1>5, <1>6, <1>7

LEMMA EventIssues == ASSUME TypeInv, NEW n \in Node, CrashCmd(n) PROVE Issues \/ Quietly
<1> DEFINE k == call[Evt(n)]
<1>1. /\ UNCHANGED inbox /\ Return(Evt(n)) /\ k.pc = "crash_cmd"
      /\ CreateCommand("start_sandbox", k.sb, k.node, 0)
  BY DEF CrashCmd, At, agents
<1>2. \A m \in Node : call'[Ack(m)] = call[Ack(m)]
  BY <1>1, Elsewhere, ProcFacts DEF Return
<1>3. k \in Call
  BY ProcFacts DEF TypeInv, TypeOK
<1>4. k.sb \in Sandbox /\ k.node \in Node \cup {NoNode}
  BY <1>1, <1>3, ProcFacts DEF TypeInv, CallsOK, CallOK, Call
<1>5. "start_sandbox" \in CmdType
  BY DEF CmdType
<1> QED
  BY <1>1, <1>2, <1>4, <1>5, ZeroCid, CommandIssued

LEMMA PassQuiet ==
    ASSUME TypeInv,
           \/ ReapList \/ (\E x \in batch[Reaper] : ReapCas(x)) \/ ReapRoute
           \/ MoveList \/ (\E x \in batch[Monitor] : MoveCas(x)) \/ MoveRoute \/ MoveReset
           \/ MoveSchedule \/ MoveFail \/ MoveAssign
           \/ \E n \in Node : MonitorMark(n)
    PROVE  Quietly
<1>1. UNCHANGED <<cmds, inbox>>
  BY DEF ReapList, ReapCas, ReapRoute, MoveList, MoveCas, MoveRoute, MoveReset, MoveSchedule,
     MoveFail, MoveAssign, MonitorMark, db, agents
<1>2. CASE UNCHANGED call
  BY <1>1, <1>2, Waiting
<1>3. ASSUME NEW p \in {Reaper, Monitor}, (\E pc : Step(p, pc)) \/ (\E k : Become(p, k))
      PROVE  Quietly
  <2>1. p \in Proc /\ \A n \in Node : p # Ack(n)
    BY ProcFacts
  <2>2. \A m \in Node : call'[Ack(m)] = call[Ack(m)]
    BY <1>3, <2>1, Elsewhere
  <2> QED BY <1>1, <2>2 DEF Quietly, AckKeeps
<1>4. CASE ReapList \/ (\E x \in batch[Reaper] : ReapCas(x)) \/ ReapRoute
  BY <1>2, <1>3, <1>4 DEF ReapList, ReapCas, ReapRoute, Return
<1>5. CASE MoveList \/ (\E x \in batch[Monitor] : MoveCas(x)) \/ MoveRoute \/ MoveReset
  BY <1>2, <1>3, <1>5 DEF MoveList, MoveCas, MoveRoute, MoveReset, Return
<1>6. CASE MoveSchedule \/ MoveFail
  BY <1>3, <1>6 DEF MoveSchedule, MoveFail, Return
<1>7. CASE MoveAssign \/ \E n \in Node : MonitorMark(n)
  BY <1>3, <1>7 DEF MoveAssign, MonitorMark, Return
<1> QED
  BY <1>4, <1>5, <1>6, <1>7

LEMMA PassIssues == ASSUME TypeInv, ReapCmd \/ MoveCmd PROVE Issues \/ Quietly
<1>1. PICK p \in {Reaper, Monitor} :
        /\ UNCHANGED inbox /\ call[p].pc \in {"reap_cmd", "move_cmd"}
        /\ (\E pc : Step(p, pc)) \/ (\E k : Become(p, k))
        /\ \E type \in CmdType, id \in {0, call[p].cid} :
             CreateCommand(type, call[p].sb, call[p].node, id)
  BY DEF ReapCmd, MoveCmd, At, agents, CmdType, Return
<1>2. p \in Proc /\ \A m \in Node : p # Ack(m)
  BY ProcFacts
<1>3. \A m \in Node : call'[Ack(m)] = call[Ack(m)]
  BY <1>1, <1>2, Elsewhere
<1>4. call[p] \in Call
  BY <1>2 DEF TypeInv, TypeOK
<1>5. /\ call[p].sb \in Sandbox /\ call[p].node \in Node \cup {NoNode}
      /\ call[p].cid \in Cid
  BY <1>1, <1>2, <1>4 DEF TypeInv, CallsOK, CallOK, Call
<1>6. PICK type \in CmdType, id \in Cid : CreateCommand(type, call[p].sb, call[p].node, id)
  BY <1>1, <1>5, ZeroCid
<1> QED
  BY <1>1, <1>3, <1>5, <1>6, CommandIssued

LEMMA LoopQuiet ==
    ASSUME TypeInv, NEW n \in Node,
           \/ AgentTrack(n) \/ AgentUntrack(n)
           \/ AckRead(n) \/ AckCas(n) \/ AckReread(n) \/ AckPersist(n) \/ AckRefetch(n)
           \/ AckRoute(n) \/ AckReset(n) \/ LoseAck(n)
    PROVE  Quietly
<1>1. UNCHANGED <<cmds, inbox>> /\ call[Ack(n)].pc # "idle"
  BY DEF AgentTrack, AgentUntrack, AckRead, AckCas, AckReread, AckPersist, AckRefetch,
     AckRoute, AckReset, LoseAck, At, db, agents
<1>2. {"send", "ack_cas", "ack_reread", "ack_persist", "ack_refetch", "ack_route", "ack_reset",
       "ack_done"} \subseteq Pc \ {"idle"}
  BY DEF Pc
<1>3. \A nxt : AfterTransition(nxt) \in {"ack_persist", "ack_route"}
  BY DEF AfterTransition
<1>4. \/ \E pc \in Pc \ {"idle"} : Step(Ack(n), pc)
      \/ Return(Ack(n))
      \/ \E pc \in Pc \ {"idle"} : \E s, nxt, ok :
           Become(Ack(n), Reading(pc, s, nxt, call[Ack(n)].cmd, ok))
  <2>1. CASE AgentTrack(n) \/ AgentUntrack(n) \/ AckPersist(n) \/ AckReset(n) \/ LoseAck(n)
    BY <1>2, <2>1 DEF AgentTrack, AgentUntrack, AckPersist, AckReset, LoseAck
  <2>2. CASE AckRead(n)
    <3> DEFINE k == call[Ack(n)]
    <3>1. \/ Step(Ack(n), "ack_done")
          \/ Return(Ack(n))
          \/ \E pc \in {"ack_cas", "ack_persist", "ack_route"} : \E nxt :
               Become(Ack(n), Reading(pc, k.sb, nxt, k.cmd, k.ok))
      BY <1>3, <2>2 DEF AckRead
    <3> QED BY <1>2, <3>1
  <2>3. CASE AckCas(n)
    BY <1>2, <1>3, <2>3 DEF AckCas
  <2>4. CASE AckReread(n) \/ AckRefetch(n)
    BY <1>2, <1>3, <2>4 DEF AckReread, AckRefetch
  <2>5. CASE AckRoute(n)
    BY <1>2, <2>5 DEF AckRoute
  <2> QED BY <2>1, <2>2, <2>3, <2>4, <2>5
<1> QED
  BY <1>1, <1>4, InLoop DEF Quietly

LEMMA BeginsOK ==
    ASSUME DeliveryInv, NEW n \in Node, NEW i \in inbox[n],
           \/ AgentStart(n, i) \/ AgentStop(n, i) \/ AgentRestart(n, i)
           \/ AgentExpired(n, i) \/ AgentStartFails(n, i) \/ AgentStopFails(n, i)
    PROVE  HeldInv' /\ SpentInv' /\ Queue!Next
<1>1. UNCHANGED cmds
  BY DEF AgentStart, AgentStop, AgentRestart, AgentExpired, AgentStartFails, AgentStopFails, db
<1>2. \E pc \in {"created", "stopped", "send"}, ok \in BOOLEAN : Begin(n, i, pc, ok)
  BY DEF AgentStart, AgentStop, AgentRestart, AgentExpired, AgentStartFails, AgentStopFails
<1> QED
  BY <1>1, <1>2, BeginOK

LEMMA EnvironmentQuiet ==
    ASSUME TypeInv, Environment
    PROVE  Quietly
<1>1. ASSUME NEW n \in Node, Heartbeat(n) PROVE Quietly
  BY <1>1, Waiting DEF Heartbeat, agents
<1>2. ASSUME NEW n \in Node, NEW a \in App, ContainerExits(n, a) PROVE Quietly
  BY <1>2, Waiting DEF ContainerExits, db
<1>3. ASSUME NEW s \in Sandbox, GoesIdle(s) \/ FilePush(s) PROVE Quietly
  BY <1>3, Waiting DEF GoesIdle, FilePush, agents
<1> QED
  BY <1>1, <1>2, <1>3, PassQuiet DEF Environment

LEMMA FaultQuiet ==
    ASSUME TypeInv,
           (\E p \in Proc : AbortCall(p) \/ SkipStatement(p)) \/ ControlRestart
    PROVE  Quietly
<1>1. UNCHANGED <<cmds, inbox>>
  BY DEF AbortCall, SkipStatement, ControlRestart, db, agents
<1>2. ASSUME NEW p \in Proc, AbortCall(p) \/ SkipStatement(p) PROVE \A n \in Node : AckKeeps(n)
  <2>1. call[p].pc # "idle"
    BY <1>2 DEF AbortCall, SkipStatement, InControl, Tolerated
  <2>2. Return(p) \/ \E pc \in Pc \ {"idle"} : Step(p, pc)
    <3>1. DOMAIN Tolerated = {"reap_cmd", "move_reset", "ack_persist", "ack_refetch",
                              "ack_reset"}
      BY DEF Tolerated
    <3>2. \A pc \in DOMAIN Tolerated : Tolerated[pc] \in Pc \ {"idle"}
      BY <3>1 DEF Tolerated, Pc
    <3> QED BY <1>2, <3>2 DEF AbortCall, SkipStatement
  <2>3. CASE \A n \in Node : p # Ack(n)
    <3>1. \A n \in Node : call'[Ack(n)] = call[Ack(n)]
      BY <2>2, <2>3, Elsewhere DEF Return
    <3> QED BY <3>1 DEF AckKeeps
  <2>4. ASSUME NEW n \in Node, p = Ack(n) PROVE \A m \in Node : AckKeeps(m)
    BY <2>1, <2>2, <2>4, InLoop
  <2> QED BY <2>3, <2>4
<1>3. ASSUME ControlRestart PROVE \A n \in Node : AckKeeps(n)
  <2>1. Idle.pc = "idle" /\ Idle.cmd = 0
    BY DEF Idle, Begun
  <2>2. \A p \in Proc : call'[p] = call[p] \/ call'[p] = Idle
    BY <1>3 DEF ControlRestart
  <2> QED BY <2>1, <2>2, ProcFacts DEF AckKeeps
<1> QED
  BY <1>1, <1>2, <1>3 DEF Quietly

-----------------------------------------------------------------------------
(* The theorems. *)

LEMMA QueueInit == Init => QueueInv /\ Queue!Init
<1> SUFFICES ASSUME Init PROVE QueueInv /\ Queue!Init
  OBVIOUS
<1>1. IndInv
  BY InitOK
<1>2. Idle.pc = "idle" /\ Idle.cmd = 0
  BY DEF Idle, Begun
<1>3. HeldInv /\ SpentInv
  BY <1>2, ProcFacts DEF Init, HeldInv, SpentInv
<1>4. Queue!Init
  BY DEF Init, Queue!Init
<1> QED
  BY <1>1, <1>3, <1>4 DEF QueueInv

LEMMA DeliveryStep ==
    ASSUME DeliveryInv, [Next]_vars
    PROVE  StepQ
<1>1. TypeInv
  BY DEF DeliveryInv
<1>2. ASSUME Quietly PROVE StepQ
  BY <1>2, QuietOK DEF StepQ
<1>3. ASSUME Issues PROVE StepQ
  BY <1>3, IssueOK DEF StepQ
<1>4. ASSUME NEW c \in Client, ApiStep(c) \/ \E s \in Sandbox : ApiRequest(c, s) PROVE StepQ
  BY <1>1, <1>2, <1>3, <1>4, ApiQuiet, ApiIssues DEF ApiStep
<1>5. ASSUME NEW n \in Node, AgentStep(n) PROVE StepQ
  BY <1>1, <1>2, <1>5, PollOK, LoopQuiet, BeginsOK DEF AgentStep, StepQ
<1>6. ASSUME NEW n \in Node, HandleAck(n) PROVE StepQ
  BY <1>1, <1>2, <1>6, LoopQuiet, AckOnceOK DEF HandleAck, StepQ
<1>7. ASSUME NEW n \in Node, HandleEvent(n) PROVE StepQ
  BY <1>1, <1>2, <1>3, <1>7, EventQuiet, EventIssues DEF HandleEvent
<1>8. ASSUME ReaperStep \/ Reschedule PROVE StepQ
  BY <1>1, <1>2, <1>3, <1>8, PassQuiet, PassIssues DEF ReaperStep, Reschedule
<1>9. ASSUME Environment PROVE StepQ
  BY <1>1, <1>2, <1>9, EnvironmentQuiet
<1>10. ASSUME Fault PROVE StepQ
  BY <1>1, <1>2, <1>10, FaultQuiet, PollOK, LoopQuiet, ForgetOK, BeginsOK DEF Fault, StepQ
<1>11. ASSUME UNCHANGED vars PROVE StepQ
  BY <1>2, <1>11, Waiting DEF vars
<1> QED
  BY <1>4, <1>5, <1>6, <1>7, <1>8, <1>9, <1>10, <1>11 DEF Next

LEMMA QueueStep ==
    ASSUME QueueInv, [Next]_vars
    PROVE  QueueInv' /\ [Queue!Next]_(Queue!vars)
<1>1. IndInv'
  BY StepOK DEF QueueInv
<1>2. DeliveryInv
  BY TypesSuffice DEF QueueInv, DeliveryInv
<1>3. StepQ
  BY <1>2, DeliveryStep
<1> QED
  BY <1>1, <1>3 DEF QueueInv, StepQ

LEMMA QueueInvariant == Spec => []QueueInv
<1>1. QueueInv /\ [Next]_vars => QueueInv'
  BY QueueStep
<1> QED
  BY QueueInit, <1>1, PTL DEF Spec

\* PollPendingCommands never hands a command out again, and what a node holds was
\* dispatched to it and is neither acked nor being executed anywhere.
THEOREM HandedOutOnce == Spec => []CommandHandedOutOnce
<1>1. QueueInv => CommandHandedOutOnce
  BY DEF QueueInv, HeldInv, IndInv, AgentInv, CommandHandedOutOnce
<1> QED
  BY QueueInvariant, <1>1, PTL

\* The commands table, its handlers and the agents implement CommandQueue: every
\* command is delivered at most once, to its node, oldest first, and acked at
\* most once, whatever is lost and whoever restarts.
THEOREM LifecycleImplementsQueue == Spec => CommandsDelivered
<1>1. Init => Queue!Init
  BY QueueInit
<1>2. QueueInv /\ [Next]_vars => [Queue!Next]_(Queue!vars)
  BY QueueStep
<1>3. Spec => Queue!Init /\ [][Queue!Next]_(Queue!vars)
  BY <1>1, <1>2, QueueInvariant, PTL DEF Spec
<1> QED
  BY <1>3 DEF CommandsDelivered, Queue!Spec
=============================================================================
