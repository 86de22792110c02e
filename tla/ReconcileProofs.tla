-------------------------- MODULE ReconcileProofs --------------------------
(***************************************************************************)
(* The heartbeat reconciler and the freshness check write rows behind the  *)
(* state machine's back, so that nothing LifecycleProofs knows of the rows *)
(* holds here.  What is left is TypeInv: each step is shown to keep it     *)
(* from the types alone, and the delivery of commands rests on no more.    *)
(***************************************************************************)
EXTENDS LifecycleProofs, Reconcile

-----------------------------------------------------------------------------
(* The four parts of TypeInv: rows, table, calls and the rest. *)

RowsTyped == row \in [Sandbox -> Row]

TableKept == TableGrows /\ Bounded' /\ cmds' \in Seq(Command)

CallsTyped == call \in [Proc -> Call] /\ CallsOK /\ BegunInv

PassesTyped == healthy \subseteq Node /\ batch \in [{Reaper, Monitor} -> SUBSET Snapshot]

AgentsTyped == /\ inbox \in [Node -> SUBSET CmdId] /\ InboxInv
               /\ tracked \in [Node -> SUBSET Sandbox]
               /\ ctr \in [Node -> [App -> [cid : Cid, up : BOOLEAN]]]
               /\ evq \in [Node -> EventSeq]

RouteTyped == route \in [App -> [node : Node \cup {NoNode}, cid : Cid]]

CountsTyped == /\ gaveUp \subseteq Sandbox /\ crashes \in 0..MaxCrashes
               /\ timeouts \in 0..MaxTimeouts /\ faults \in 0..MaxFaults

LEMMA Parts ==
    TypeInv <=> /\ RowsTyped /\ cmds \in Seq(Command) /\ Bounded /\ CallsTyped
                /\ PassesTyped /\ AgentsTyped /\ RouteTyped /\ CountsTyped
  BY DEF TypeInv, TypeOK, RowsTyped, CallsTyped, PassesTyped, AgentsTyped, RouteTyped,
         CountsTyped, EventSeq

LEMMA Assembled ==
    ASSUME RowsTyped', TableKept, CallsTyped', PassesTyped', AgentsTyped', RouteTyped',
           CountsTyped'
    PROVE  TypeInv'
  BY DEF TypeInv, TypeOK, RowsTyped, CallsTyped, PassesTyped, AgentsTyped, RouteTyped,
         CountsTyped, EventSeq, TableKept

LEMMA RowsStay == ASSUME TypeInv, UNCHANGED row PROVE RowsTyped'
  BY DEF TypeInv, TypeOK, RowsTyped

LEMMA TableStays == ASSUME TypeInv, UNCHANGED cmds PROVE TableKept
  BY DEF TypeInv, TypeOK, Bounded, TableGrows, TableKept

LEMMA TableWider == ASSUME TypeInv, TableKept PROVE 1..Len(cmds) \subseteq 1..Len(cmds')
  BY DEF TypeInv, TypeOK, TableKept, TableGrows

LEMMA PassesStay == ASSUME TypeInv, UNCHANGED <<healthy, batch>> PROVE PassesTyped'
  BY DEF TypeInv, TypeOK, PassesTyped

LEMMA AgentsStay == ASSUME TypeInv, UNCHANGED agents, TableKept PROVE AgentsTyped'
<1>1. UNCHANGED <<inbox, tracked, ctr, evq>>
  BY DEF agents
<1>2. InboxInv'
  BY <1>1, TableWider DEF TypeInv, InboxInv
<1> QED
  BY <1>1, <1>2 DEF TypeInv, TypeOK, AgentsTyped, EventSeq

LEMMA RouteStays == ASSUME TypeInv, UNCHANGED route PROVE RouteTyped'
  BY DEF TypeInv, TypeOK, RouteTyped

LEMMA CountsStay == ASSUME TypeInv, UNCHANGED counts PROVE CountsTyped'
  BY DEF TypeInv, TypeOK, CountsTyped, counts

LEMMA OneMoreFault ==
    ASSUME TypeInv, faults < MaxFaults, faults' = faults + 1,
           UNCHANGED <<gaveUp, crashes, timeouts>>
    PROVE  CountsTyped'
  BY ConstantsAssumption DEF TypeInv, TypeOK, CountsTyped

\* A handler's statement touches its row, its call and the table.
LEMMA Statement ==
    ASSUME TypeInv, RowsTyped', TableKept, CallsTyped',
           UNCHANGED <<healthy, batch, agents, route, counts>>
    PROVE  TypeInv'
  BY PassesStay, AgentsStay, RouteStays, CountsStay, Assembled

-----------------------------------------------------------------------------
(* Rows, the table and calls, as the statements change them. *)

LEMMA RowPut ==
    ASSUME TypeInv, NEW s, NEW r, s \in Sandbox => r \in Row, row' = [row EXCEPT ![s] = r]
    PROVE  RowsTyped'
  BY DEF TypeInv, TypeOK, RowsTyped

LEMMA StatePut ==
    ASSUME TypeInv, NEW s, NEW st \in State \cup {"deleted"}, SetState(s, st)
    PROVE  RowsTyped'
<1>1. ASSUME s \in Sandbox PROVE [row[s] EXCEPT !.state = st] \in Row
  <2>1. row[s] \in Row
    BY <1>1 DEF TypeInv, TypeOK
  <2> QED BY <2>1 DEF Row
<1>2. row' = [row EXCEPT ![s] = [row[s] EXCEPT !.state = st]]
  BY DEF TypeInv, TypeOK, SetState
<1> QED
  BY <1>1, <1>2, RowPut

LEMMA IdlePut ==
    ASSUME TypeInv, NEW s \in Sandbox, NEW b \in BOOLEAN, row' = [row EXCEPT ![s].idle = b]
    PROVE  RowsTyped'
<1>1. row[s] \in Row /\ row' = [row EXCEPT ![s] = [row[s] EXCEPT !.idle = b]]
  BY DEF TypeInv, TypeOK
<1> QED
  BY <1>1, IdleRow, RowPut

LEMMA FailsPut ==
    ASSUME TypeInv, NEW s \in Sandbox, NEW x \in Nat, row' = [row EXCEPT ![s].fails = x]
    PROVE  RowsTyped'
<1>1. row[s] \in Row /\ row' = [row EXCEPT ![s] = [row[s] EXCEPT !.fails = x]]
  BY DEF TypeInv, TypeOK
<1>2. [row[s] EXCEPT !.fails = x] \in Row
  BY <1>1 DEF Row
<1> QED
  BY <1>1, <1>2, RowPut

LEMMA CidPut ==
    ASSUME TypeInv, NEW s \in Sandbox, NEW c \in Cid, row' = [row EXCEPT ![s].cid = c]
    PROVE  RowsTyped'
<1>1. row[s] \in Row /\ row' = [row EXCEPT ![s] = [row[s] EXCEPT !.cid = c]]
  BY DEF TypeInv, TypeOK
<1>2. [row[s] EXCEPT !.cid = c] \in Row
  BY <1>1 DEF Row
<1> QED
  BY <1>1, <1>2, RowPut

LEMMA NodePut ==
    ASSUME TypeInv, NEW s \in Sandbox, NEW n \in Node \cup {NoNode}, AssignSandboxToNode(s, n)
    PROVE  RowsTyped'
  BY ZeroCid DEF TypeInv, TypeOK, RowsTyped, AssignSandboxToNode, Row, State

LEMMA CommandPut ==
    ASSUME TypeInv, NEW type \in CmdType, NEW s \in Sandbox, NEW n \in Node \cup {NoNode},
           NEW c \in Cid, CreateCommand(type, s, n, c)
    PROVE  TableKept
<1>1. CASE UNCHANGED cmds
  BY <1>1, TableStays
<1>2. CASE n \in Node /\ InsertCommand(type, s, n, c)
  BY <1>2, ConstantsAssumption
     DEF TypeInv, TypeOK, InsertCommand, Command, CmdStatus, TableGrows, Bounded, TableKept
<1> QED
  BY <1>1, <1>2 DEF CreateCommand

\* What p's own record must satisfy for the calls to stay as they should be.
LEMMA CallMoved ==
    ASSUME TypeInv, TableKept, NEW p \in Proc, call' \in [Proc -> Call], Moved(p),
           (CallOK(call[p]))',
           \A n \in Node : p = Ack(n) /\ call'[p].pc # "idle"
                               => call'[p].cmd \in 1..Len(cmds)
    PROVE  CallsTyped'
<1>1. ASSUME NEW q \in Proc PROVE (CallOK(call[q]))'
  BY DEF TypeInv, CallsOK, CallOK, Moved
<1>2. ASSUME NEW n \in Node, call'[Ack(n)].pc # "idle"
      PROVE  call'[Ack(n)].cmd \in 1..Len(cmds')
  BY <1>2, TableWider, ProcFacts DEF TypeInv, BegunInv, Moved
<1> QED
  BY <1>1, <1>2 DEF CallsTyped, CallsOK, BegunInv

LEMMA CallStays == ASSUME TypeInv, TableKept, UNCHANGED call PROVE CallsTyped'
<1>1. call' \in [Proc -> Call] /\ Moved(Reaper) /\ (CallOK(call[Reaper]))'
  BY ProcFacts DEF TypeInv, TypeOK, Moved, CallsOK, CallOK
<1> QED
  BY <1>1, CallMoved, ProcFacts

LEMMA CallBecomes ==
    ASSUME TypeInv, TableKept, NEW p \in Proc, NEW k \in Call, Become(p, k), CallOK(k),
           \A n \in Node : p = Ack(n) /\ k.pc # "idle" => k.cmd \in 1..Len(cmds)
    PROVE  CallsTyped'
<1>1. call' \in [Proc -> Call] /\ Moved(p) /\ call'[p] = k
  BY DEF TypeInv, TypeOK, Moved, Become
<1>2. (CallOK(call[p]))'
  BY <1>1 DEF CallOK
<1> QED
  BY <1>1, <1>2, CallMoved

LEMMA CallReturns ==
    ASSUME TypeInv, TableKept, NEW p \in Proc, Return(p)
    PROVE  CallsTyped'
<1>1. Idle.pc = "idle"
  BY DEF Idle, Begun
<1>2. CallOK(Idle)
  BY <1>1 DEF CallOK, CasPc
<1> QED
  BY <1>1, <1>2, IdleType, CallBecomes DEF Return

\* The statements a handler may go on to without having read a row.
PlainPc == Pc \ ({"idle", "move_list"} \cup CasPc)

LEMMA CallSteps ==
    ASSUME TypeInv, TableKept, NEW p \in Proc, NEW pc \in PlainPc, Step(p, pc),
           call[p].pc \notin {"idle", "move_list"}
    PROVE  CallsTyped'
<1>1. pc \in Pc /\ pc \notin CasPc
  BY DEF PlainPc
<1>2. /\ call' \in [Proc -> Call] /\ Moved(p) /\ call'[p].pc = pc
      /\ call'[p].sb = call[p].sb /\ call'[p].cmd = call[p].cmd
  BY <1>1, StepTyped DEF TypeInv
<1>3. (CallOK(call[p]))'
  BY <1>1, <1>2 DEF TypeInv, CallsOK, CallOK
<1>4. \A n \in Node : p = Ack(n) => call'[p].cmd \in 1..Len(cmds)
  BY <1>2 DEF TypeInv, BegunInv
<1> QED
  BY <1>2, <1>3, <1>4, CallMoved

\* What a handler at work has in hand.
LEMMA CallFacts ==
    ASSUME TypeInv, NEW p \in Proc
    PROVE  /\ call[p].pc \notin {"idle", "move_list"} => call[p].sb \in Sandbox
           /\ call[p].pc \in CasPc => call[p].nxt \in State
           /\ call[p].old \in Sandbox \cup {NoSandbox} /\ call[p].nxt \in State \cup {"none"}
           /\ call[p].node \in Node \cup {NoNode} /\ call[p].cid \in Cid
           /\ call[p].cmd \in Cid /\ call[p].ok \in BOOLEAN
<1>1. call[p] \in Call /\ CallOK(call[p])
  BY DEF TypeInv, TypeOK, CallsOK
<1>2. /\ call[p].pc \notin {"idle", "move_list"} => call[p].sb \in Sandbox
      /\ call[p].pc \in CasPc => call[p].nxt \in State
  BY <1>1 DEF CallOK
<1> QED
  BY <1>1, <1>2 DEF Call

\* A handler chooses node n, and one that reads the row of s.
LEMMA CallPlaces ==
    ASSUME TypeInv, TableKept, NEW p \in Proc, \A n \in Node : p # Ack(n),
           NEW pc \in {"assign", "move_assign", "move_list"},
           NEW s \in Sandbox \cup {NoSandbox}, NEW n \in Node,
           pc # "move_list" => s \in Sandbox, Become(p, Placing(pc, s, n))
    PROVE  CallsTyped'
<1> DEFINE k == Placing(pc, s, n)
<1>1. k \in Call /\ k.pc = pc /\ k.sb = s
  BY ZeroCid DEF Placing, Begun, Call, Pc
<1>2. CallOK(k)
  BY <1>1 DEF CallOK, CasPc
<1> HIDE DEF k
<1> QED
  BY <1>1, <1>2, CallBecomes DEF k

LEMMA CallReads ==
    ASSUME TypeInv, TableKept, NEW p \in Proc, NEW s \in Sandbox,
           NEW pc \in Pc, NEW nxt \in State \cup {"none"}, pc \in CasPc => nxt \in State,
           NEW i \in Cid, NEW ok \in BOOLEAN, \A n \in Node : p = Ack(n) => i \in 1..Len(cmds),
           Become(p, Reading(pc, s, nxt, i, ok))
    PROVE  CallsTyped'
<1> DEFINE k == Reading(pc, s, nxt, i, ok)
<1>1. row[s] \in Row
  BY DEF TypeInv, TypeOK
<1>2. k \in Call /\ k.pc = pc /\ k.sb = s /\ k.nxt = nxt /\ k.cmd = i
  BY <1>1 DEF Reading, Call, Row
<1>3. CallOK(k)
  BY <1>2 DEF CallOK
<1> HIDE DEF k
<1> QED
  BY <1>2, <1>3, CallBecomes DEF k

LEMMA CallReadsRow ==
    ASSUME TypeInv, TableKept, NEW p \in Proc, \A n \in Node : p # Ack(n),
           NEW s \in Sandbox, NEW pc \in Pc, NEW nxt \in State \cup {"none"},
           pc \in CasPc => nxt \in State, Become(p, ReadRow(pc, s, nxt))
    PROVE  CallsTyped'
<1>1. 0 \in Cid /\ TRUE \in BOOLEAN /\ Become(p, Reading(pc, s, nxt, 0, TRUE))
  BY ZeroCid DEF ReadRow
<1> QED
  BY <1>1, CallReads

-----------------------------------------------------------------------------
(* The API's handlers. *)

LEMMA CreateTyped ==
    ASSUME TypeInv, NEW c \in Client,
           \/ CreateRecycle(c) \/ CreateInsert(c) \/ CreateSchedule(c) \/ CreateAssign(c)
    PROVE  TypeInv'
<1> DEFINE p == Api(c)
           s == call[Api(c)].sb
<1>p. p \in Proc /\ \A n \in Node : p # Ack(n)
  BY ProcFacts
<1>1. CASE CreateRecycle(c)
  <2>1. /\ UNCHANGED <<cmds, healthy, batch, agents, route, counts>>
        /\ call[p].pc = "recycle"
    BY <1>1 DEF CreateRecycle, At
  <2>2. TableKept
    BY <2>1, TableStays
  <2>3. CASE Return(p) /\ UNCHANGED row
    BY <1>p, <2>1, <2>2, <2>3, RowsStay, CallReturns, Statement
  <2>4. CASE SetState(call[p].old, "deleted") /\ Step(p, "insert")
    <3>1. CallsTyped'
      BY <1>p, <2>1, <2>2, <2>4, CallSteps DEF PlainPc, Pc, CasPc
    <3>2. RowsTyped'
      BY <2>4, StatePut
    <3> QED BY <2>1, <2>2, <3>1, <3>2, Statement
  <2> QED BY <1>1, <2>3, <2>4 DEF CreateRecycle
<1>2. CASE CreateInsert(c)
  <2>1. /\ UNCHANGED <<cmds, healthy, batch, agents, route, counts>>
        /\ call[p].pc = "insert"
    BY <1>2 DEF CreateInsert, At
  <2>2. TableKept
    BY <2>1, TableStays
  <2>3. CASE Return(p) /\ UNCHANGED row
    BY <1>p, <2>1, <2>2, <2>3, RowsStay, CallReturns, Statement
  <2>4. CASE /\ row' = [row EXCEPT ![s] = [state |-> "pending", node |-> NoNode, cid |-> 0,
                                           fails |-> 0, idle |-> FALSE]]
             /\ Step(p, "schedule")
    <3>1. CallsTyped'
      BY <1>p, <2>1, <2>2, <2>4, CallSteps DEF PlainPc, Pc, CasPc
    <3>2. [state |-> "pending", node |-> NoNode, cid |-> 0, fails |-> 0, idle |-> FALSE] \in Row
      BY ZeroCid DEF Row, State
    <3>3. RowsTyped'
      BY <2>4, <3>2, RowPut
    <3> QED BY <2>1, <2>2, <3>1, <3>3, Statement
  <2> QED BY <1>2, <2>3, <2>4 DEF CreateInsert
<1>3. CASE CreateSchedule(c)
  <2>1. /\ UNCHANGED <<row, cmds, healthy, batch, agents, route, counts>>
        /\ call[p].pc = "schedule"
    BY <1>3 DEF CreateSchedule, At, db
  <2>2. TableKept /\ RowsTyped'
    BY <2>1, TableStays, RowsStay
  <2>3. CASE Return(p)
    BY <1>p, <2>1, <2>2, <2>3, CallReturns, Statement
  <2>4. ASSUME NEW n \in healthy, Become(p, Placing("assign", s, n)) PROVE TypeInv'
    <3>1. n \in Node /\ s \in Sandbox
      BY <1>p, <2>1, CallFacts DEF TypeInv, TypeOK
    <3>2. CallsTyped'
      BY <1>p, <2>2, <2>4, <3>1, CallPlaces
    <3> QED BY <2>1, <2>2, <3>2, Statement
  <2> QED BY <1>3, <2>3, <2>4 DEF CreateSchedule
<1>4. CASE CreateAssign(c)
  <2>1. /\ UNCHANGED <<cmds, healthy, batch, agents, route, counts>>
        /\ call[p].pc = "assign"
    BY <1>4 DEF CreateAssign, At
  <2>2. TableKept
    BY <2>1, TableStays
  <2>3. CASE Return(p) /\ UNCHANGED row
    BY <1>p, <2>1, <2>2, <2>3, RowsStay, CallReturns, Statement
  <2>4. CASE AssignSandboxToNode(s, call[p].node) /\ Step(p, "start_cmd")
    <3>1. CallsTyped'
      BY <1>p, <2>1, <2>2, <2>4, CallSteps DEF PlainPc, Pc, CasPc
    <3>2. s \in Sandbox /\ call[p].node \in Node \cup {NoNode}
      BY <1>p, <2>1, CallFacts
    <3>3. RowsTyped'
      BY <2>4, <3>2, NodePut
    <3> QED BY <2>1, <2>2, <3>1, <3>3, Statement
  <2> QED BY <1>4, <2>3, <2>4 DEF CreateAssign
<1> QED
  BY <1>1, <1>2, <1>3, <1>4

\* A compare-and-set that ends the call when it misses.
LEMMA CasTyped ==
    ASSUME TypeInv, NEW p \in Proc, call[p].pc \in CasPc,
           UNCHANGED <<cmds, healthy, batch, agents, route, counts>>,
           NEW pc \in PlainPc,
           \/ SetState(call[p].sb, call[p].nxt) /\ Step(p, pc)
           \/ SetState(call[p].sb, call[p].nxt) /\ Return(p)
           \/ UNCHANGED row /\ Step(p, pc)
           \/ UNCHANGED row /\ Return(p)
    PROVE  TypeInv'
<1>1. TableKept
  BY TableStays
<1>2. call[p].nxt \in State /\ call[p].pc \notin {"idle", "move_list"}
  BY CallFacts DEF CasPc
<1>3. RowsTyped'
  BY <1>2, RowsStay, StatePut
<1>4. CallsTyped'
  BY <1>1, <1>2, CallReturns, CallSteps
<1> QED
  BY <1>1, <1>3, <1>4, Statement

\* An insert into the commands table that ends the call.
LEMMA InsertTyped ==
    ASSUME TypeInv, NEW p \in Proc, call[p].pc \notin {"idle", "move_list"},
           NEW type \in CmdType, NEW x \in Cid,
           CreateCommand(type, call[p].sb, call[p].node, x),
           Return(p), UNCHANGED <<row, healthy, batch, agents, route, counts>>
    PROVE  TypeInv'
<1>1. TableKept
  BY CallFacts, CommandPut
<1> QED
  BY <1>1, RowsStay, CallReturns, Statement

LEMMA ApiStepTyped ==
    ASSUME TypeInv, NEW c \in Client, ApiStep(c)
    PROVE  TypeInv'
<1> DEFINE p == Api(c)
<1>p. p \in Proc
  BY ProcFacts
<1>1. CASE CreateRecycle(c) \/ CreateInsert(c) \/ CreateSchedule(c) \/ CreateAssign(c)
  BY <1>1, CreateTyped
<1>2. CASE DestroyCas(c) \/ WakeCas(c)
  <2>1. "stop_cmd" \in PlainPc /\ "start_cmd" \in PlainPc
    BY DEF PlainPc, Pc, CasPc
  <2>2. /\ call[p].pc \in CasPc
        /\ UNCHANGED <<cmds, healthy, batch, agents, route, counts>>
        /\ \/ SetState(call[p].sb, call[p].nxt) /\ Step(p, "stop_cmd")
           \/ SetState(call[p].sb, call[p].nxt) /\ Step(p, "start_cmd")
           \/ UNCHANGED row /\ Return(p)
    BY <1>2 DEF DestroyCas, WakeCas, At, CasPc
  <2> QED BY <1>p, <2>1, <2>2, CasTyped
<1>3. CASE StartCmd(c) \/ StopCmd(c) \/ RestartCmd(c)
  <2>1. /\ call[p].pc \notin {"idle", "move_list"} /\ Return(p)
        /\ UNCHANGED <<row, healthy, batch, agents, route, counts>>
        /\ \/ CreateCommand("start_sandbox", call[p].sb, call[p].node, 0)
           \/ CreateCommand("stop_sandbox", call[p].sb, call[p].node, call[p].cid)
           \/ CreateCommand("restart_sandbox", call[p].sb, call[p].node, call[p].cid)
    BY <1>3 DEF StartCmd, StopCmd, RestartCmd, At
  <2>2. call[p].cid \in Cid /\ 0 \in Cid
    BY <1>p, CallFacts, ZeroCid
  <2>3. \A t \in {"start_sandbox", "stop_sandbox", "restart_sandbox"} : t \in CmdType
    BY DEF CmdType
  <2> QED BY <1>p, <2>1, <2>2, <2>3, InsertTyped
<1> QED
  BY <1>1, <1>2, <1>3 DEF ApiStep

LEMMA ApiRequestTyped ==
    ASSUME TypeInv, NEW c \in Client, NEW s \in Sandbox, ApiRequest(c, s)
    PROVE  TypeInv'
<1> DEFINE p == Api(c)
<1>p. p \in Proc /\ \A n \in Node : p # Ack(n)
  BY ProcFacts
<1>1. UNCHANGED <<row, cmds, healthy, batch, agents, route, counts>>
  BY DEF ApiRequest, CreateLookup, DestroyRead, WakeRead, RestartRead, db
<1>2. RowsTyped' /\ TableKept
  BY <1>1, RowsStay, TableStays
<1>3. CASE CreateLookup(c, s)
  <2>1. PICK x \in Sandbox \cup {NoSandbox}, pc \in {"insert", "recycle"} :
          Become(p, Creating(pc, s, x))
    BY <1>3 DEF CreateLookup, RowsOf
  <2> DEFINE k == Creating(pc, s, x)
  <2>2. k \in Call /\ k.pc = pc /\ k.sb = s
    BY ZeroCid DEF Creating, Begun, Call, Pc
  <2>3. CallOK(k)
    BY <2>2 DEF CallOK, CasPc
  <2> HIDE DEF k
  <2>4. CallsTyped'
    BY <1>p, <1>2, <2>1, <2>2, <2>3, CallBecomes DEF k
  <2> QED BY <1>1, <1>2, <2>4, Statement
<1>4. CASE DestroyRead(c, s) \/ WakeRead(c, s) \/ RestartRead(c, s)
  <2>1. PICK pc \in {"destroy_cas", "wake_cas", "restart_cmd"}, to \in State \cup {"none"} :
          Become(p, ReadRow(pc, s, to)) /\ (pc \in CasPc => to \in State)
    <3>1. ASSUME NEW to \in NextState(row[s].state, "destroy_requested") PROVE to \in State
      BY DEF NextState
    <3>2. "starting" \in State /\ "restart_cmd" \notin CasPc
      BY DEF State, CasPc
    <3> QED BY <1>4, <3>1, <3>2 DEF DestroyRead, WakeRead, RestartRead
  <2>2. pc \in Pc
    BY DEF Pc
  <2>3. CallsTyped'
    BY <1>p, <1>2, <2>1, <2>2, CallReadsRow
  <2> QED BY <1>1, <1>2, <2>3, Statement
<1> QED
  BY <1>3, <1>4 DEF ApiRequest

-----------------------------------------------------------------------------
(* The agents. *)

LEMMA InboxShrinks ==
    ASSUME TypeInv, TableKept, NEW n \in Node, NEW d, inbox' = [inbox EXCEPT ![n] = @ \ d]
    PROVE  inbox' \in [Node -> SUBSET CmdId] /\ InboxInv'
<1>1. /\ inbox' \in [Node -> SUBSET CmdId]
      /\ \A m \in Node : inbox'[m] \subseteq inbox[m]
  BY DEF TypeInv, TypeOK
<1>2. InboxInv'
  BY <1>1, TableWider DEF TypeInv, InboxInv
<1> QED
  BY <1>1, <1>2

LEMMA HeldCommand ==
    ASSUME TypeInv, NEW n \in Node, NEW i \in inbox[n]
    PROVE  i \in 1..Len(cmds) /\ i \in Cid /\ cmds[i] \in Command
                /\ AppOf[cmds[i].sb] \in App
<1>1. i \in 1..Len(cmds) /\ cmds[i] \in Command
  BY DEF TypeInv, TypeOK, InboxInv
<1>2. i \in Cid
  BY <1>1, ConstantsAssumption DEF TypeInv, TypeOK, Bounded, Cid
<1> QED
  BY <1>1, <1>2, ConstantsAssumption DEF Command

LEMMA BeginTyped ==
    ASSUME TypeInv, TableKept, NEW n \in Node, NEW i \in inbox[n],
           NEW pc \in {"created", "stopped", "send"}, NEW ok \in BOOLEAN, Begin(n, i, pc, ok)
    PROVE  CallsTyped' /\ inbox' \in [Node -> SUBSET CmdId] /\ InboxInv'
<1> DEFINE k == Executing(pc, i, ok)
<1>1. i \in 1..Len(cmds) /\ i \in Cid /\ cmds[i] \in Command
  BY HeldCommand
<1>2. k \in Call /\ k.pc = pc /\ k.cmd = i /\ k.sb \in Sandbox
  BY <1>1, ZeroCid DEF Executing, Begun, Call, Command, Pc
<1>3. CallOK(k)
  BY <1>2 DEF CallOK, CasPc
<1> HIDE DEF k
<1>4. CallsTyped'
  BY <1>1, <1>2, <1>3, CallBecomes, ProcFacts DEF Begin, k
<1>5. inbox' \in [Node -> SUBSET CmdId] /\ InboxInv'
  BY InboxShrinks DEF Begin
<1> QED
  BY <1>4, <1>5

\* What the three commands, and their failures, do to the containers and events.
LEMMA DockerTyped ==
    ASSUME TypeInv, NEW n \in Node, NEW a \in App, NEW i \in Cid,
           \/ UNCHANGED <<ctr, evq>>
           \/ /\ \/ ctr' = [ctr EXCEPT ![n][a] = [cid |-> i, up |-> TRUE]]
                 \/ ctr' = [ctr EXCEPT ![n][a] = NoContainer]
                 \/ ctr' = [ctr EXCEPT ![n][a].up = TRUE]
                 \/ ctr' = [ctr EXCEPT ![n][a].up = FALSE]
              /\ \/ Events(n, a, DieIfUp(n, a))
                 \/ Events(n, a, DieIfUp(n, a) \o <<"container_started">>)
    PROVE  /\ ctr' \in [Node -> [App -> [cid : Cid, up : BOOLEAN]]]
           /\ evq' \in [Node -> EventSeq]
<1>1. TypeOK
  BY DEF TypeInv
<1>2. [cid |-> i, up |-> TRUE] \in Container /\ NoContainer \in Container
  BY ContainerType, ZeroCid DEF NoContainer
<1>3. ctr' \in [Node -> [App -> [cid : Cid, up : BOOLEAN]]]
  <2>1. CASE UNCHANGED ctr
    BY <1>1, <2>1 DEF TypeOK
  <2>2. /\ \A x \in Container : [ctr EXCEPT ![n][a] = x]
                   \in [Node -> [App -> [cid : Cid, up : BOOLEAN]]]
        /\ \A b \in BOOLEAN : [ctr EXCEPT ![n][a].up = b]
                   \in [Node -> [App -> [cid : Cid, up : BOOLEAN]]]
    BY <1>1, ContainersTyped
  <2> QED BY <1>2, <2>1, <2>2
<1>4. evq' \in [Node -> EventSeq]
  <2>1. CASE UNCHANGED evq
    BY <1>1, <2>1 DEF TypeOK, EventSeq
  <2> QED BY <1>1, <2>1, DieIfUpType, EventsTyped
<1> QED
  BY <1>3, <1>4

\* The agent's side of beginning a command.
LEMMA BegunTyped ==
    ASSUME TypeInv, NEW n \in Node, NEW i \in inbox[n],
           NEW pc \in {"created", "stopped", "send"}, NEW ok \in BOOLEAN, Begin(n, i, pc, ok),
           UNCHANGED <<db, batch, tracked, route>>, CountsTyped',
           ctr' \in [Node -> [App -> [cid : Cid, up : BOOLEAN]]], evq' \in [Node -> EventSeq]
    PROVE  TypeInv'
<1>1. UNCHANGED <<row, cmds, healthy, batch, tracked, route>>
  BY DEF db
<1>2. TableKept
  BY <1>1, TableStays
<1>3. CallsTyped' /\ inbox' \in [Node -> SUBSET CmdId] /\ InboxInv'
  BY <1>2, BeginTyped
<1>4. tracked' \in [Node -> SUBSET Sandbox]
  BY <1>1 DEF TypeInv, TypeOK
<1>5. AgentsTyped'
  BY <1>3, <1>4 DEF AgentsTyped
<1>6. RowsTyped' /\ PassesTyped' /\ RouteTyped'
  BY <1>1, RowsStay, PassesStay, RouteStays
<1> QED
  BY <1>2, <1>3, <1>5, <1>6, Assembled

LEMMA ExecuteTyped ==
    ASSUME TypeInv, NEW n \in Node, NEW i \in inbox[n],
           \/ AgentStart(n, i) \/ AgentStop(n, i) \/ AgentRestart(n, i)
           \/ AgentExpired(n, i) \/ AgentStartFails(n, i) \/ AgentStopFails(n, i)
    PROVE  TypeInv'
<1> DEFINE a == AppOf[cmds[i].sb]
<1>1. a \in App /\ i \in Cid
  BY HeldCommand
<1>2. /\ \E pc \in {"created", "stopped", "send"}, ok \in BOOLEAN : Begin(n, i, pc, ok)
      /\ UNCHANGED <<db, batch, tracked, route>>
  BY DEF AgentStart, AgentStop, AgentRestart, AgentExpired, AgentStartFails, AgentStopFails
<1>3. CountsTyped'
  <2>1. \/ UNCHANGED counts
        \/ faults < MaxFaults /\ faults' = faults + 1 /\ UNCHANGED <<gaveUp, crashes, timeouts>>
    BY DEF AgentStart, AgentStop, AgentRestart, AgentExpired, AgentStartFails, AgentStopFails
  <2> QED BY <2>1, CountsStay, OneMoreFault
<1>4. \/ UNCHANGED <<ctr, evq>>
      \/ /\ \/ ctr' = [ctr EXCEPT ![n][a] = [cid |-> i, up |-> TRUE]]
            \/ ctr' = [ctr EXCEPT ![n][a] = NoContainer]
            \/ ctr' = [ctr EXCEPT ![n][a].up = TRUE]
            \/ ctr' = [ctr EXCEPT ![n][a].up = FALSE]
         /\ \/ Events(n, a, DieIfUp(n, a))
            \/ Events(n, a, DieIfUp(n, a) \o <<"container_started">>)
  BY DEF AgentStart, AgentStop, AgentRestart, AgentExpired, AgentStartFails, AgentStopFails
<1>5. ctr' \in [Node -> [App -> [cid : Cid, up : BOOLEAN]]] /\ evq' \in [Node -> EventSeq]
  BY <1>1, <1>4, DockerTyped
<1> QED
  BY <1>2, <1>3, <1>5, BegunTyped

LEMMA AgentStepTyped ==
    ASSUME TypeInv, NEW n \in Node, AgentStep(n)
    PROVE  TypeInv'
<1>1. CASE AgentPoll(n)
  <2>1. /\ Dispatch(n) /\ inbox' = [inbox EXCEPT ![n] = Pending(n)]
        /\ UNCHANGED <<row, healthy, call, batch, tracked, ctr, evq, route, counts>>
    BY <1>1 DEF AgentPoll
  <2>2. TableKept
    BY <2>1, DispatchTyped DEF TypeInv, TableKept
  <2>3. Pending(n) \subseteq 1..Len(cmds) /\ Pending(n) \subseteq CmdId
    BY PendingTyped DEF TypeInv
  <2>4. inbox' \in [Node -> SUBSET CmdId] /\ InboxInv'
    <3>1. /\ inbox' \in [Node -> SUBSET CmdId]
          /\ \A m \in Node : inbox'[m] \subseteq 1..Len(cmds)
      BY <2>1, <2>3 DEF TypeInv, TypeOK, InboxInv
    <3> QED BY <2>2, <3>1, TableWider DEF InboxInv
  <2>5. AgentsTyped'
    BY <2>1, <2>4 DEF TypeInv, TypeOK, AgentsTyped, EventSeq
  <2> QED
    BY <2>1, <2>2, <2>5, RowsStay, CallStays, PassesStay, RouteStays, CountsStay, Assembled
<1>2. CASE AgentTrack(n) \/ AgentUntrack(n)
  <2>1. /\ call[Ack(n)].pc \in {"created", "stopped"} /\ Step(Ack(n), "send")
        /\ UNCHANGED <<row, cmds, healthy, batch, inbox, ctr, evq, route, counts>>
    BY <1>2 DEF AgentTrack, AgentUntrack, At, db
  <2>2. TableKept
    BY <2>1, TableStays
  <2>3. CallsTyped'
    BY <2>1, <2>2, CallSteps, ProcFacts DEF PlainPc, Pc, CasPc
  <2>4. call[Ack(n)].sb \in Sandbox
    BY <2>1, CallFacts, ProcFacts
  <2>5. tracked' \in [Node -> SUBSET Sandbox]
    <3>1. tracked \in [Node -> SUBSET Sandbox]
      BY DEF TypeInv, TypeOK
    <3>2. \/ tracked' = [tracked EXCEPT ![n] = tracked[n] \cup {call[Ack(n)].sb}]
          \/ tracked' = [tracked EXCEPT ![n] = tracked[n] \ {call[Ack(n)].sb}]
      BY <1>2 DEF AgentTrack, AgentUntrack
    <3> QED BY <2>4, <3>1, <3>2
  <2>6. AgentsTyped'
    <3>1. InboxInv'
      BY <2>1 DEF TypeInv, InboxInv
    <3>2. inbox' = inbox /\ ctr' = ctr /\ evq' = evq
      BY <2>1
    <3>3. AgentsTyped
      BY Parts
    <3> QED BY <2>5, <3>1, <3>2, <3>3 DEF AgentsTyped
  <2> QED
    BY <2>1, <2>2, <2>3, <2>6, RowsStay, PassesStay, RouteStays, CountsStay, Assembled
<1>3. CASE \E i \in inbox[n] : AgentStart(n, i) \/ AgentStop(n, i) \/ AgentRestart(n, i)
  BY <1>3, ExecuteTyped
<1> QED
  BY <1>1, <1>2, <1>3 DEF AgentStep

-----------------------------------------------------------------------------
(* HandleAck. *)

\* A row that HandleAck reads, and a statement it goes on to.
LEMMA AckReadsTyped ==
    ASSUME TypeInv, TableKept, NEW n \in Node, call[Ack(n)].pc # "idle",
           call[Ack(n)].pc # "move_list",
           NEW pc \in AckPc2 \cup {"ack_cas"}, NEW nxt \in State,
           Become(Ack(n), Reading(pc, call[Ack(n)].sb, nxt, call[Ack(n)].cmd, call[Ack(n)].ok))
    PROVE  CallsTyped'
<1>1. /\ call[Ack(n)].sb \in Sandbox /\ call[Ack(n)].cmd \in Cid
      /\ call[Ack(n)].ok \in BOOLEAN /\ Ack(n) \in Proc
  BY CallFacts, ProcFacts
<1>2. call[Ack(n)].cmd \in 1..Len(cmds)
  BY DEF TypeInv, BegunInv
<1>3. pc \in Pc
  BY DEF AckPc2, Pc
<1> QED
  BY <1>1, <1>2, <1>3, CallReads

LEMMA AckStepsTyped ==
    ASSUME TypeInv, TableKept, NEW n \in Node, call[Ack(n)].pc # "idle",
           call[Ack(n)].pc # "move_list", NEW pc \in AckPc2, Step(Ack(n), pc)
    PROVE  CallsTyped'
<1>1. pc \in PlainPc
  BY DEF AckPc2, PlainPc, Pc, CasPc
<1> QED
  BY <1>1, CallSteps, ProcFacts

LEMMA AckReadTyped ==
    ASSUME TypeInv, NEW n \in Node, AckRead(n)
    PROVE  TypeInv'
<1> DEFINE k  == call[Ack(n)]
           st == row[k.sb].state
           ev == AckEvent(cmds[k.cmd].type, k.ok, st)
<1>1. k.pc = "send" /\ UNCHANGED <<row, cmds, healthy, batch, agents, route, counts>>
  BY DEF AckRead, At, db
<1>2. cmds[k.cmd].type \in CmdType /\ k.ok \in BOOLEAN
  <2>1. cmds[k.cmd] \in Command
    <3>1. k.cmd \in 1..Len(cmds)
      BY <1>1 DEF TypeInv, BegunInv
    <3> QED BY <3>1 DEF TypeInv, TypeOK
  <2>2. k.ok \in BOOLEAN
    BY CallFacts, ProcFacts
  <2> QED BY <2>1, <2>2 DEF Command
<1>3. TableKept /\ RowsTyped'
  BY <1>1, TableStays, RowsStay
<1>4. CallsTyped'
  <2>1. CASE Step(Ack(n), "ack_done")
    BY <1>1, <1>3, <2>1, AckStepsTyped DEF AckPc2
  <2>2. ASSUME NEW to \in NextState(st, ev),
               Become(Ack(n), Reading("ack_cas", k.sb, to, k.cmd, k.ok))
        PROVE  CallsTyped'
    <3>1. to \in State
      BY DEF NextState
    <3> QED BY <1>1, <1>3, <2>2, <3>1, AckReadsTyped
  <2>3. CASE /\ ev # "none" /\ st = AckTarget(ev)
             /\ Become(Ack(n), Reading(AfterTransition(st), k.sb, st, k.cmd, k.ok))
    <3>1. ev \in {"started", "start_failed", "destroyed"}
      BY <1>2, <2>3 DEF AckEvent, CmdType
    <3>2. st \in State
      BY <2>3, <3>1 DEF AckTarget, State
    <3> QED BY <1>1, <1>3, <2>3, <3>2, AfterTransitionPc, AckReadsTyped
  <2>4. CASE Return(Ack(n))
    BY <1>3, <2>4, CallReturns, ProcFacts
  <2> QED BY <2>1, <2>2, <2>3, <2>4 DEF AckRead
<1> QED
  BY <1>1, <1>3, <1>4, Statement

\* The rest of HandleAck: statements on the row, then the route and the table.
LEMMA AckRowTyped ==
    ASSUME TypeInv, NEW n \in Node,
           AckCas(n) \/ AckReread(n) \/ AckPersist(n) \/ AckRefetch(n) \/ AckReset(n)
    PROVE  TypeInv'
<1> DEFINE k == call[Ack(n)]
<1>1. /\ UNCHANGED <<cmds, healthy, batch, agents, route, counts>>
      /\ k.pc \in {"ack_cas", "ack_reread", "ack_persist", "ack_refetch", "ack_reset"}
  BY DEF AckCas, AckReread, AckPersist, AckRefetch, AckReset, At, db
<1>2. /\ k.sb \in Sandbox /\ k.cmd \in Cid /\ k.nxt \in State \cup {"none"}
      /\ k.pc = "ack_cas" => k.nxt \in State
  BY <1>1, CallFacts, ProcFacts DEF CasPc
<1>3. TableKept
  BY <1>1, TableStays
<1>4. CASE AckCas(n)
  <2>1. \/ SetState(k.sb, k.nxt) /\ Step(Ack(n), AfterTransition(k.nxt))
        \/ Step(Ack(n), "ack_reread") /\ UNCHANGED row
    BY <1>4 DEF AckCas
  <2>2. k.nxt \in State
    BY <1>2, <1>4 DEF AckCas, At
  <2>3. RowsTyped'
    BY <2>1, <2>2, RowsStay, StatePut
  <2>4. "ack_reread" \in AckPc2 /\ AfterTransition(k.nxt) \in AckPc2
    BY AfterTransitionPc DEF AckPc2
  <2>5. CallsTyped'
    BY <1>1, <1>3, <2>1, <2>4, AckStepsTyped
  <2> QED BY <1>1, <1>3, <2>3, <2>5, Statement
<1>5. CASE AckReread(n) \/ AckRefetch(n)
  <2>1. UNCHANGED row
    BY <1>5 DEF AckReread, AckRefetch, db
  <2>2. CASE Return(Ack(n))
    BY <1>1, <1>3, <2>1, <2>2, RowsStay, CallReturns, ProcFacts, Statement
  <2>3. ASSUME NEW pc \in AckPc2, Become(Ack(n), Reading(pc, k.sb, k.nxt, k.cmd, k.ok))
        PROVE  TypeInv'
    <3>1. k.ok \in BOOLEAN /\ k.cmd \in 1..Len(cmds)
      BY <1>1, CallFacts, ProcFacts DEF TypeInv, BegunInv
    <3>2. pc \in Pc /\ pc \notin CasPc
      BY DEF AckPc2, Pc, CasPc
    <3>3. CallsTyped'
      BY <1>2, <1>3, <2>3, <3>1, <3>2, CallReads, ProcFacts
    <3> QED BY <1>1, <1>3, <2>1, <3>3, RowsStay, Statement
  <2>4. "ack_route" \in AckPc2 /\ AfterTransition(k.nxt) \in AckPc2
    BY AfterTransitionPc DEF AckPc2
  <2> QED BY <1>5, <2>2, <2>3, <2>4 DEF AckReread, AckRefetch
<1>6. CASE AckPersist(n)
  <2>1. row' = [row EXCEPT ![k.sb].cid = k.cmd] /\ Step(Ack(n), "ack_refetch")
    BY <1>6 DEF AckPersist
  <2>2. RowsTyped'
    BY <1>2, <2>1, CidPut
  <2>3. CallsTyped'
    BY <1>1, <1>3, <2>1, AckStepsTyped DEF AckPc2
  <2> QED BY <1>1, <1>3, <2>2, <2>3, Statement
<1>7. CASE AckReset(n)
  <2>1. row' = [row EXCEPT ![k.sb].fails = 0] /\ Step(Ack(n), "ack_done")
    BY <1>7 DEF AckReset
  <2>2. RowsTyped'
    BY <1>2, <2>1, FailsPut
  <2>3. CallsTyped'
    BY <1>1, <1>3, <2>1, AckStepsTyped DEF AckPc2
  <2> QED BY <1>1, <1>3, <2>2, <2>3, Statement
<1> QED
  BY <1>4, <1>5, <1>6, <1>7

\* A step that changes a route, and moves its handler on or ends it.
LEMMA RoutePut ==
    ASSUME TypeInv, UNCHANGED <<row, cmds, healthy, batch, agents, counts>>, CallsTyped',
           NEW s \in Sandbox, NEW r \in [node : Node \cup {NoNode}, cid : Cid],
           route' = route \/ route' = [route EXCEPT ![AppOf[s]] = r]
    PROVE  TypeInv'
<1>1. RouteTyped'
  BY DEF TypeInv, TypeOK, RouteTyped
<1>2. TableKept
  BY TableStays
<1> QED
  BY <1>1, <1>2, RowsStay, PassesStay, AgentsStay, CountsStay, Assembled

LEMMA AckRouteTyped ==
    ASSUME TypeInv, NEW n \in Node, AckRoute(n)
    PROVE  TypeInv'
<1> DEFINE k == call[Ack(n)]
           r == IF k.nxt = "running" THEN [node |-> k.node, cid |-> k.cid] ELSE NoRoute
           pc == IF k.nxt = "running" /\ k.fails > 0 THEN "ack_reset" ELSE "ack_done"
<1>1. /\ k.pc = "ack_route" /\ UNCHANGED <<row, cmds, healthy, batch, agents, counts>>
      /\ Step(Ack(n), pc)
  BY DEF AckRoute, At, db
<1>2. route' = route \/ route' = [route EXCEPT ![AppOf[k.sb]] = r]
  BY DEF AckRoute
<1>3. k.sb \in Sandbox /\ k.node \in Node \cup {NoNode} /\ k.cid \in Cid
  BY <1>1, CallFacts, ProcFacts
<1>4. r \in [node : Node \cup {NoNode}, cid : Cid]
  BY <1>3, ZeroCid DEF NoRoute
<1>5. pc \in AckPc2
  BY DEF AckPc2
<1> HIDE DEF r, pc
<1>6. CallsTyped'
  BY <1>1, <1>5, TableStays, AckStepsTyped
<1> QED
  BY <1>1, <1>2, <1>3, <1>4, <1>6, RoutePut

LEMMA AckDoneTyped ==
    ASSUME TypeInv, NEW n \in Node, AckDone(n)
    PROVE  TypeInv'
<1> DEFINE k == call[Ack(n)]
           st == IF k.ok THEN "completed" ELSE "failed"
<1>1. /\ k.pc = "ack_done" /\ Return(Ack(n)) /\ cmds' = [cmds EXCEPT ![k.cmd].status = st]
      /\ UNCHANGED <<row, healthy, batch, agents, route, counts>>
  BY DEF AckDone, At
<1>2. k.cmd \in 1..Len(cmds)
  BY <1>1 DEF TypeInv, BegunInv
<1>3. st \in CmdStatus
  BY DEF CmdStatus
<1> HIDE DEF st
<1>4. cmds[k.cmd] \in Command
  BY <1>2 DEF TypeInv, TypeOK
<1> DEFINE new == [cmds[k.cmd] EXCEPT !.status = st]
<1>5. new \in Command /\ new.sb = cmds[k.cmd].sb
  BY <1>3, <1>4 DEF Command
<1>6. cmds \in Seq(Command) /\ cmds' = [cmds EXCEPT ![k.cmd] = new]
  BY <1>1, <1>2 DEF TypeInv, TypeOK
<1> HIDE DEF new
<1>7. /\ cmds' \in Seq(Command) /\ Len(cmds') = Len(cmds)
      /\ \A i \in 1..Len(cmds) : cmds'[i].sb = cmds[i].sb
  BY <1>2, <1>5, <1>6
<1>8. TableKept
  BY <1>6, <1>7 DEF TypeInv, Bounded, TableGrows, TableKept
<1> QED
  BY <1>1, <1>8, RowsStay, CallReturns, ProcFacts, Statement

LEMMA HandleAckTyped ==
    ASSUME TypeInv, NEW n \in Node, HandleAck(n)
    PROVE  TypeInv'
  BY AckReadTyped, AckRowTyped, AckRouteTyped, AckDoneTyped DEF HandleAck

-----------------------------------------------------------------------------
(* HandleEvent and HandleCrash. *)

LEMMA EventReadTyped ==
    ASSUME TypeInv, NEW n \in Node, EventRead(n)
    PROVE  TypeInv'
<1> DEFINE e == Head(evq[n])
<1>1. /\ UNCHANGED <<row, cmds, healthy, batch, inbox, tracked, ctr, route, counts>>
      /\ evq[n] # <<>> /\ evq' = [evq EXCEPT ![n] = Tail(@)]
  BY DEF EventRead, db
<1>2. TableKept
  BY <1>1, TableStays
<1>3. AgentsTyped'
  <2>1. AgentsTyped
    BY Parts
  <2>2. evq[n] \in EventSeq
    BY <2>1 DEF AgentsTyped
  <2>3. Tail(evq[n]) \in EventSeq
    BY <1>1, <2>2 DEF EventSeq
  <2>4. evq' \in [Node -> EventSeq]
    BY <1>1, <2>1, <2>3 DEF AgentsTyped
  <2>5. InboxInv'
    BY <1>1, <2>1 DEF AgentsTyped, InboxInv
  <2>6. inbox' = inbox /\ tracked' = tracked /\ ctr' = ctr
    BY <1>1
  <2> QED BY <2>1, <2>4, <2>5, <2>6 DEF AgentsTyped
<1>4. CallsTyped'
  <2>1. CASE UNCHANGED call
    BY <1>2, <2>1, CallStays
  <2>2. ASSUME NEW s \in tracked[n],
               NEW to \in NextState(row[s].state, MachineEvent(e.type)),
               Become(Evt(n), ReadRow("event_cas", s, to))
        PROVE  CallsTyped'
    <3>1. s \in Sandbox /\ to \in State /\ "event_cas" \in Pc
      BY DEF TypeInv, TypeOK, NextState, Pc
    <3>2. Evt(n) \in Proc /\ \A m \in Node : Evt(n) # Ack(m)
      BY ProcFacts
    <3> QED BY <1>2, <2>2, <3>1, <3>2, CallReadsRow
  <2> QED BY <2>1, <2>2 DEF EventRead
<1> QED
  BY <1>1, <1>2, <1>3, <1>4, RowsStay, PassesStay, RouteStays, CountsStay, Assembled

LEMMA CrashTyped ==
    ASSUME TypeInv, NEW n \in Node, CrashInc(n) \/ CrashFail(n) \/ CrashCas(n)
    PROVE  TypeInv'
<1> DEFINE k == call[Evt(n)]
<1>1. /\ UNCHANGED <<cmds, healthy, batch, agents, route>>
      /\ k.pc \in {"crash_inc", "crash_fail", "crash_cas"}
  BY DEF CrashInc, CrashFail, CrashCas, At
<1>2. k.sb \in Sandbox /\ Evt(n) \in Proc
  BY <1>1, CallFacts, ProcFacts
<1>3. TableKept
  BY <1>1, TableStays
<1>4. CASE CrashInc(n)
  <2>1. PICK pc \in {"crash_fail", "crash_cas"} : Step(Evt(n), pc)
    BY <1>4 DEF CrashInc
  <2>2. pc \in PlainPc
    BY DEF PlainPc, Pc, CasPc
  <2>3. CallsTyped'
    BY <1>1, <1>2, <1>3, <2>1, <2>2, CallSteps
  <2>4. row[k.sb].fails + 1 \in Nat
    <3>1. row[k.sb] \in Row
      BY <1>2 DEF TypeInv, TypeOK
    <3> QED BY <3>1 DEF Row
  <2>5. row' = [row EXCEPT ![k.sb].fails = row[k.sb].fails + 1] /\ UNCHANGED counts
    BY <1>4 DEF CrashInc
  <2>6. RowsTyped'
    BY <1>2, <2>4, <2>5, FailsPut
  <2> QED BY <1>1, <1>3, <2>3, <2>5, <2>6, Statement
<1>5. CASE CrashFail(n)
  <2>1. /\ SetState(k.sb, "failed") \/ UNCHANGED row
        /\ gaveUp' = gaveUp \cup {k.sb} /\ Return(Evt(n))
        /\ UNCHANGED <<crashes, timeouts, faults>>
    BY <1>5 DEF CrashFail, SetState
  <2>2. RowsTyped'
    <3>1. "failed" \in State \cup {"deleted"}
      BY DEF State
    <3> QED BY <2>1, <3>1, RowsStay, StatePut
  <2>3. CountsTyped'
    BY <1>2, <2>1 DEF TypeInv, TypeOK, CountsTyped
  <2> QED
    BY <1>1, <1>2, <1>3, <2>1, <2>2, <2>3, CallReturns, PassesStay, AgentsStay, RouteStays,
       Assembled
<1>6. CASE CrashCas(n)
  <2>1. /\ UNCHANGED counts
        /\ \/ SetState(k.sb, "starting") /\ Step(Evt(n), "crash_cmd")
           \/ UNCHANGED row /\ Return(Evt(n))
    BY <1>6 DEF CrashCas
  <2>2. "starting" \in State \cup {"deleted"} /\ "crash_cmd" \in PlainPc
    BY DEF State, PlainPc, Pc, CasPc
  <2>3. RowsTyped'
    BY <2>1, <2>2, RowsStay, StatePut
  <2>4. CallsTyped'
    BY <1>1, <1>2, <1>3, <2>1, <2>2, CallReturns, CallSteps
  <2> QED BY <1>1, <1>3, <2>1, <2>3, <2>4, Statement
<1> QED
  BY <1>4, <1>5, <1>6

LEMMA NoRouteType == NoRoute \in [node : Node \cup {NoNode}, cid : Cid]
  BY ZeroCid DEF NoRoute

LEMMA HandleEventTyped ==
    ASSUME TypeInv, NEW n \in Node, HandleEvent(n)
    PROVE  TypeInv'
<1> DEFINE k == call[Evt(n)]
<1>p. Evt(n) \in Proc
  BY ProcFacts
<1>1. CASE EventRead(n) \/ CrashInc(n) \/ CrashFail(n) \/ CrashCas(n)
  BY <1>1, EventReadTyped, CrashTyped
<1>2. CASE EventCas(n)
  <2>1. "event_route" \in PlainPc
    BY DEF PlainPc, Pc, CasPc
  <2>2. /\ k.pc \in CasPc /\ UNCHANGED <<cmds, healthy, batch, agents, route, counts>>
        /\ \/ SetState(k.sb, k.nxt) /\ Step(Evt(n), "event_route")
           \/ SetState(k.sb, k.nxt) /\ Return(Evt(n))
           \/ UNCHANGED row /\ Return(Evt(n))
    BY <1>2 DEF EventCas, At, CasPc
  <2> QED BY <1>p, <2>1, <2>2, CasTyped
<1>3. CASE EventRoute(n)
  <2>1. /\ k.pc = "event_route" /\ Step(Evt(n), "crash_inc")
        /\ UNCHANGED <<row, cmds, healthy, batch, agents, counts>>
        /\ route' = [route EXCEPT ![AppOf[k.sb]] = NoRoute]
    BY <1>3 DEF EventRoute, At, db
  <2>2. "crash_inc" \in PlainPc
    BY DEF PlainPc, Pc, CasPc
  <2>3. CallsTyped'
    BY <1>p, <2>1, <2>2, TableStays, CallSteps
  <2>4. k.sb \in Sandbox
    BY <1>p, <2>1, CallFacts
  <2> QED BY <2>1, <2>3, <2>4, NoRouteType, RoutePut
<1>4. CASE CrashCmd(n)
  <2>1. /\ k.pc \notin {"idle", "move_list"} /\ Return(Evt(n))
        /\ CreateCommand("start_sandbox", k.sb, k.node, 0)
        /\ UNCHANGED <<row, healthy, batch, agents, route, counts>>
    BY <1>4 DEF CrashCmd, At
  <2>2. "start_sandbox" \in CmdType /\ 0 \in Cid
    BY ZeroCid DEF CmdType
  <2> QED BY <1>p, <2>1, <2>2, InsertTyped
<1> QED
  BY <1>1, <1>2, <1>3, <1>4 DEF HandleEvent

-----------------------------------------------------------------------------
(* The reaper and the rescheduler. *)

LEMMA BatchLists ==
    ASSUME TypeInv, NEW q \in {Reaper, Monitor}, NEW rows \in SUBSET Sandbox,
           batch' = [batch EXCEPT ![q] = {SnapshotOf(s) : s \in rows}], UNCHANGED healthy
    PROVE  PassesTyped'
<1>1. ASSUME NEW s \in rows PROVE SnapshotOf(s) \in Snapshot
  <2>1. row[s] \in Row
    BY DEF TypeInv, TypeOK
  <2> QED BY <2>1 DEF SnapshotOf, Snapshot, Row
<1> DEFINE new == {SnapshotOf(s) : s \in rows}
<1>2. new \in SUBSET Snapshot
  BY <1>1
<1> HIDE DEF new
<1> QED
  BY <1>2 DEF TypeInv, TypeOK, PassesTyped, new

\* A pass takes up the listed row x, or passes over it.
LEMMA VisitTyped ==
    ASSUME TypeInv, NEW p \in {Reaper, Monitor}, NEW x \in batch[p],
           NEW pc \in {"reap_cmd", "move_route"}, NEW st \in State,
           batch' = [batch EXCEPT ![p] = @ \ {x}],
           UNCHANGED <<cmds, healthy, agents, route, counts>>,
           \/ SetState(x.sb, st) /\ Become(p, Visit(x, pc))
           \/ UNCHANGED <<row, call>>
    PROVE  TypeInv'
<1>1. x \in Snapshot
  BY DEF TypeInv, TypeOK
<1>2. PassesTyped'
  BY DEF TypeInv, TypeOK, PassesTyped
<1>3. TableKept
  BY TableStays
<1>4. RowsTyped'
  BY RowsStay, StatePut
<1>5. CallsTyped'
  <2> DEFINE k == Visit(x, pc)
  <2>1. k \in Call /\ k.pc = pc /\ k.sb \in Sandbox
    BY <1>1, ZeroCid DEF Visit, Begun, Call, Snapshot, Pc
  <2>2. CallOK(k)
    BY <2>1 DEF CallOK, CasPc
  <2> HIDE DEF k
  <2>3. p \in Proc /\ \A n \in Node : p # Ack(n)
    BY ProcFacts
  <2>4. CASE Become(p, k)
    BY <1>3, <2>1, <2>2, <2>3, <2>4, CallBecomes
  <2>5. CASE UNCHANGED call
    BY <1>3, <2>5, CallStays
  <2> QED BY <2>4, <2>5 DEF k
<1> QED
  BY <1>2, <1>3, <1>4, <1>5, AgentsStay, RouteStays, CountsStay, Assembled

LEMMA ReaperTyped ==
    ASSUME TypeInv, ReaperStep
    PROVE  TypeInv'
<1> DEFINE k == call[Reaper]
<1>p. Reaper \in Proc
  BY ProcFacts
<1>1. CASE ReapList
  <2>1. UNCHANGED <<row, cmds, healthy, call, agents, route, counts>>
    BY <1>1 DEF ReapList, db
  <2>2. PassesTyped'
    <3>1. PICK rows \in SUBSET Sandbox :
            batch' = [batch EXCEPT ![Reaper] = {SnapshotOf(s) : s \in rows}]
      BY <1>1 DEF ReapList
    <3> QED BY <2>1, <3>1, BatchLists
  <2>3. TableKept
    BY <2>1, TableStays
  <2> QED
    BY <2>1, <2>2, <2>3, RowsStay, CallStays, AgentsStay, RouteStays, CountsStay, Assembled
<1>2. ASSUME NEW x \in batch[Reaper], ReapCas(x) PROVE TypeInv'
  <2>1. /\ batch' = [batch EXCEPT ![Reaper] = @ \ {x}]
        /\ UNCHANGED <<cmds, healthy, agents, route, counts>>
        /\ \/ SetState(x.sb, "stopped") /\ Become(Reaper, Visit(x, "reap_cmd"))
           \/ UNCHANGED <<row, call>>
    BY <1>2 DEF ReapCas
  <2>2. "stopped" \in State
    BY DEF State
  <2> QED BY <2>1, <2>2, VisitTyped
<1>3. CASE ReapCmd
  <2>1. /\ k.pc = "reap_cmd" /\ CreateCommand("stop_sandbox", k.sb, k.node, k.cid)
        /\ Step(Reaper, "reap_route")
        /\ UNCHANGED <<row, healthy, batch, agents, route, counts>>
    BY <1>3 DEF ReapCmd, At
  <2>2. k.sb \in Sandbox /\ k.node \in Node \cup {NoNode} /\ k.cid \in Cid
    BY <1>p, <2>1, CallFacts
  <2>3. TableKept
    BY <2>1, <2>2, CommandPut DEF CmdType
  <2>4. "reap_route" \in PlainPc
    BY DEF PlainPc, Pc, CasPc
  <2>5. CallsTyped'
    BY <1>p, <2>1, <2>3, <2>4, CallSteps
  <2> QED BY <2>1, <2>3, <2>5, RowsStay, Statement
<1>4. CASE ReapRoute
  <2>1. /\ k.pc = "reap_route" /\ Return(Reaper)
        /\ UNCHANGED <<row, cmds, healthy, batch, agents, counts>>
        /\ route' = [route EXCEPT ![AppOf[k.sb]] = NoRoute]
    BY <1>4 DEF ReapRoute, At, db
  <2>2. CallsTyped' /\ k.sb \in Sandbox
    BY <1>p, <2>1, TableStays, CallReturns, CallFacts
  <2> QED BY <2>1, <2>2, NoRouteType, RoutePut
<1> QED
  BY <1>1, <1>2, <1>3, <1>4 DEF ReaperStep

LEMMA MoveRowTyped ==
    ASSUME TypeInv, MoveReset \/ MoveSchedule \/ MoveFail \/ MoveAssign
    PROVE  TypeInv'
<1> DEFINE k == call[Monitor]
<1>p. Monitor \in Proc /\ \A n \in Node : Monitor # Ack(n)
  BY ProcFacts
<1>1. /\ UNCHANGED <<cmds, healthy, batch, agents, route, counts>>
      /\ k.pc \in {"move_reset", "move_schedule", "move_fail", "move_assign"}
  BY DEF MoveReset, MoveSchedule, MoveFail, MoveAssign, At, db
<1>2. k.sb \in Sandbox /\ k.node \in Node \cup {NoNode}
  BY <1>p, <1>1, CallFacts
<1>3. TableKept
  BY <1>1, TableStays
<1>4. "move_schedule" \in PlainPc /\ "move_fail" \in PlainPc /\ "move_cmd" \in PlainPc
  BY DEF PlainPc, Pc, CasPc
<1>5. CASE MoveReset
  <2>1. row' = [row EXCEPT ![k.sb].fails = 0] /\ Step(Monitor, "move_schedule")
    BY <1>5 DEF MoveReset
  <2>2. RowsTyped'
    BY <1>2, <2>1, FailsPut
  <2>3. CallsTyped'
    BY <1>p, <1>1, <1>3, <1>4, <2>1, CallSteps
  <2> QED BY <1>1, <1>3, <2>2, <2>3, Statement
<1>6. CASE MoveSchedule
  <2>1. RowsTyped'
    BY <1>6, RowsStay DEF MoveSchedule, db
  <2>2. CASE Step(Monitor, "move_fail")
    <3>1. CallsTyped'
      BY <1>p, <1>1, <1>3, <1>4, <2>2, CallSteps
    <3> QED BY <1>1, <1>3, <2>1, <3>1, Statement
  <2>3. ASSUME NEW n \in healthy, Become(Monitor, Placing("move_assign", k.sb, n))
        PROVE  TypeInv'
    <3>1. n \in Node
      BY DEF TypeInv, TypeOK
    <3>2. CallsTyped'
      BY <1>p, <1>2, <1>3, <2>3, <3>1, CallPlaces
    <3> QED BY <1>1, <1>3, <2>1, <3>2, Statement
  <2> QED BY <1>6, <2>2, <2>3 DEF MoveSchedule
<1>7. CASE MoveFail
  <2>1. /\ SetState(k.sb, "failed") \/ UNCHANGED row
        /\ Return(Monitor)
    BY <1>7 DEF MoveFail
  <2>2. "failed" \in State \cup {"deleted"}
    BY DEF State
  <2>3. RowsTyped'
    BY <2>1, <2>2, RowsStay, StatePut
  <2> QED BY <1>p, <1>1, <1>3, <2>1, <2>3, CallReturns, Statement
<1>8. CASE MoveAssign
  <2>1. \/ AssignSandboxToNode(k.sb, k.node) /\ Step(Monitor, "move_cmd")
        \/ Return(Monitor) /\ UNCHANGED row
    BY <1>8 DEF MoveAssign
  <2>2. RowsTyped'
    BY <1>2, <2>1, RowsStay, NodePut
  <2>3. CallsTyped'
    BY <1>p, <1>1, <1>3, <1>4, <2>1, CallSteps, CallReturns
  <2> QED BY <1>1, <1>3, <2>2, <2>3, Statement
<1> QED
  BY <1>5, <1>6, <1>7, <1>8

LEMMA RescheduleTyped ==
    ASSUME TypeInv, Reschedule
    PROVE  TypeInv'
<1> DEFINE k == call[Monitor]
<1>p. Monitor \in Proc
  BY ProcFacts
<1>1. CASE MoveList
  <2>1. UNCHANGED <<row, cmds, healthy, agents, route, counts>> /\ Return(Monitor)
    BY <1>1 DEF MoveList, db
  <2>2. PassesTyped'
    <3>1. PICK rows \in SUBSET Sandbox :
            batch' = [batch EXCEPT ![Monitor] = {SnapshotOf(s) : s \in rows}]
      BY <1>1 DEF MoveList
    <3> QED BY <2>1, <3>1, BatchLists
  <2>3. TableKept
    BY <2>1, TableStays
  <2>4. CallsTyped'
    BY <1>p, <2>1, <2>3, CallReturns
  <2> QED
    BY <2>1, <2>2, <2>3, <2>4, RowsStay, AgentsStay, RouteStays, CountsStay, Assembled
<1>2. ASSUME NEW x \in batch[Monitor], MoveCas(x) PROVE TypeInv'
  <2>1. /\ batch' = [batch EXCEPT ![Monitor] = @ \ {x}]
        /\ UNCHANGED <<cmds, healthy, agents, route, counts>>
        /\ \/ SetState(x.sb, "pending") /\ Become(Monitor, Visit(x, "move_route"))
           \/ UNCHANGED <<row, call>>
    BY <1>2 DEF MoveCas
  <2>2. "pending" \in State
    BY DEF State
  <2> QED BY <2>1, <2>2, VisitTyped
<1>3. CASE MoveRoute
  <2>1. /\ k.pc = "move_route" /\ Step(Monitor, "move_reset")
        /\ UNCHANGED <<row, cmds, healthy, batch, agents, counts>>
        /\ route' = [route EXCEPT ![AppOf[k.sb]] = NoRoute]
    BY <1>3 DEF MoveRoute, At, db
  <2>2. "move_reset" \in PlainPc
    BY DEF PlainPc, Pc, CasPc
  <2>3. CallsTyped'
    BY <1>p, <2>1, <2>2, TableStays, CallSteps
  <2>4. k.sb \in Sandbox
    BY <1>p, <2>1, CallFacts
  <2> QED BY <2>1, <2>3, <2>4, NoRouteType, RoutePut
<1>4. CASE MoveReset \/ MoveSchedule \/ MoveFail \/ MoveAssign
  BY <1>4, MoveRowTyped
<1>5. CASE MoveCmd
  <2>1. /\ k.pc \notin {"idle", "move_list"} /\ Return(Monitor)
        /\ CreateCommand("start_sandbox", k.sb, k.node, 0)
        /\ UNCHANGED <<row, healthy, batch, agents, route, counts>>
    BY <1>5 DEF MoveCmd, At
  <2>2. "start_sandbox" \in CmdType /\ 0 \in Cid
    BY ZeroCid DEF CmdType
  <2> QED BY <1>p, <2>1, <2>2, InsertTyped
<1> QED
  BY <1>1, <1>2, <1>3, <1>4, <1>5 DEF Reschedule

-----------------------------------------------------------------------------
(* The environment and the faults. *)

LEMMA EnvironmentTyped ==
    ASSUME TypeInv, Environment
    PROVE  TypeInv'
<1>1. ASSUME NEW n \in Node, MonitorMark(n) PROVE TypeInv'
  <2>1. /\ timeouts < MaxTimeouts /\ timeouts' = timeouts + 1 /\ healthy' = healthy \ {n}
        /\ Become(Monitor, Placing("move_list", NoSandbox, n))
        /\ UNCHANGED <<row, cmds, batch, agents, route, gaveUp, crashes, faults>>
    BY <1>1 DEF MonitorMark
  <2>2. TableKept
    BY <2>1, TableStays
  <2>3. PassesTyped' /\ CountsTyped'
    BY <2>1, ConstantsAssumption DEF TypeInv, TypeOK, PassesTyped, CountsTyped
  <2>4. Monitor \in Proc /\ \A m \in Node : Monitor # Ack(m)
    BY ProcFacts
  <2>5. CallsTyped'
    BY <2>1, <2>2, <2>4, CallPlaces
  <2> QED BY <2>1, <2>2, <2>3, <2>5, RowsStay, AgentsStay, RouteStays, Assembled
<1>2. ASSUME NEW n \in Node, Heartbeat(n) PROVE TypeInv'
  <2>1. /\ healthy' = healthy \cup {n}
        /\ UNCHANGED <<row, cmds, call, batch, agents, route, counts>>
    BY <1>2 DEF Heartbeat
  <2>2. PassesTyped'
    BY <2>1 DEF TypeInv, TypeOK, PassesTyped
  <2> QED
    BY <2>1, <2>2, TableStays, CallStays, RowsStay, AgentsStay, RouteStays, CountsStay,
       Assembled
<1>3. ASSUME NEW n \in Node, NEW a \in App, ContainerExits(n, a) PROVE TypeInv'
  <2>1. /\ crashes < MaxCrashes /\ crashes' = crashes + 1
        /\ ctr' = [ctr EXCEPT ![n][a].up = FALSE]
        /\ UNCHANGED <<row, cmds, healthy, call, batch, inbox, tracked, route>>
        /\ UNCHANGED <<gaveUp, timeouts, faults>>
    BY <1>3 DEF ContainerExits, db
  <2>2. evq' \in [Node -> EventSeq]
    <3>1. /\ <<"container_exited">> \in Seq(EventType)
          /\ <<"container_oom", "container_exited">> \in Seq(EventType)
      BY DEF EventType
    <3> QED BY <1>3, <3>1, EventsTyped DEF ContainerExits, TypeInv
  <2>3. ctr' \in [Node -> [App -> [cid : Cid, up : BOOLEAN]]]
    BY <2>1, ContainersTyped DEF TypeInv
  <2>4. CountsTyped'
    BY <2>1, ConstantsAssumption DEF TypeInv, TypeOK, CountsTyped
  <2>5. TableKept
    BY <2>1, TableStays
  <2>6. AgentsTyped'
    <3>1. inbox' = inbox /\ tracked' = tracked /\ InboxInv'
      BY <2>1 DEF TypeInv, InboxInv
    <3>2. AgentsTyped
      BY Parts
    <3> QED BY <2>2, <2>3, <3>1, <3>2 DEF AgentsTyped
  <2> QED
    BY <2>1, <2>4, <2>5, <2>6, RowsStay, CallStays, PassesStay, RouteStays, Assembled
<1>4. ASSUME NEW s \in Sandbox, GoesIdle(s) \/ FilePush(s) PROVE TypeInv'
  <2>1. /\ \E b \in BOOLEAN : row' = [row EXCEPT ![s].idle = b]
        /\ UNCHANGED <<cmds, healthy, call, batch, agents, route, gaveUp, crashes, faults>>
        /\ timeouts' = timeouts \/ (timeouts < MaxTimeouts /\ timeouts' = timeouts + 1)
    BY <1>4 DEF GoesIdle, FilePush, counts
  <2>2. RowsTyped'
    BY <2>1, IdlePut
  <2>3. CountsTyped'
    BY <2>1, ConstantsAssumption DEF TypeInv, TypeOK, CountsTyped
  <2>4. TableKept
    BY <2>1, TableStays
  <2> QED
    BY <2>1, <2>2, <2>3, <2>4, CallStays, PassesStay, AgentsStay, RouteStays, Assembled
<1> QED
  BY <1>1, <1>2, <1>3, <1>4 DEF Environment

LEMMA CallFaultTyped ==
    ASSUME TypeInv, NEW p \in Proc, AbortCall(p) \/ SkipStatement(p)
    PROVE  TypeInv'
<1>1. /\ faults < MaxFaults /\ faults' = faults + 1
      /\ UNCHANGED <<row, cmds, healthy, batch, agents, route, gaveUp, crashes, timeouts>>
  BY DEF AbortCall, SkipStatement, db
<1>2. TableKept /\ CountsTyped'
  BY <1>1, TableStays, OneMoreFault
<1>3. CallsTyped'
  <2>1. CASE AbortCall(p)
    BY <1>2, <2>1, CallReturns DEF AbortCall
  <2>2. CASE SkipStatement(p)
    <3>1. PICK pc \in {"reap_route", "move_schedule", "ack_refetch", "ack_route", "ack_done"} :
            Step(p, pc) /\ call[p].pc \notin {"idle", "move_list"}
      BY <2>2 DEF SkipStatement, Tolerated
    <3>2. pc \in PlainPc
      BY DEF PlainPc, Pc, CasPc
    <3> QED BY <1>2, <3>1, <3>2, CallSteps
  <2> QED BY <2>1, <2>2
<1> QED
  BY <1>1, <1>2, <1>3, RowsStay, PassesStay, AgentsStay, RouteStays, Assembled

LEMMA ControlRestartTyped ==
    ASSUME TypeInv, ControlRestart
    PROVE  TypeInv'
<1>1. /\ faults < MaxFaults /\ faults' = faults + 1
      /\ call' = [p \in Proc |-> IF InControl(p) THEN Idle ELSE call[p]]
      /\ batch' = [p \in DOMAIN batch |-> {}]
      /\ UNCHANGED <<row, cmds, healthy, agents, route, gaveUp, crashes, timeouts>>
  BY DEF ControlRestart, db
<1>2. Idle.pc = "idle"
  BY DEF Idle, Begun
<1>3. \A p \in Proc : call'[p] = call[p] \/ call'[p].pc = "idle"
  BY <1>1, <1>2
<1>4. call' \in [Proc -> Call]
  BY <1>1, IdleType DEF TypeInv, TypeOK
<1>5. CallsTyped'
  <2>1. ASSUME NEW p \in Proc PROVE (CallOK(call[p]))'
    BY <1>3 DEF TypeInv, CallsOK, CallOK, CasPc
  <2>2. BegunInv'
    BY <1>1, <1>3, ProcFacts DEF TypeInv, BegunInv
  <2> QED BY <1>4, <2>1, <2>2 DEF CallsTyped, CallsOK
<1>6. PassesTyped'
  BY <1>1 DEF TypeInv, TypeOK, PassesTyped
<1>7. TableKept /\ CountsTyped'
  BY <1>1, TableStays, OneMoreFault
<1> QED
  BY <1>1, <1>5, <1>6, <1>7, RowsStay, AgentsStay, RouteStays, Assembled

LEMMA AgentFaultTyped ==
    ASSUME TypeInv, NEW n \in Node, LosePoll(n) \/ LoseAck(n) \/ AgentCrash(n)
    PROVE  TypeInv'
<1>1. /\ faults < MaxFaults /\ faults' = faults + 1
      /\ UNCHANGED <<row, healthy, batch, ctr, route, gaveUp, crashes, timeouts>>
  BY DEF LosePoll, LoseAck, AgentCrash, db, agents
<1>2. CountsTyped' /\ Ack(n) \in Proc
  BY <1>1, OneMoreFault, ProcFacts
<1>3. CASE LosePoll(n)
  <2>1. Dispatch(n) /\ UNCHANGED <<call, agents>>
    BY <1>3 DEF LosePoll
  <2>2. TableKept
    BY <2>1, DispatchTyped DEF TypeInv, TableKept
  <2> QED
    BY <1>1, <1>2, <2>1, <2>2, RowsStay, CallStays, PassesStay, AgentsStay, RouteStays, Assembled
<1>4. CASE LoseAck(n)
  <2>1. Return(Ack(n)) /\ UNCHANGED <<cmds, agents>>
    BY <1>4 DEF LoseAck, db
  <2>2. TableKept
    BY <2>1, TableStays
  <2>3. CallsTyped'
    BY <1>2, <2>1, <2>2, CallReturns
  <2> QED
    BY <1>1, <1>2, <2>1, <2>2, <2>3, RowsStay, PassesStay, AgentsStay, RouteStays, Assembled
<1>5. CASE AgentCrash(n)
  <2>1. /\ Return(Ack(n)) /\ UNCHANGED cmds /\ inbox' = [inbox EXCEPT ![n] = {}]
        /\ tracked' = [tracked EXCEPT ![n] = {}] /\ evq' = [evq EXCEPT ![n] = <<>>]
    BY <1>5 DEF AgentCrash, db
  <2>2. TableKept
    BY <2>1, TableStays
  <2>3. CallsTyped'
    BY <1>2, <2>1, <2>2, CallReturns
  <2>4. AgentsTyped'
    <3>1. AgentsTyped
      BY Parts
    <3>2. <<>> \in EventSeq
      BY DEF EventSeq
    <3>3. evq' \in [Node -> EventSeq]
      BY <2>1, <3>1, <3>2 DEF AgentsTyped
    <3>4. /\ inbox' \in [Node -> SUBSET CmdId] /\ tracked' \in [Node -> SUBSET Sandbox]
          /\ \A m \in Node : inbox'[m] \subseteq inbox[m]
      BY <2>1, <3>1 DEF AgentsTyped
    <3>5. InboxInv'
      BY <2>1, <3>1, <3>4 DEF AgentsTyped, InboxInv
    <3> QED BY <1>1, <3>1, <3>3, <3>4, <3>5 DEF AgentsTyped
  <2> QED
    BY <1>1, <1>2, <2>2, <2>3, <2>4, RowsStay, PassesStay, RouteStays, Assembled
<1> QED
  BY <1>3, <1>4, <1>5

\* Every step of Lifecycle keeps the types from the types alone.
LEMMA TypeStep ==
    ASSUME TypeInv, [Next]_vars
    PROVE  TypeInv'
<1>1. CASE UNCHANGED vars
  <2>1. UNCHANGED <<row, cmds, healthy, call, batch, agents, route, counts>>
    BY <1>1 DEF vars, agents, counts
  <2> QED BY <2>1, RowsStay, TableStays, CallStays, Statement
<1>2. ASSUME NEW c \in Client, ApiStep(c) \/ \E s \in Sandbox : ApiRequest(c, s) PROVE TypeInv'
  BY <1>2, ApiStepTyped, ApiRequestTyped
<1>3. ASSUME NEW n \in Node, AgentStep(n) \/ HandleAck(n) \/ HandleEvent(n) PROVE TypeInv'
  BY <1>3, AgentStepTyped, HandleAckTyped, HandleEventTyped
<1>4. CASE ReaperStep \/ Reschedule
  BY <1>4, ReaperTyped, RescheduleTyped
<1>5. CASE Environment
  BY <1>5, EnvironmentTyped
<1>6. CASE Fault
  BY <1>6, CallFaultTyped, ControlRestartTyped, AgentFaultTyped, ExecuteTyped DEF Fault
<1> QED
  BY <1>1, <1>2, <1>3, <1>4, <1>5, <1>6 DEF Next

-----------------------------------------------------------------------------
(* The heartbeat reconciler and the freshness check. *)

\* A read that has begun knows its app: it asks the agent about that one.
ReadInv == \A r \in Reader : read[r].pc # "idle" => read[r].app \in App

ReportsTyped == old \subseteq Sandbox /\ beat \in [Node -> Beat] /\ read \in [Reader -> Read]
                    /\ ReadInv

ReconcileInv == DeliveryInv /\ ReportsTyped

\* The steps of this module leave the table, the calls and the inboxes alone.
LEMMA ReportKeeps ==
    ASSUME DeliveryInv, RowsTyped', PassesTyped', CountsTyped',
           UNCHANGED <<cmds, call, agents, route>>
    PROVE  DeliveryInv' /\ UNCHANGED Queue!vars
<1>1. TypeInv
  BY DEF DeliveryInv
<1>2. TableKept
  BY <1>1, TableStays
<1>3. TypeInv'
  BY <1>1, <1>2, CallStays, AgentsStay, RouteStays, Assembled
<1>4. Quietly
  BY Waiting DEF agents
<1> QED
  BY <1>3, <1>4, QuietOK DEF DeliveryInv

LEMMA DeliveryWaits ==
    ASSUME DeliveryInv, UNCHANGED vars
    PROVE  DeliveryInv' /\ UNCHANGED Queue!vars
<1>1. TypeInv
  BY DEF DeliveryInv
<1>2. UNCHANGED <<row, cmds, healthy, call, batch, agents, route, counts>>
  BY DEF vars, agents, counts
<1> QED
  BY <1>1, <1>2, RowsStay, PassesStay, CountsStay, ReportKeeps

\* The three updates put a state of the machine, or "destroyed", into a row.
LEMMA MarkTyped ==
    ASSUME TypeInv, NEW a, NEW n, NEW st,
           \/ MarkSandboxVerified(a, st) \/ MarkSandboxAgentLost(a, n) \/ MarkSandboxDestroyed(a)
    PROVE  RowsTyped'
<1>1. ASSUME NEW s \in Sandbox, NEW x \in State PROVE [row[s] EXCEPT !.state = x] \in Row
  <2>1. row[s] \in Row
    BY DEF TypeInv, TypeOK
  <2> QED BY <2>1 DEF Row
<1>2. \A s \in Sandbox : row[s] \in Row
  BY DEF TypeInv, TypeOK
<1>3. "destroyed" \in State
  BY DEF State
<1>4. CASE MarkSandboxVerified(a, st)
  BY <1>1, <1>2, <1>4 DEF MarkSandboxVerified, RowsTyped
<1>5. CASE MarkSandboxAgentLost(a, n)
  BY <1>1, <1>2, <1>3, <1>5 DEF MarkSandboxAgentLost, RowsTyped
<1>6. CASE MarkSandboxDestroyed(a)
  BY <1>1, <1>2, <1>3, <1>6 DEF MarkSandboxDestroyed, RowsTyped
<1> QED
  BY <1>4, <1>5, <1>6

LEMMA ReportedType == ASSUME NEW n PROVE Reported(n) \in [App -> DockerState]
  BY DEF Reported, DockerState

LEMMA NoBeatType == NoBeat \in Beat
  BY DEF NoBeat, NoReport, Beat, DockerState

LEMMA NoReadType == NoRead \in Read /\ NoRead.pc = "idle"
  BY DEF NoRead, Read, DockerState

LEMMA SetBeatTyped ==
    ASSUME ReportsTyped, NEW n \in Node, NEW k \in Beat, SetBeat(n, k), UNCHANGED <<old, read>>
    PROVE  ReportsTyped'
  BY DEF ReportsTyped, SetBeat, ReadInv

LEMMA GoOnTyped ==
    ASSUME ReportsTyped, NEW n \in Node, NEW v \in SUBSET App, NEW l \in SUBSET App,
           GoOn(n, v, l), UNCHANGED <<old, read>>
    PROVE  ReportsTyped'
<1> DEFINE k == [beat[n] EXCEPT !.pc = "apply", !.verify = v, !.lost = l]
<1>1. beat[n] \in Beat
  BY DEF ReportsTyped
<1>2. k \in Beat
  BY <1>1 DEF Beat
<1> HIDE DEF k
<1>3. SetBeat(n, NoBeat) \/ SetBeat(n, k)
  BY DEF GoOn, k
<1> QED
  BY <1>2, <1>3, NoBeatType, SetBeatTyped

LEMMA BeatsTyped ==
    ASSUME ReconcileInv, NEW n \in Node, Beats(n)
    PROVE  ReconcileInv' /\ UNCHANGED Queue!vars
<1>1. DeliveryInv /\ TypeInv /\ ReportsTyped
  BY DEF ReconcileInv, DeliveryInv
<1>2. beat[n] \in Beat
  BY <1>1 DEF ReportsTyped
<1>3. /\ beat[n].report \in [App -> DockerState]
      /\ beat[n].verify \in SUBSET App /\ beat[n].lost \in SUBSET App
  BY <1>2 DEF Beat
<1>4. CASE HbSend(n)
  <2> DEFINE k == [NoBeat EXCEPT !.pc = "sent", !.report = Reported(n)]
  <2>1. SetBeat(n, k) /\ UNCHANGED <<vars, old, read>>
    BY <1>4 DEF HbSend
  <2>2. k \in Beat
    BY ReportedType DEF NoBeat, Beat
  <2> HIDE DEF k
  <2> QED BY <1>1, <2>1, <2>2, DeliveryWaits, SetBeatTyped DEF ReconcileInv
<1>5. CASE HbUpdate(n)
  <2> DEFINE k == [beat[n] EXCEPT !.pc = "list"]
  <2>1. /\ SetBeat(n, k) /\ healthy' = healthy \cup {n}
        /\ UNCHANGED <<row, cmds, call, batch, agents, route, counts, old, read>>
    BY <1>5 DEF HbUpdate
  <2>2. k \in Beat
    BY <1>2 DEF Beat
  <2> HIDE DEF k
  <2>3. PassesTyped'
    BY <1>1, <2>1 DEF TypeInv, TypeOK, PassesTyped
  <2>4. DeliveryInv' /\ UNCHANGED Queue!vars
    BY <1>1, <2>1, <2>3, RowsStay, CountsStay, ReportKeeps
  <2> QED BY <1>1, <2>1, <2>2, <2>4, SetBeatTyped DEF ReconcileInv
<1>6. CASE HbList(n)
  <2> DEFINE there == {a \in App : beat[n].report[a] # "none"}
  <2>1. GoOn(n, there, ListSandboxesForNode(n) \ there) /\ UNCHANGED <<vars, old, read>>
    BY <1>6 DEF HbList
  <2>2. there \in SUBSET App /\ ListSandboxesForNode(n) \ there \in SUBSET App
    BY ConstantsAssumption DEF ListSandboxesForNode
  <2> HIDE DEF there
  <2> QED BY <1>1, <2>1, <2>2, DeliveryWaits, GoOnTyped DEF ReconcileInv
<1>7. ASSUME NEW a \in App, HbVerify(n, a) \/ HbLost(n, a)
      PROVE  ReconcileInv' /\ UNCHANGED Queue!vars
  <2>1. /\ MarkSandboxVerified(a, beat[n].report[a]) \/ MarkSandboxAgentLost(a, n)
        /\ \/ GoOn(n, beat[n].verify \ {a}, beat[n].lost)
           \/ GoOn(n, {}, beat[n].lost \ {a})
        /\ UNCHANGED <<cmds, healthy, call, batch, agents, route, counts, old, read>>
    BY <1>7 DEF HbVerify, HbLost
  <2>2. RowsTyped'
    BY <1>1, <2>1, MarkTyped
  <2>3. DeliveryInv' /\ UNCHANGED Queue!vars
    BY <1>1, <2>1, <2>2, PassesStay, CountsStay, ReportKeeps
  <2>4. /\ beat[n].verify \ {a} \in SUBSET App /\ beat[n].lost \ {a} \in SUBSET App
        /\ {} \in SUBSET App
    BY <1>3
  <2>5. ReportsTyped'
    BY <1>1, <1>3, <2>1, <2>4, GoOnTyped
  <2> QED BY <2>3, <2>5 DEF ReconcileInv
<1> QED
  BY <1>4, <1>5, <1>6, <1>7 DEF Beats

LEMMA SetReadTyped ==
    ASSUME ReportsTyped, NEW r \in Reader, NEW k \in Read, SetRead(r, k),
           k.pc # "idle" => k.app \in App, UNCHANGED <<old, beat>>
    PROVE  ReportsTyped'
  BY DEF ReportsTyped, SetRead, ReadInv

LEMMA ReadsTyped ==
    ASSUME ReconcileInv, NEW r \in Reader,
           Reads(r) \/ \E a \in App : ReadRequest(r, a)
    PROVE  ReconcileInv' /\ UNCHANGED Queue!vars
<1>1. DeliveryInv /\ TypeInv /\ ReportsTyped
  BY DEF ReconcileInv, DeliveryInv
<1>2. read[r] \in Read /\ (read[r].pc # "idle" => read[r].app \in App)
  BY <1>1 DEF ReportsTyped, ReadInv
<1>3. ASSUME NEW a \in App, ReadRequest(r, a) PROVE ReconcileInv' /\ UNCHANGED Queue!vars
  <2> DEFINE k == [NoRead EXCEPT !.pc = "lookup", !.app = a]
  <2>1. SetRead(r, k) /\ UNCHANGED <<vars, old, beat>>
    BY <1>3 DEF ReadRequest
  <2>2. k \in Read /\ k.app = a
    BY DEF NoRead, Read, DockerState
  <2> HIDE DEF k
  <2> QED BY <1>1, <2>1, <2>2, DeliveryWaits, SetReadTyped DEF ReconcileInv
<1>4. CASE ReadLookup(r)
  <2>1. UNCHANGED <<vars, old, beat>> /\ read[r].pc = "lookup"
    BY <1>4 DEF ReadLookup, ReadAt
  <2>2. CASE SetRead(r, NoRead)
    BY <1>1, <2>1, <2>2, NoReadType, DeliveryWaits, SetReadTyped DEF ReconcileInv
  <2>3. ASSUME NEW s \in Sandbox,
               SetRead(r, [read[r] EXCEPT !.pc = "ask", !.node = row[s].node])
        PROVE  ReconcileInv' /\ UNCHANGED Queue!vars
    <3> DEFINE k == [read[r] EXCEPT !.pc = "ask", !.node = row[s].node]
    <3>1. row[s] \in Row
      BY <1>1 DEF TypeInv, TypeOK
    <3>2. row[s].node \in Node \cup {NoNode}
      BY <3>1 DEF Row
    <3>3. k \in Read /\ k.app = read[r].app
      BY <1>2, <3>2 DEF Read
    <3>4. SetRead(r, k)
      BY <2>3
    <3> HIDE DEF k
    <3> QED BY <1>1, <1>2, <2>1, <3>3, <3>4, DeliveryWaits, SetReadTyped DEF ReconcileInv
  <2> QED BY <1>4, <2>2, <2>3 DEF ReadLookup, RowsOf
<1>5. CASE ReadAsk(r)
  <2> DEFINE x == Reported(read[r].node)[read[r].app]
             k == [read[r] EXCEPT !.pc = "mark", !.answer = x]
  <2>1. UNCHANGED <<vars, old, beat>> /\ read[r].pc = "ask" /\ SetRead(r, k)
    BY <1>5 DEF ReadAsk, ReadAt
  <2>2. x \in DockerState
    BY <1>2, <2>1, ReportedType
  <2> HIDE DEF x
  <2>3. k \in Read /\ k.app = read[r].app
    BY <1>2, <2>2 DEF Read
  <2> HIDE DEF k
  <2> QED BY <1>1, <1>2, <2>1, <2>3, DeliveryWaits, SetReadTyped DEF ReconcileInv
<1>6. CASE ReadMark(r)
  <2>1. /\ \/ MarkSandboxDestroyed(read[r].app)
           \/ MarkSandboxVerified(read[r].app, read[r].answer)
        /\ SetRead(r, NoRead)
        /\ UNCHANGED <<cmds, healthy, call, batch, agents, route, counts, old, beat>>
    BY <1>6 DEF ReadMark
  <2>2. RowsTyped'
    BY <1>1, <2>1, MarkTyped
  <2>3. DeliveryInv' /\ UNCHANGED Queue!vars
    BY <1>1, <2>1, <2>2, PassesStay, CountsStay, ReportKeeps
  <2>4. ReportsTyped'
    BY <1>1, <2>1, NoReadType, SetReadTyped
  <2> QED BY <2>3, <2>4 DEF ReconcileInv
<1> QED
  BY <1>3, <1>4, <1>5, <1>6 DEF Reads

LEMMA ReportFaultTyped ==
    ASSUME ReconcileInv,
           \/ \E n \in Node : HbFails(n) \/ \E a \in App : HbSkips(n, a)
           \/ \E r \in Reader : ReadFails(r)
    PROVE  ReconcileInv' /\ UNCHANGED Queue!vars
<1>1. DeliveryInv /\ TypeInv /\ ReportsTyped
  BY DEF ReconcileInv, DeliveryInv
<1>2. /\ faults < MaxFaults /\ faults' = faults + 1
      /\ UNCHANGED <<row, cmds, healthy, call, batch, agents, route, gaveUp, crashes, timeouts>>
  BY DEF HbFails, HbSkips, ReadFails, db
<1>3. DeliveryInv' /\ UNCHANGED Queue!vars
  BY <1>1, <1>2, RowsStay, PassesStay, OneMoreFault, ReportKeeps
<1>4. ReportsTyped'
  <2>1. ASSUME NEW n \in Node, HbFails(n) PROVE ReportsTyped'
    BY <1>1, <2>1, NoBeatType, SetBeatTyped DEF HbFails
  <2>2. ASSUME NEW n \in Node, NEW a \in App, HbSkips(n, a) PROVE ReportsTyped'
    <3>1. beat[n] \in Beat
      BY <1>1 DEF ReportsTyped
    <3>2. beat[n].verify \ {a} \in SUBSET App /\ beat[n].lost \ {a} \in SUBSET App
      BY <3>1 DEF Beat
    <3> QED BY <1>1, <2>2, <3>2, GoOnTyped DEF HbSkips
  <2>3. ASSUME NEW r \in Reader, ReadFails(r) PROVE ReportsTyped'
    BY <1>1, <2>3, NoReadType, SetReadTyped DEF ReadFails
  <2> QED BY <2>1, <2>2, <2>3
<1> QED
  BY <1>3, <1>4 DEF ReconcileInv

-----------------------------------------------------------------------------
(* The theorems. *)

\* A step of Lifecycle does to the queue and the types what it does there.
LEMMA LifecycleTyped ==
    ASSUME DeliveryInv, Next
    PROVE  DeliveryInv' /\ [Queue!Next]_(Queue!vars)
<1>1. TypeInv'
  BY TypeStep DEF DeliveryInv
<1>2. StepQ
  BY DeliveryStep
<1> QED
  BY <1>1, <1>2 DEF DeliveryInv, StepQ

LEMMA RestartsTyped ==
    ASSUME ReconcileInv, ControlRestarts \/ \E n \in Node : AgentCrashes(n)
    PROVE  ReconcileInv' /\ [Queue!Next]_(Queue!vars)
<1>1. DeliveryInv /\ ReportsTyped
  BY DEF ReconcileInv
<1>2. Next
  BY DEF ControlRestarts, AgentCrashes, Next, Fault
<1>3. DeliveryInv' /\ [Queue!Next]_(Queue!vars)
  BY <1>1, <1>2, LifecycleTyped
<1>4. ReportsTyped'
  <2>1. CASE ControlRestarts
    BY <1>1, <2>1, NoBeatType, NoReadType DEF ControlRestarts, ReportsTyped, ReadInv
  <2>2. ASSUME NEW n \in Node, AgentCrashes(n) PROVE ReportsTyped'
    <3>1. beat' \in [Node -> Beat] /\ UNCHANGED old
      BY <1>1, <2>2, NoBeatType DEF AgentCrashes, SetBeat, ReportsTyped
    <3>2. /\ read' \in [Reader -> Read]
          /\ \A r \in Reader : read'[r] = NoRead \/ read'[r] = read[r]
      BY <1>1, <2>2, NoReadType DEF AgentCrashes, ReportsTyped
    <3> QED BY <1>1, <3>1, <3>2, NoReadType DEF ReportsTyped, ReadInv
  <2> QED BY <2>1, <2>2
<1> QED
  BY <1>3, <1>4 DEF ReconcileInv

LEMMA ReconcileStarts == ReconcileInit => ReconcileInv /\ Queue!Init
<1> SUFFICES ASSUME ReconcileInit PROVE ReconcileInv /\ Queue!Init
  OBVIOUS
<1>1. QueueInv /\ Queue!Init
  BY QueueInit DEF ReconcileInit
<1>2. DeliveryInv
  BY <1>1, TypesSuffice DEF QueueInv, DeliveryInv
<1>3. ReportsTyped
  BY NoBeatType, NoReadType DEF ReconcileInit, ReportsTyped, ReadInv
<1> QED
  BY <1>1, <1>2, <1>3 DEF ReconcileInv

LEMMA ReconcileSteps ==
    ASSUME ReconcileInv, [ReconcileNext]_allvars
    PROVE  ReconcileInv' /\ [Queue!Next]_(Queue!vars)
<1>1. DeliveryInv /\ ReportsTyped
  BY DEF ReconcileInv
<1>2. ASSUME UNCHANGED rvars PROVE ReportsTyped'
  BY <1>1, <1>2 DEF rvars, ReportsTyped, ReadInv
<1>3. CASE LifecycleStep /\ UNCHANGED rvars
  <2>1. Next
    BY <1>3 DEF LifecycleStep, Next, Environment, Fault
  <2> QED BY <1>1, <1>2, <1>3, <2>1, LifecycleTyped DEF ReconcileInv
<1>4. ASSUME NEW s \in Sandbox, Ages(s) PROVE ReconcileInv' /\ [Queue!Next]_(Queue!vars)
  <2>1. ReportsTyped'
    BY <1>1, <1>4 DEF Ages, ReportsTyped, ReadInv
  <2> QED BY <1>1, <1>4, <2>1, DeliveryWaits DEF Ages, ReconcileInv
<1>5. CASE UNCHANGED allvars
  <2>1. UNCHANGED vars /\ UNCHANGED rvars
    BY <1>5 DEF allvars
  <2> QED BY <1>1, <1>2, <2>1, DeliveryWaits DEF ReconcileInv
<1>6. ASSUME NEW n \in Node, Beats(n) \/ HbFails(n) \/ \E a \in App : HbSkips(n, a)
      PROVE  ReconcileInv' /\ [Queue!Next]_(Queue!vars)
  BY <1>6, BeatsTyped, ReportFaultTyped
<1>7. ASSUME NEW r \in Reader, Reads(r) \/ ReadFails(r) \/ \E a \in App : ReadRequest(r, a)
      PROVE  ReconcileInv' /\ [Queue!Next]_(Queue!vars)
  BY <1>7, ReadsTyped, ReportFaultTyped
<1> QED
  BY <1>3, <1>4, <1>5, <1>6, <1>7, RestartsTyped DEF ReconcileNext

LEMMA ReconcileInvariant == ReconcileSpec => []ReconcileInv
<1>1. ReconcileInv /\ [ReconcileNext]_allvars => ReconcileInv'
  BY ReconcileSteps
<1> QED
  BY ReconcileStarts, <1>1, PTL DEF ReconcileSpec

\* Whatever the heartbeat reconciler and the freshness check write, from however
\* old a report, every variable keeps its type: no command is without a node or a
\* sandbox, and no agent executes or acks a command that is not in the table.
THEOREM ReconcileTypeCorrect == ReconcileSpec => []ReconcileTypeOK
<1>1. ReconcileInv => ReconcileTypeOK
  BY DEF ReconcileInv, DeliveryInv, TypeInv, ReportsTyped, ReconcileTypeOK
<1> QED
  BY ReconcileInvariant, <1>1, PTL

\* PollPendingCommands hands no command out twice, whatever else writes the rows.
THEOREM ReconcileHandsOutOnce == ReconcileSpec => []CommandHandedOutOnce
<1>1. ReconcileInv => CommandHandedOutOnce
  BY DEF ReconcileInv, DeliveryInv, TypeInv, InboxInv, HeldInv, CommandHandedOutOnce
<1> QED
  BY ReconcileInvariant, <1>1, PTL

\* Marking rows behind the state machine's back, and all that can fail there, does
\* not touch what CommandQueue promises: at most one delivery, to the command's
\* node, oldest first, and at most one ack.
THEOREM ReconcileDelivers == ReconcileSpec => CommandsDelivered
<1>1. ReconcileInit => Queue!Init
  BY ReconcileStarts
<1>2. ReconcileInv /\ [ReconcileNext]_allvars => [Queue!Next]_(Queue!vars)
  BY ReconcileSteps
<1>3. ReconcileSpec => Queue!Init /\ [][Queue!Next]_(Queue!vars)
  BY <1>1, <1>2, ReconcileInvariant, PTL DEF ReconcileSpec
<1> QED
  BY <1>3 DEF CommandsDelivered, Queue!Spec
=============================================================================
