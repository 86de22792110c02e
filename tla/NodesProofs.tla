---------------------------- MODULE NodesProofs -----------------------------
(***************************************************************************)
(* Proofs about Nodes: its types, and that an agent heartbeats and polls   *)
(* for a row of its own machine while sandboxes are on rows that exist.    *)
(*                                                                         *)
(* IdentityHolds is about what the table and the agents hold; what makes   *)
(* it inductive is that the handlers in flight carry ids of the same kind  *)
(* between their statements, and that no statement takes a row away or     *)
(* gives it to another machine.                                            *)
(***************************************************************************)
EXTENDS Nodes, TLAPS

\* A registration that has found or made its row.
Answering(p) == call[p].pc \in {"token", "answer"}

\* The ids that registrations and creations hold between two statements.
CallsHold ==
    \A p \in Proc :
        /\ At(p, "insert") => call[p].host \in Host
        /\ Answering(p) => /\ call[p].host \in Host
                           /\ call[p].node \in NodeId
                           /\ Registered(call[p].node)
                           /\ nodes[call[p].node].host = call[p].host
        /\ At(p, "assign") => call[p].node \in NodeId /\ Registered(call[p].node)

\* An agent registers its own machine.
AgentsRegisterSelf ==
    \A h \in Host : call[Agent(h)].pc \in {"insert", "token", "answer"} => call[Agent(h)].host = h

Inv == TypeOK /\ CallsHold /\ AgentsRegisterSelf /\ IdentityHolds

\* Rows stay, with their machine.
RowsKept ==
    \A n \in NodeId : Registered(n) =>
        nodes'[n].status # "absent" /\ nodes'[n].host = nodes[n].host

-----------------------------------------------------------------------------
\* What most steps have in common: rows stay, no handler comes to hold an id
\* it did not hold, and a sandbox comes to no node but a registered one.
LEMMA KeepInv ==
    ASSUME Inv, TypeOK', RowsKept,
           \A p \in Proc : \/ call'[p] = call[p]
                           \/ call'[p].pc \notin {"insert", "token", "answer", "assign"},
           \A h \in Host : agentId'[h] \in {agentId[h], NoId},
           \A s \in Sandbox : \/ sb'[s].node \in {sb[s].node, NoId}
                              \/ sb'[s].node \in NodeId /\ Registered(sb'[s].node)
    PROVE  Inv'
<1>1. CallsHold'
  <2> SUFFICES ASSUME NEW p \in Proc
               PROVE  (/\ At(p, "insert") => call[p].host \in Host
                       /\ Answering(p) => /\ call[p].host \in Host
                                          /\ call[p].node \in NodeId
                                          /\ Registered(call[p].node)
                                          /\ nodes[call[p].node].host = call[p].host
                       /\ At(p, "assign") => /\ call[p].node \in NodeId
                                             /\ Registered(call[p].node))'
    BY DEF CallsHold
  <2>1. CASE call'[p] = call[p]
    BY <2>1 DEF Inv, CallsHold, Answering, RowsKept, Registered, At
  <2>2. CASE call'[p].pc \notin {"insert", "token", "answer", "assign"}
    BY <2>2 DEF At, Answering
  <2> QED BY <2>1, <2>2
<1>2. AgentsRegisterSelf'
  <2>1. \A h \in Host : Agent(h) \in Proc
    BY DEF Proc
  <2> QED BY <2>1 DEF Inv, AgentsRegisterSelf
<1>3. IdentityHolds'
  <2>1. ASSUME NEW h \in Host, agentId'[h] # NoId
        PROVE  nodes'[agentId'[h]].status # "absent" /\ nodes'[agentId'[h]].host = h
    <3>1. agentId'[h] = agentId[h] /\ agentId[h] \in NodeId
      BY <2>1 DEF Inv, TypeOK
    <3> QED BY <2>1, <3>1 DEF Inv, IdentityHolds, RowsKept, Registered
  <2>2. ASSUME NEW s \in Sandbox, sb'[s].node # NoId
        PROVE  nodes'[sb'[s].node].status # "absent"
    <3>1. sb'[s].node \in NodeId /\ Registered(sb'[s].node)
      BY <2>2 DEF Inv, IdentityHolds, TypeOK, Placement
    <3> QED BY <3>1 DEF RowsKept
  <2> QED BY <2>1, <2>2 DEF IdentityHolds, Registered
<1> QED BY <1>1, <1>2, <1>3 DEF Inv

LEMMA InitInv == Init => Inv
<1> SUFFICES ASSUME Init PROVE Inv
  OBVIOUS
<1> USE NodesAssumption DEF Init
<1>1. TypeOK
  BY DEF TypeOK, NodeRow, Placement, Call, Idle
<1>2. \A p \in Proc : call[p].pc = "idle"
  BY DEF Idle
<1>3. \A h \in Host : Agent(h) \in Proc
  BY DEF Proc
<1> QED BY <1>1, <1>2, <1>3 DEF Inv, CallsHold, Answering, AgentsRegisterSelf, IdentityHolds, At

\* The type of a handler's record, given its fields.
LEMMA BecomeType ==
    ASSUME TypeOK, NEW p \in Proc, NEW pc \in {"insert", "token", "answer", "assign", "remove", "move"},
           NEW h \in Host \cup {NoHost}, NEW n \in NodeId \cup {NoId},
           NEW ss \in SUBSET Sandbox, Become(p, pc, h, n, ss)
    PROVE  /\ call' \in [Proc -> Call]
           /\ call'[p] = [pc |-> pc, host |-> h, node |-> n, sb |-> ss]
           /\ \A q \in Proc \ {p} : call'[q] = call[q]
BY DEF TypeOK, Become, Call

LEMMA ReturnType ==
    ASSUME TypeOK, NEW p \in Proc, Return(p)
    PROVE  /\ call' \in [Proc -> Call]
           /\ call'[p].pc = "idle"
           /\ \A q \in Proc \ {p} : call'[q] = call[q]
BY DEF TypeOK, Return, Idle, Call

\* Writing a status that is not "absent" keeps rows.
LEMMA StatusKept ==
    ASSUME TypeOK, NEW n, NEW st \in Status, UpdateNodeStatus(n, st)
    PROVE  nodes' \in [NodeId -> NodeRow] /\ RowsKept
BY DEF TypeOK, UpdateNodeStatus, NodeRow, Status, RowsKept, Registered

\* The processes that are not agents.
LEMMA Procs ==
    /\ Admin \in Proc /\ Creator \in Proc /\ Monitor \in Proc
    /\ \A h \in Host : Agent(h) \in Proc
    /\ \A h \in Host : Agent(h) \notin {Admin, Creator, Monitor}
    /\ \A g, h \in Host : Agent(g) = Agent(h) => g = h
BY DEF Proc, Admin, Creator, Monitor, Agent

-----------------------------------------------------------------------------
(* Registration. *)

LEMMA RegisterLookupInv ==
    ASSUME Inv, NEW p \in Proc, NEW h \in Host, RegisterLookup(p, h) PROVE Inv'
<1> USE NodesAssumption
<1>1. UNCHANGED <<nodes, sb, agentId, listed, faults>>
  BY DEF RegisterLookup
<1>2. PICK pc \in {"insert", "token"}, n \in NodeId \cup {NoId} :
        /\ Become(p, pc, h, n, {})
        /\ pc = "token" => n \in RowsOf(h)
  BY DEF RegisterLookup, RowsOf
<1>3. /\ call' \in [Proc -> Call]
      /\ call'[p] = [pc |-> pc, host |-> h, node |-> n, sb |-> {}]
      /\ \A q \in Proc \ {p} : call'[q] = call[q]
  BY <1>2, BecomeType DEF Inv
<1>4. TypeOK'
  BY <1>1, <1>3 DEF Inv, TypeOK
<1>5. CallsHold'
  BY <1>1, <1>2, <1>3 DEF Inv, CallsHold, Answering, At, Registered, RowsOf
<1>6. AgentsRegisterSelf'
  <2> SUFFICES ASSUME NEW g \in Host, call'[Agent(g)].pc \in {"insert", "token", "answer"}
               PROVE  call'[Agent(g)].host = g
    BY DEF AgentsRegisterSelf
  <2>1. CASE Agent(g) = p
    <3>1. p = Agent(h)
      BY <2>1, Procs DEF RegisterLookup
    <3> QED BY <1>3, <2>1, <3>1, Procs
  <2>2. CASE Agent(g) # p
    BY <1>3, <2>2, Procs DEF Inv, AgentsRegisterSelf
  <2> QED BY <2>1, <2>2
<1>7. IdentityHolds'
  BY <1>1 DEF Inv, IdentityHolds, Registered
<1> QED BY <1>4, <1>5, <1>6, <1>7 DEF Inv

LEMMA RegisterInsertInv ==
    ASSUME Inv, NEW p \in Proc, RegisterInsert(p) PROVE Inv'
<1> USE NodesAssumption
<1> DEFINE h == call[p].host
<1>1. /\ At(p, "insert") /\ h \in Host
      /\ UNCHANGED <<sb, agentId, listed, faults>>
  BY DEF RegisterInsert, Inv, CallsHold
<1>2. PICK n \in NodeId :
        /\ ~Registered(n)
        /\ nodes' = [nodes EXCEPT ![n] = [host |-> h, status |-> "healthy", silent |-> FALSE]]
        /\ Become(p, "answer", h, n, {})
  BY DEF RegisterInsert
<1>3. /\ call' \in [Proc -> Call]
      /\ call'[p] = [pc |-> "answer", host |-> h, node |-> n, sb |-> {}]
      /\ \A q \in Proc \ {p} : call'[q] = call[q]
  <2> HIDE DEF h
  <2>1. TypeOK /\ h \in Host \cup {NoHost} /\ n \in NodeId \cup {NoId} /\ {} \in SUBSET Sandbox
    BY <1>1 DEF Inv
  <2> QED BY <1>2, <2>1 DEF TypeOK, Become, Call
<1> HIDE DEF h
<1>4. nodes' \in [NodeId -> NodeRow] /\ RowsKept
      /\ nodes'[n].status # "absent" /\ nodes'[n].host = h
  BY <1>1, <1>2 DEF Inv, TypeOK, NodeRow, Status, RowsKept, Registered
<1>5. TypeOK'
  BY <1>1, <1>3, <1>4 DEF Inv, TypeOK
<1>6. CallsHold'
  <2>1. ASSUME NEW q \in Proc \ {p}
        PROVE  (/\ At(q, "insert") => call[q].host \in Host
                /\ Answering(q) => /\ call[q].host \in Host
                                   /\ call[q].node \in NodeId
                                   /\ Registered(call[q].node)
                                   /\ nodes[call[q].node].host = call[q].host
                /\ At(q, "assign") => /\ call[q].node \in NodeId
                                      /\ Registered(call[q].node))'
    BY <1>3, <1>4 DEF Inv, CallsHold, Answering, At, Registered, RowsKept
  <2> QED BY <1>1, <1>3, <1>4, <2>1 DEF CallsHold, Answering, At, Registered
<1>7. AgentsRegisterSelf'
  <2> SUFFICES ASSUME NEW g \in Host, call'[Agent(g)].pc \in {"insert", "token", "answer"}
               PROVE  call'[Agent(g)].host = g
    BY DEF AgentsRegisterSelf
  <2>1. CASE Agent(g) = p
    BY <1>1, <1>3, <2>1 DEF Inv, AgentsRegisterSelf, At, h
  <2>2. CASE Agent(g) # p
    BY <1>3, <2>2, Procs DEF Inv, AgentsRegisterSelf
  <2> QED BY <2>1, <2>2
<1>8. IdentityHolds'
  <2>1. \A s \in Sandbox : sb[s].node \in NodeId \cup {NoId}
    BY DEF Inv, TypeOK, Placement
  <2>2. \A g \in Host : agentId[g] \in NodeId \cup {NoId}
    BY DEF Inv, TypeOK
  <2> QED BY <1>1, <1>4, <2>1, <2>2 DEF Inv, IdentityHolds, Registered, RowsKept
<1> QED BY <1>5, <1>6, <1>7, <1>8 DEF Inv

LEMMA RegisterTokenInv ==
    ASSUME Inv, NEW p \in Proc, RegisterToken(p) PROVE Inv'
<1> USE NodesAssumption
<1> DEFINE n == call[p].node
           h == call[p].host
<1>1. /\ UNCHANGED <<sb, agentId, listed, faults>> /\ Become(p, "answer", h, n, {})
      /\ nodes' = [nodes EXCEPT ![n].silent = FALSE]
  BY DEF RegisterToken
<1>2. h \in Host /\ n \in NodeId /\ Registered(n) /\ nodes[n].host = h
      /\ call[p].pc = "token"
  BY DEF RegisterToken, Inv, CallsHold, Answering, At
<1>3. \A g \in Host : p = Agent(g) => h = g
  BY <1>2 DEF Inv, AgentsRegisterSelf
<1> HIDE DEF n, h
<1>4. /\ call' \in [Proc -> Call]
      /\ call'[p] = [pc |-> "answer", host |-> h, node |-> n, sb |-> {}]
      /\ \A q \in Proc \ {p} : call'[q] = call[q]
  BY <1>1, <1>2 DEF Inv, TypeOK, Become, Call
<1>5. nodes' \in [NodeId -> NodeRow] /\ RowsKept
  BY <1>1 DEF Inv, TypeOK, NodeRow, RowsKept, Registered
<1>6. TypeOK'
  BY <1>1, <1>4, <1>5 DEF Inv, TypeOK
<1>7. CallsHold'
  <2>1. ASSUME NEW q \in Proc \ {p}
        PROVE  (/\ At(q, "insert") => call[q].host \in Host
                /\ Answering(q) => /\ call[q].host \in Host
                                   /\ call[q].node \in NodeId
                                   /\ Registered(call[q].node)
                                   /\ nodes[call[q].node].host = call[q].host
                /\ At(q, "assign") => /\ call[q].node \in NodeId
                                      /\ Registered(call[q].node))'
    BY <1>4, <1>5 DEF Inv, CallsHold, Answering, At, Registered, RowsKept
  <2> QED BY <1>2, <1>4, <1>5, <2>1 DEF CallsHold, Answering, At, Registered, RowsKept
<1>8. AgentsRegisterSelf'
  BY <1>3, <1>4, Procs DEF Inv, AgentsRegisterSelf
<1>9. IdentityHolds'
  <2>1. \A s \in Sandbox : sb[s].node \in NodeId \cup {NoId}
    BY DEF Inv, TypeOK, Placement
  <2>2. \A g \in Host : agentId[g] \in NodeId \cup {NoId}
    BY DEF Inv, TypeOK
  <2> QED BY <1>1, <1>5, <2>1, <2>2 DEF Inv, IdentityHolds, Registered, RowsKept
<1> QED BY <1>6, <1>7, <1>8, <1>9 DEF Inv

LEMMA RegisterAnswerInv ==
    ASSUME Inv, NEW p \in Proc, RegisterAnswer(p) PROVE Inv'
<1> USE NodesAssumption
<1> DEFINE n == call[p].node
<1>1. /\ UNCHANGED <<nodes, sb, listed, faults>> /\ Return(p)
      /\ agentId' = [h \in Host |-> IF p = Agent(h) THEN n ELSE agentId[h]]
  BY DEF RegisterAnswer
<1>2. /\ call[p].host \in Host /\ n \in NodeId /\ Registered(n)
      /\ nodes[n].host = call[p].host /\ call[p].pc = "answer"
  BY DEF RegisterAnswer, Inv, CallsHold, Answering, At
<1>3. /\ call' \in [Proc -> Call] /\ call'[p].pc = "idle"
      /\ \A q \in Proc \ {p} : call'[q] = call[q]
  BY <1>1, ReturnType DEF Inv
<1>4. \A h \in Host : p = Agent(h) => call[p].host = h
  BY <1>2 DEF Inv, AgentsRegisterSelf
<1> HIDE DEF n
<1>5. nodes' \in [NodeId -> NodeRow] /\ RowsKept
  BY <1>1 DEF Inv, TypeOK, NodeRow, RowsKept, Registered
<1>6. TypeOK'
  BY <1>1, <1>2, <1>3, <1>5 DEF Inv, TypeOK
<1>7. CallsHold'
  BY <1>3, <1>5 DEF Inv, CallsHold, Answering, At, Registered, RowsKept
<1>8. AgentsRegisterSelf'
  BY <1>3, Procs DEF Inv, AgentsRegisterSelf
<1>9. IdentityHolds'
  <2>1. ASSUME NEW h \in Host, agentId'[h] # NoId
        PROVE  nodes'[agentId'[h]].status # "absent" /\ nodes'[agentId'[h]].host = h
    <3>1. CASE p = Agent(h)
      BY <1>1, <1>2, <1>4, <1>5, <3>1 DEF RowsKept
    <3>2. CASE p # Agent(h)
      <4>1. agentId'[h] = agentId[h] /\ agentId[h] \in NodeId
        BY <1>1, <2>1, <3>2 DEF Inv, TypeOK
      <4> QED BY <1>5, <2>1, <4>1 DEF Inv, IdentityHolds, RowsKept, Registered
    <3> QED BY <3>1, <3>2
  <2>2. ASSUME NEW s \in Sandbox, sb'[s].node # NoId
        PROVE  nodes'[sb'[s].node].status # "absent"
    <3>1. sb[s].node \in NodeId
      BY <1>1, <2>2 DEF Inv, TypeOK, Placement
    <3> QED BY <1>1, <1>5, <2>2, <3>1 DEF Inv, IdentityHolds, RowsKept, Registered
  <2> QED BY <2>1, <2>2 DEF IdentityHolds, Registered
<1> QED BY <1>6, <1>7, <1>8, <1>9 DEF Inv

-----------------------------------------------------------------------------
(* A creation that has chosen its node. *)

LEMMA CreateScheduleInv ==
    ASSUME Inv, NEW s \in Sandbox, CreateSchedule(s) PROVE Inv'
<1> USE NodesAssumption
<1>1. UNCHANGED <<nodes, sb, agentId, listed, faults>>
  BY DEF CreateSchedule
<1>2. PICK n \in NodeId : /\ Become(Creator, "assign", NoHost, n, {s})
                          /\ nodes[n].status = "healthy"
  BY DEF CreateSchedule, Schedule, ListHealthyNodes
<1>3. /\ call' \in [Proc -> Call]
      /\ call'[Creator] = [pc |-> "assign", host |-> NoHost, node |-> n, sb |-> {s}]
      /\ \A q \in Proc \ {Creator} : call'[q] = call[q]
  <2>1. TypeOK /\ NoHost \in Host \cup {NoHost} /\ n \in NodeId \cup {NoId}
        /\ {s} \in SUBSET Sandbox /\ Creator \in Proc
    BY Procs DEF Inv
  <2> QED BY <1>2, <2>1, BecomeType
<1>4. TypeOK'
  BY <1>1, <1>3 DEF Inv, TypeOK
<1>5. CallsHold'
  BY <1>1, <1>2, <1>3 DEF Inv, CallsHold, Answering, At, Registered
<1>6. AgentsRegisterSelf'
  BY <1>3, Procs DEF Inv, AgentsRegisterSelf
<1>7. IdentityHolds'
  BY <1>1 DEF Inv, IdentityHolds, Registered
<1> QED BY <1>4, <1>5, <1>6, <1>7 DEF Inv

-----------------------------------------------------------------------------
(* The other steps, all by KeepInv: first those that write one table. *)

\* A step that writes rows of nodes and the monitor's list only.
LEMMA NodesOnly ==
    ASSUME Inv, RowsKept, nodes' \in [NodeId -> NodeRow],
           UNCHANGED <<sb, call, agentId>>,
           listed' \subseteq NodeId, faults' \in 0..MaxFaults
    PROVE  Inv'
<1>1. TypeOK'
  BY DEF Inv, TypeOK
<1>2. \A s \in Sandbox : sb'[s].node = sb[s].node
  OBVIOUS
<1>3. \A h \in Host : agentId'[h] = agentId[h]
  OBVIOUS
<1>4. \A p \in Proc : call'[p] = call[p]
  OBVIOUS
<1> QED BY <1>1, <1>2, <1>3, <1>4, KeepInv

\* A step that writes sandboxes only.
LEMMA SandboxesOnly ==
    ASSUME Inv, sb' \in [Sandbox -> Placement],
           UNCHANGED <<nodes, call, agentId, listed, faults>>,
           \A s \in Sandbox : sb'[s].node \in {sb[s].node, NoId}
    PROVE  Inv'
<1>1. TypeOK'
  BY DEF Inv, TypeOK
<1>2. RowsKept
  BY DEF RowsKept, Registered
<1>3. \A h \in Host : agentId'[h] = agentId[h]
  OBVIOUS
<1>4. \A p \in Proc : call'[p] = call[p]
  OBVIOUS
<1> QED BY <1>1, <1>2, <1>3, <1>4, KeepInv

LEMMA HeartbeatInv ==
    ASSUME Inv, NEW h \in Host, Heartbeat(h) PROVE Inv'
<1>1. nodes' \in [NodeId -> NodeRow] /\ RowsKept
  BY DEF Heartbeat, UpdateNodeHeartbeat, Inv, TypeOK, NodeRow, Status, RowsKept, Registered
<1> QED BY <1>1, NodesOnly DEF Heartbeat, Inv, TypeOK

LEMMA FallsSilentInv ==
    ASSUME Inv, NEW n \in NodeId, FallsSilent(n) PROVE Inv'
<1>1. nodes' \in [NodeId -> NodeRow] /\ RowsKept
  BY DEF FallsSilent, Inv, TypeOK, NodeRow, Status, RowsKept, Registered
<1>2. faults' \in 0..MaxFaults
  BY NodesAssumption DEF FallsSilent, Inv, TypeOK
<1> QED BY <1>1, <1>2, NodesOnly DEF FallsSilent, Inv, TypeOK

LEMMA MonitorListInv ==
    ASSUME Inv, MonitorList PROVE Inv'
<1>1. nodes' \in [NodeId -> NodeRow] /\ RowsKept
  BY DEF MonitorList, Inv, TypeOK, RowsKept, Registered
<1> QED BY <1>1, NodesOnly DEF MonitorList, Silent, Inv, TypeOK

LEMMA MarkFailsInv ==
    ASSUME Inv, NEW n \in NodeId, MarkFails(n) PROVE Inv'
<1>1. nodes' \in [NodeId -> NodeRow] /\ RowsKept
  BY DEF MarkFails, Inv, TypeOK, RowsKept, Registered
<1>2. faults' \in 0..MaxFaults
  BY NodesAssumption DEF MarkFails, Inv, TypeOK
<1> QED BY <1>1, <1>2, NodesOnly DEF MarkFails, Inv, TypeOK

LEMMA DrainNodeInv ==
    ASSUME Inv, NEW n \in NodeId, DrainNode(n) PROVE Inv'
<1>1. nodes' \in [NodeId -> NodeRow] /\ RowsKept
  <2>1. TypeOK /\ "draining" \in Status /\ UpdateNodeStatus(n, "draining")
    BY DEF DrainNode, Inv, Status
  <2> QED BY <2>1, StatusKept
<1> QED BY <1>1, NodesOnly DEF DrainNode, Inv, TypeOK

LEMMA StartedInv ==
    ASSUME Inv, NEW s \in Sandbox, Started(s) \/ Reaped(s) \/ Wake(s) \/ Destroyed(s)
    PROVE Inv'
<1>1. /\ sb' \in [Sandbox -> Placement]
      /\ \A t \in Sandbox : sb'[t].node \in {sb[t].node, NoId}
  BY DEF Started, Reaped, Wake, Destroyed, Inv, TypeOK, Placement
<1>2. UNCHANGED <<nodes, call, agentId, listed, faults>>
  BY DEF Started, Reaped, Wake, Destroyed
<1> QED BY <1>1, <1>2, SandboxesOnly

-----------------------------------------------------------------------------
(* Steps that write a handler's record too. *)

\* The record of one handler changes to one that holds no id that matters.
LEMMA CallsLetGo ==
    ASSUME Inv, TypeOK', RowsKept, NEW p \in Proc,
           call'[p].pc \notin {"insert", "token", "answer", "assign"},
           \A q \in Proc \ {p} : call'[q] = call[q],
           UNCHANGED agentId,
           \A s \in Sandbox : \/ sb'[s].node \in {sb[s].node, NoId}
                              \/ sb'[s].node \in NodeId /\ Registered(sb'[s].node)
    PROVE  Inv'
<1>1. \A h \in Host : agentId'[h] = agentId[h]
  OBVIOUS
<1>2. \A q \in Proc : call'[q] = call[q] \/ call'[q].pc \notin {"insert", "token", "answer", "assign"}
  OBVIOUS
<1> QED BY <1>1, <1>2, KeepInv

LEMMA MonitorMarkInv ==
    ASSUME Inv, NEW n \in NodeId, MonitorMark(n) PROVE Inv'
<1>1. nodes' \in [NodeId -> NodeRow] /\ RowsKept
  <2>1. TypeOK /\ "unhealthy" \in Status /\ UpdateNodeStatus(n, "unhealthy")
    BY DEF MonitorMark, Inv, Status
  <2> QED BY <2>1, StatusKept
<1>2. /\ call' \in [Proc -> Call] /\ call'[Monitor].pc = "move"
      /\ \A q \in Proc \ {Monitor} : call'[q] = call[q]
  <2> DEFINE r == RunningOn(n)
  <2>1. TypeOK /\ NoHost \in Host \cup {NoHost} /\ n \in NodeId \cup {NoId}
        /\ r \in SUBSET Sandbox /\ Monitor \in Proc
        /\ Become(Monitor, "move", NoHost, n, r)
    BY Procs DEF Inv, RunningOn, MonitorMark
  <2> HIDE DEF r
  <2> QED BY <2>1 DEF TypeOK, Become, Call
<1>3. TypeOK'
  BY <1>1, <1>2 DEF MonitorMark, Inv, TypeOK
<1>4. UNCHANGED <<sb, agentId>>
  BY DEF MonitorMark
<1> QED BY <1>1, <1>2, <1>3, <1>4, CallsLetGo, Procs

LEMMA MonitorMoveInv ==
    ASSUME Inv, NEW s \in Sandbox, MonitorMove(s) PROVE Inv'
<1>1. /\ UNCHANGED <<nodes, agentId, listed, faults>>
      /\ Become(Monitor, "move", NoHost, call[Monitor].node, call[Monitor].sb \ {s})
  BY DEF MonitorMove
<1>2. /\ call' \in [Proc -> Call] /\ call'[Monitor].pc = "move"
      /\ \A q \in Proc \ {Monitor} : call'[q] = call[q]
  <2> DEFINE r == call[Monitor].sb \ {s}
             n == call[Monitor].node
  <2>1. TypeOK /\ NoHost \in Host \cup {NoHost} /\ n \in NodeId \cup {NoId}
        /\ r \in SUBSET Sandbox /\ Monitor \in Proc
        /\ Become(Monitor, "move", NoHost, n, r)
    BY <1>1, Procs DEF Inv, TypeOK, Call
  <2> HIDE DEF r, n
  <2> QED BY <2>1 DEF TypeOK, Become, Call
<1>3. /\ sb' \in [Sandbox -> Placement]
      /\ \A t \in Sandbox : \/ sb'[t].node \in {sb[t].node, NoId}
                            \/ sb'[t].node \in NodeId /\ Registered(sb'[t].node)
  <2>1. CASE UNCHANGED sb
    BY <2>1 DEF Inv, TypeOK
  <2>2. CASE \E n \in Schedule(ListHealthyNodes) :
               sb' = [sb EXCEPT ![s] = [st |-> "starting", node |-> n]]
    <3>1. PICK n \in NodeId : /\ nodes[n].status = "healthy"
                              /\ sb' = [sb EXCEPT ![s] = [st |-> "starting", node |-> n]]
      BY <2>2 DEF Schedule, ListHealthyNodes
    <3> QED BY <3>1 DEF Inv, TypeOK, Placement, Registered
  <2>3. CASE sb' = [sb EXCEPT ![s].st = "failed"]
    BY <2>3 DEF Inv, TypeOK, Placement
  <2> QED BY <2>1, <2>2, <2>3 DEF MonitorMove
<1>4. TypeOK' /\ RowsKept
  BY <1>1, <1>2, <1>3 DEF Inv, TypeOK, RowsKept, Registered
<1> QED BY <1>1, <1>2, <1>3, <1>4, CallsLetGo, Procs

LEMMA RemoveCountInv ==
    ASSUME Inv, NEW n \in NodeId, RemoveCount(n) PROVE Inv'
<1>1. UNCHANGED <<nodes, sb, agentId, listed, faults>>
  BY DEF RemoveCount
<1>2. /\ call' \in [Proc -> Call] /\ call'[Admin].pc = "remove"
      /\ \A q \in Proc \ {Admin} : call'[q] = call[q]
  <2>1. TypeOK /\ NoHost \in Host \cup {NoHost} /\ n \in NodeId \cup {NoId}
        /\ {} \in SUBSET Sandbox /\ Admin \in Proc
        /\ Become(Admin, "remove", NoHost, n, {})
    BY Procs DEF Inv, RemoveCount
  <2> QED BY <2>1 DEF TypeOK, Become, Call
<1>3. TypeOK' /\ RowsKept
  BY <1>1, <1>2 DEF Inv, TypeOK, RowsKept, Registered
<1> QED BY <1>1, <1>2, <1>3, CallsLetGo, Procs

LEMMA RemoveUpdateInv ==
    ASSUME Inv, RemoveUpdate PROVE Inv'
<1>1. nodes' \in [NodeId -> NodeRow] /\ RowsKept
  <2> DEFINE n == call[Admin].node
  <2>1. TypeOK /\ "removed" \in Status /\ UpdateNodeStatus(n, "removed")
    BY DEF RemoveUpdate, Inv, Status
  <2> HIDE DEF n
  <2> QED BY <2>1, StatusKept
<1>2. /\ call' \in [Proc -> Call] /\ call'[Admin].pc = "idle"
      /\ \A q \in Proc \ {Admin} : call'[q] = call[q]
  BY ReturnType, Procs DEF RemoveUpdate, Inv
<1>3. TypeOK'
  BY <1>1, <1>2 DEF RemoveUpdate, Inv, TypeOK
<1>4. UNCHANGED <<sb, agentId>>
  BY DEF RemoveUpdate
<1> QED BY <1>1, <1>2, <1>3, <1>4, CallsLetGo, Procs

LEMMA MonitorNextInv ==
    ASSUME Inv, MonitorNext PROVE Inv'
<1>1. UNCHANGED <<nodes, sb, agentId, listed, faults>>
  BY DEF MonitorNext
<1>2. /\ call' \in [Proc -> Call] /\ call'[Monitor].pc = "idle"
      /\ \A q \in Proc \ {Monitor} : call'[q] = call[q]
  BY ReturnType, Procs DEF MonitorNext, Inv
<1>3. TypeOK' /\ RowsKept
  BY <1>1, <1>2 DEF Inv, TypeOK, RowsKept, Registered
<1> QED BY <1>1, <1>2, <1>3, CallsLetGo, Procs

LEMMA AbortCallInv ==
    ASSUME Inv, NEW p \in Proc, AbortCall(p) PROVE Inv'
<1>1. UNCHANGED <<nodes, sb, agentId, listed>> /\ faults' \in 0..MaxFaults
  BY NodesAssumption DEF AbortCall, Inv, TypeOK
<1>2. /\ call' \in [Proc -> Call] /\ call'[p].pc = "idle"
      /\ \A q \in Proc \ {p} : call'[q] = call[q]
  BY ReturnType DEF AbortCall, Inv
<1>3. TypeOK' /\ RowsKept
  BY <1>1, <1>2 DEF Inv, TypeOK, RowsKept, Registered
<1> QED BY <1>1, <1>2, <1>3, CallsLetGo

LEMMA CreateAssignInv ==
    ASSUME Inv, CreateAssign PROVE Inv'
<1> DEFINE n == call[Creator].node
<1>1. UNCHANGED <<nodes, agentId, listed, faults>>
  BY DEF CreateAssign
<1>2. /\ call' \in [Proc -> Call] /\ call'[Creator].pc = "idle"
      /\ \A q \in Proc \ {Creator} : call'[q] = call[q]
  BY ReturnType, Procs DEF CreateAssign, Inv
<1>3. n \in NodeId /\ Registered(n)
  BY Procs DEF CreateAssign, Inv, CallsHold
<1>4. \A s \in Sandbox : sb'[s] \in {sb[s], [st |-> "starting", node |-> n]}
  BY DEF CreateAssign
<1>5. sb' \in [Sandbox -> Placement]
  <2>1. [st |-> "starting", node |-> n] \in Placement
    BY <1>3 DEF Placement
  <2>2. sb' = [s \in Sandbox |-> sb'[s]]
    BY DEF CreateAssign
  <2> QED BY <1>4, <2>1, <2>2 DEF Inv, TypeOK
<1>6. \A s \in Sandbox : \/ sb'[s].node \in {sb[s].node, NoId}
                         \/ sb'[s].node \in NodeId /\ Registered(sb'[s].node)
  BY <1>3, <1>4
<1>7. TypeOK' /\ RowsKept
  BY <1>1, <1>2, <1>5 DEF Inv, TypeOK, RowsKept, Registered
<1> QED BY <1>1, <1>2, <1>6, <1>7, CallsLetGo, Procs

LEMMA AgentStopsInv ==
    ASSUME Inv, NEW h \in Host, AgentStops(h) PROVE Inv'
<1>1. UNCHANGED <<nodes, sb, call, listed>> /\ faults' \in 0..MaxFaults
  BY NodesAssumption DEF AgentStops, Inv, TypeOK
<1>2. TypeOK' /\ RowsKept
  BY <1>1 DEF AgentStops, Inv, TypeOK, RowsKept, Registered
<1>3. \A g \in Host : agentId'[g] \in {agentId[g], NoId}
  BY DEF AgentStops, Inv, TypeOK
<1>4. \A p \in Proc : call'[p] = call[p]
  BY <1>1
<1>5. \A s \in Sandbox : sb'[s].node = sb[s].node
  BY <1>1
<1> QED BY <1>2, <1>3, <1>4, <1>5, KeepInv

LEMMA ControlRestartInv ==
    ASSUME Inv, ControlRestart PROVE Inv'
<1>1. UNCHANGED <<nodes, sb, agentId>> /\ listed' = {} /\ faults' \in 0..MaxFaults
  BY NodesAssumption DEF ControlRestart, Inv, TypeOK
<1>2. call' \in [Proc -> Call] /\ \A p \in Proc : call'[p].pc = "idle"
  BY DEF ControlRestart, Call, Idle
<1>3. TypeOK' /\ RowsKept
  BY <1>1, <1>2 DEF Inv, TypeOK, RowsKept, Registered
<1>4. \A g \in Host : agentId'[g] = agentId[g]
  BY <1>1
<1>5. \A s \in Sandbox : sb'[s].node = sb[s].node
  BY <1>1
<1> QED BY <1>2, <1>3, <1>4, <1>5, KeepInv

LEMMA StutterInv ==
    ASSUME Inv, UNCHANGED vars PROVE Inv'
BY DEF vars, Inv, TypeOK, CallsHold, Answering, AgentsRegisterSelf, IdentityHolds, At, Registered

-----------------------------------------------------------------------------
LEMMA NextInv == ASSUME Inv, [Next]_vars PROVE Inv'
<1>1. ASSUME NEW p \in Proc, NEW h \in Host, RegisterLookup(p, h) PROVE Inv'
  BY <1>1, RegisterLookupInv
<1>2. ASSUME NEW p \in Proc, Register(p) PROVE Inv'
  BY <1>2, RegisterInsertInv, RegisterTokenInv, RegisterAnswerInv DEF Register
<1>3. ASSUME NEW h \in Host, Heartbeat(h) PROVE Inv'
  BY <1>3, HeartbeatInv
<1>4. ASSUME NEW n \in NodeId, FallsSilent(n) PROVE Inv'
  BY <1>4, FallsSilentInv
<1>5. CASE MonitorStep
  <2>1. listed \subseteq NodeId /\ call[Monitor].sb \subseteq Sandbox
    BY Procs DEF Inv, TypeOK, Call
  <2> QED BY <1>5, <2>1, MonitorListInv, MonitorMarkInv, MonitorMoveInv, MonitorNextInv
          DEF MonitorStep
<1>6. CASE Administer
  BY <1>6, DrainNodeInv, RemoveCountInv, RemoveUpdateInv DEF Administer
<1>7. CASE Serve
  BY <1>7, CreateAssignInv, CreateScheduleInv, StartedInv DEF Serve
<1>8. CASE Fail
  <2>1. listed \subseteq NodeId
    BY DEF Inv, TypeOK
  <2> QED BY <1>8, <2>1, AgentStopsInv, AbortCallInv, MarkFailsInv, ControlRestartInv DEF Fail
<1>9. CASE UNCHANGED vars
  BY <1>9, StutterInv
<1> QED BY <1>1, <1>2, <1>3, <1>4, <1>5, <1>6, <1>7, <1>8, <1>9 DEF Next

LEMMA SpecInv == Spec => []Inv
BY InitInv, NextInv, PTL DEF Spec

-----------------------------------------------------------------------------
\* The types of the nodes table, the placements, the handlers and the agents,
\* however many machines register and whatever fails.
THEOREM TypeCorrect == Spec => []TypeOK
<1>1. Inv => TypeOK
  BY DEF Inv
<1> QED BY <1>1, SpecInv, PTL

\* However registrations of any number of machines interleave, repeat and
\* fail, an agent that heartbeats and polls does so for a row of its own
\* machine (handleRegisterNode's lookup, insert and token statements are not a
\* transaction), and every sandbox is on a row that exists.
THEOREM IdentityKept == Spec => []IdentityHolds
<1>1. Inv => IdentityHolds
  BY DEF Inv
<1> QED BY <1>1, SpecInv, PTL
=============================================================================
