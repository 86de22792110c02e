--------------------------- MODULE SandboxProofs ---------------------------
(***************************************************************************)
(* Somebody attends to a sandbox that is on its way: for any number of     *)
(* sandboxes, nodes, clients, crashes and timeouts, with events that come  *)
(* twice or late, no handler leaves a row in 'starting', in 'restarting',  *)
(* or back in 'pending', that nobody is about to move on.                  *)
(*                                                                         *)
(* And the rows tell the truth: as long as no container exits by itself,   *)
(* nothing times out and nothing fails, a running sandbox has its          *)
(* container up and a destroyed one has none once all is quiet, however    *)
(* creates, destroys, acks and container events overlap.                   *)
(*                                                                         *)
(* Crashes, and events that come twice or late, do not put the nodes at    *)
(* odds either: as long as nothing times out or fails, the proxy sends the *)
(* traffic of a running sandbox to the container of its row, and once all  *)
(* is quiet a failed sandbox has none that is up.                          *)
(***************************************************************************)
EXTENDS LifecycleProofs, Redelivery, WellFoundedInduction

-----------------------------------------------------------------------------
(* The inductive invariant. *)

\* Where a handler has taken a row to 'starting' and owes it a start command.
IssuePc == {"start_cmd", "crash_cmd", "move_cmd"}

\* Where the rescheduler has taken a row back to 'pending'.
MovingPc == {"move_route", "move_reset", "move_schedule", "move_fail", "move_assign"}

\* Where HandleAck is past its transition, and about to close the command.
SettledPc == {"ack_persist", "ack_refetch", "ack_route", "ack_reset", "ack_done"}

\* Start command i of s can still take its sandbox out of 'starting'.
CanSettle(i, s) ==
    /\ cmds[i].sb = s /\ cmds[i].type = "start_sandbox"
    /\ cmds[i].status \in {"pending", "dispatched"}
    /\ \A n \in Node : call[Ack(n)].cmd = i => call[Ack(n)].pc \notin SettledPc

\* StartingIsAttended by itself is lost when a handler closes the command: that
\* this handler has made its transition before is what the last line is for.
StartInv ==
    \A s \in Sandbox : row[s].state = "starting" =>
        \/ Working(Proc, s, IssuePc)
        \/ \E i \in 1..Len(cmds) : CanSettle(i, s)
        \/ faults > 0

\* An ack leads to none of the states a sandbox waits in.
RereadOK(k) == k.pc = "ack_reread" => k.nxt \in {"running", "failed", "destroyed"}
RereadInv == \A n \in Node : RereadOK(call[Ack(n)])

Attended == StartInv /\ RereadInv /\ RestartingIsAttended /\ PendingIsAttended

-----------------------------------------------------------------------------
(* What a step does, as far as these invariants depend on it. *)

\* A row comes to wait only in the hands of the handler that makes it wait.
Enters(s) ==
    /\ row'[s].state = "restarting" =>
         \/ row[s].state = "restarting"
         \/ \E n \in Node : call'[Evt(n)].sb = s /\ call'[Evt(n)].pc = "event_route"
    /\ row'[s].state = "starting" =>
         \/ row[s].state = "starting"
         \/ \E p \in Proc : call'[p].sb = s /\ call'[p].pc \in IssuePc
    /\ row'[s].state = "pending" =>
         \/ row[s].state = "pending" /\ row'[s].node = row[s].node
         \/ row'[s].node = NoNode
         \/ call'[Monitor].sb = s /\ call'[Monitor].pc = "move_route"

\* The crash handler of n goes on with its sandbox until it has moved it.
CrashKept(n) ==
    call[Evt(n)].pc \in CrashPc =>
        \/ call'[Evt(n)].pc \in CrashPc /\ call'[Evt(n)].sb = call[Evt(n)].sb
        \/ call[Evt(n)].sb \in gaveUp'
        \/ row'[call[Evt(n)].sb].state # "restarting"

\* So does the rescheduler.
MoveKept ==
    call[Monitor].pc \in MovingPc =>
        \/ call'[Monitor].pc \in MovingPc /\ call'[Monitor].sb = call[Monitor].sb
        \/ row'[call[Monitor].sb].state # "pending"

\* A handler that owes a start command issues it.
IssueKept(p) ==
    call[p].pc \in IssuePc =>
        \/ call'[p] = call[p]
        \/ \E n \in Node : CreateCommand("start_sandbox", call[p].sb, n, 0)

\* A command keeps what it is, and is closed only by the loop that executed it.
CmdsKept ==
    /\ Len(cmds') \in Nat /\ Len(cmds) <= Len(cmds')
    /\ \A i \in 1..Len(cmds) :
         /\ cmds'[i].sb = cmds[i].sb /\ cmds'[i].type = cmds[i].type
         /\ cmds[i].status \in {"pending", "dispatched"} =>
              \/ cmds'[i].status \in {"pending", "dispatched"}
              \/ \E n \in Node : call[Ack(n)].cmd = i /\ call[Ack(n)].pc = "ack_done"

\* The ack of a start command gets past its transition only when the sandbox is
\* no longer starting.
SettleKept(n) ==
    LET k == call'[Ack(n)] IN
    k.pc \in SettledPc =>
        \/ call[Ack(n)].pc \in SettledPc /\ call[Ack(n)].cmd = k.cmd
        \/ cmds'[k.cmd].type # "start_sandbox"
        \/ row'[cmds'[k.cmd].sb].state # "starting"

Attends ==
    /\ faults' = faults /\ gaveUp \subseteq gaveUp'
    /\ \A s \in Sandbox : Enters(s)
    /\ \A n \in Node : CrashKept(n) /\ SettleKept(n)
    /\ MoveKept
    /\ \A p \in Proc : IssueKept(p)
    /\ CmdsKept
    /\ RereadInv'

-----------------------------------------------------------------------------
(* A step that attends keeps the invariant. *)

\* The constraints of the commands table let a command for a row that exists pass.
LEMMA Inserts ==
    ASSUME NEW type, NEW s, NEW n \in Node, NEW c, Exists(s), CreateCommand(type, s, n, c)
    PROVE  InsertCommand(type, s, n, c)
  BY ConstantsAssumption DEF CreateCommand

LEMMA AttendsStart ==
    ASSUME IndInv, IndInv', Attended, Attends
    PROVE  StartInv'
<1> SUFFICES ASSUME NEW s \in Sandbox, row'[s].state = "starting", ~(faults' > 0)
             PROVE  (Working(Proc, s, IssuePc) \/ \E i \in 1..Len(cmds) : CanSettle(i, s))'
  BY DEF StartInv
<1>1. CASE row[s].state # "starting"
  BY <1>1 DEF Attends, Enters, Working
<1>2. CASE row[s].state = "starting"
  <2>1. Working(Proc, s, IssuePc) \/ \E i \in 1..Len(cmds) : CanSettle(i, s)
    BY <1>2 DEF Attended, StartInv, Attends
  <2>2. ASSUME NEW p \in Proc, call[p].sb = s, call[p].pc \in IssuePc
        PROVE  (Working(Proc, s, IssuePc) \/ \E i \in 1..Len(cmds) : CanSettle(i, s))'
    <3>1. CASE call'[p] = call[p]
      BY <2>2, <3>1 DEF Working
    <3>2. ASSUME NEW n \in Node, CreateCommand("start_sandbox", call[p].sb, n, 0)
          PROVE  (\E i \in 1..Len(cmds) : CanSettle(i, s))'
      <4> DEFINE i == Len(cmds) + 1
      <4>1. Len(cmds) \in Nat
        BY DEF IndInv, TypeOK
      <4>2. /\ i \in 1..Len(cmds') /\ cmds'[i].sb = s /\ cmds'[i].type = "start_sandbox"
            /\ cmds'[i].status = "pending"
        <5>1. InsertCommand("start_sandbox", call[p].sb, n, 0)
          BY <1>2, <2>2, <3>2, Inserts DEF Exists
        <5> QED BY <2>2, <4>1, <5>1 DEF InsertCommand, IndInv, TypeOK
      <4>3. ASSUME NEW m \in Node, call'[Ack(m)].cmd = i
            PROVE  call'[Ack(m)].pc \notin SettledPc
        <5> SUFFICES ASSUME call'[Ack(m)].pc \in SettledPc PROVE FALSE
          OBVIOUS
        <5>1. CASE call[Ack(m)].pc \in SettledPc /\ call[Ack(m)].cmd = i
          <6>1. i \in 1..Len(cmds)
            BY <5>1, AckFacts DEF SettledPc
          <6> QED BY <4>1, <6>1
        <5>2. CASE ~(call[Ack(m)].pc \in SettledPc /\ call[Ack(m)].cmd = i)
          BY <4>2, <4>3, <5>2 DEF Attends, SettleKept
        <5> QED BY <5>1, <5>2
      <4> QED BY <4>2, <4>3 DEF CanSettle
    <3> QED BY <2>2, <3>1, <3>2 DEF Attends, IssueKept
  <2>3. ASSUME NEW i \in 1..Len(cmds), CanSettle(i, s)
        PROVE  (\E j \in 1..Len(cmds) : CanSettle(j, s))'
    <3>1. i \in 1..Len(cmds') /\ cmds'[i].sb = s /\ cmds'[i].type = "start_sandbox"
      BY <2>3 DEF Attends, CmdsKept, CanSettle, IndInv, TypeOK
    <3>2. cmds'[i].status \in {"pending", "dispatched"}
      BY <2>3 DEF Attends, CmdsKept, CanSettle, SettledPc
    <3>3. ASSUME NEW n \in Node, call'[Ack(n)].cmd = i
          PROVE  call'[Ack(n)].pc \notin SettledPc
      BY <2>3, <3>1, <3>3 DEF Attends, SettleKept, CanSettle
    <3> QED BY <3>1, <3>2, <3>3 DEF CanSettle
  <2> QED BY <2>1, <2>2, <2>3 DEF Working
<1> QED BY <1>1, <1>2

LEMMA AttendsOK ==
    ASSUME IndInv, IndInv', Attended, Attends
    PROVE  Attended'
<1>1. StartInv'
  BY AttendsStart
<1>2. RestartingIsAttended'
  <2> SUFFICES ASSUME NEW s \in Sandbox, row'[s].state = "restarting",
                      s \notin gaveUp', ~(faults' > 0)
               PROVE  \E n \in Node : call'[Evt(n)].sb = s /\ call'[Evt(n)].pc \in CrashPc
    BY DEF RestartingIsAttended, Working, CrashPc
  <2>1. CASE row[s].state # "restarting"
    BY <2>1 DEF Attends, Enters, CrashPc
  <2>2. CASE row[s].state = "restarting"
    <3>1. PICK n \in Node : call[Evt(n)].sb = s /\ call[Evt(n)].pc \in CrashPc
      BY <2>2 DEF Attended, RestartingIsAttended, Working, CrashPc, Attends
    <3> QED BY <3>1 DEF Attends, CrashKept
  <2> QED BY <2>1, <2>2
<1>3. PendingIsAttended'
  <2> SUFFICES ASSUME NEW s \in Sandbox, row'[s].state = "pending", row'[s].node # NoNode,
                      ~(faults' > 0)
               PROVE  call'[Monitor].sb = s /\ call'[Monitor].pc \in MovingPc
    BY DEF PendingIsAttended, Working, MovingPc
  <2>1. CASE row[s].state = "pending" /\ row'[s].node = row[s].node
    <3>1. call[Monitor].sb = s /\ call[Monitor].pc \in MovingPc
      BY <2>1 DEF Attended, PendingIsAttended, Working, MovingPc, Attends
    <3> QED BY <3>1 DEF Attends, MoveKept
  <2>2. CASE ~(row[s].state = "pending" /\ row'[s].node = row[s].node)
    BY <2>2 DEF Attends, Enters, MovingPc
  <2> QED BY <2>1, <2>2
<1> QED
  BY <1>1, <1>2, <1>3 DEF Attended, Attends

\* A step with a fault is excused by the invariants.
LEMMA FaultyOK ==
    ASSUME IndInv, Attended, faults' > 0, RereadInv'
    PROVE  Attended'
  BY DEF Attended, StartInv, RestartingIsAttended, PendingIsAttended

-----------------------------------------------------------------------------
(* Frames: a step of process p, and a step of no process. *)

\* What process p itself must see to.
OwnStep(p) ==
    /\ \A n \in Node : p = Evt(n) => CrashKept(n)
    /\ \A n \in Node : p = Ack(n) => SettleKept(n) /\ RereadOK(call'[p])
    /\ p = Monitor => MoveKept
    /\ IssueKept(p)

LEMMA OfProcess ==
    ASSUME IndInv, RereadInv, NEW p \in Proc, Moved(p), OwnStep(p), CmdsKept,
           faults' = faults, gaveUp \subseteq gaveUp', \A s \in Sandbox : Enters(s)
    PROVE  Attends
<1>1. ASSUME NEW n \in Node PROVE CrashKept(n)
  BY ProcFacts DEF OwnStep, CrashKept, Moved
<1>2. ASSUME NEW n \in Node PROVE SettleKept(n)
  BY ProcFacts DEF OwnStep, SettleKept, Moved
<1>3. MoveKept
  BY ProcFacts DEF OwnStep, MoveKept, Moved
<1>4. \A q \in Proc : IssueKept(q)
  BY DEF OwnStep, IssueKept, Moved
<1>5. RereadInv'
  BY ProcFacts DEF OwnStep, RereadInv, Moved
<1> QED
  BY <1>1, <1>2, <1>3, <1>4, <1>5 DEF Attends

LEMMA OfNobody ==
    ASSUME IndInv, RereadInv, UNCHANGED <<call, faults>>, CmdsKept,
           gaveUp \subseteq gaveUp', \A s \in Sandbox : Enters(s)
    PROVE  Attends
  BY DEF Attends, CrashKept, SettleKept, MoveKept, IssueKept, RereadInv

\* The commands table: left alone, or with one command more.
LEMMA SameCmds == ASSUME IndInv, UNCHANGED cmds PROVE CmdsKept
  BY DEF CmdsKept, IndInv, TypeOK

LEMMA OneMore ==
    ASSUME IndInv, NEW type, NEW s, NEW n, NEW c, CreateCommand(type, s, n, c)
    PROVE  CmdsKept
<1>1. CASE UNCHANGED cmds
  BY <1>1, SameCmds
<1>2. CASE InsertCommand(type, s, n, c)
  BY <1>2 DEF CmdsKept, InsertCommand, IndInv, TypeOK
<1> QED
  BY <1>1, <1>2 DEF CreateCommand

\* The sandboxes table: no state and no node changes, or one row's state does.
LEMMA SameStates ==
    ASSUME \A s \in Sandbox : row'[s].state = row[s].state /\ row'[s].node = row[s].node
    PROVE  \A s \in Sandbox : Enters(s)
  BY DEF Enters

LEMMA SameRows == ASSUME UNCHANGED row PROVE \A s \in Sandbox : Enters(s)
  BY DEF Enters

LEMMA OneState ==
    ASSUME IndInv, NEW s \in Sandbox, NEW to, SetState(s, to)
    PROVE  /\ row'[s].state = to
           /\ \A t \in Sandbox : row'[t].node = row[t].node
           /\ \A t \in Sandbox : t # s => row'[t].state = row[t].state
  BY DEF IndInv, TypeOK, SetState, Row

LEMMA Leaves ==
    ASSUME IndInv, NEW s \in Sandbox, NEW to, SetState(s, to),
           to \notin {"restarting", "starting", "pending"}
    PROVE  \A t \in Sandbox : Enters(t)
  BY OneState DEF Enters

LEMMA AnyMove ==
    ASSUME IndInv, NEW p \in Proc, (\E pc : Step(p, pc)) \/ (\E k : Become(p, k))
    PROVE  Moved(p)
  BY DEF IndInv, TypeOK, Moved, Step, Become

-----------------------------------------------------------------------------
(* The API's handlers. *)

LEMMA ApiOwn ==
    ASSUME IndInv, RereadInv, NEW c \in Client,
           (\E pc : Step(Api(c), pc)) \/ (\E k : Become(Api(c), k)),
           IssueKept(Api(c)), CmdsKept, UNCHANGED <<faults, gaveUp>>,
           \A s \in Sandbox : Enters(s)
    PROVE  Attends
<1>1. Api(c) \in Proc /\ OwnStep(Api(c))
  BY ProcFacts DEF OwnStep
<1>2. Moved(Api(c))
  BY <1>1, AnyMove
<1> QED
  BY <1>1, <1>2, OfProcess

LEMMA CreateAttends ==
    ASSUME IndInv, RereadInv, NEW c \in Client,
           CreateRecycle(c) \/ CreateInsert(c) \/ CreateSchedule(c) \/ CreateAssign(c)
    PROVE  Attends
<1> DEFINE k == call[Api(c)]
<1>1. /\ UNCHANGED <<cmds, faults, gaveUp>>
      /\ k.pc \in {"recycle", "insert", "schedule", "assign"}
  BY DEF CreateRecycle, CreateInsert, CreateSchedule, CreateAssign, At, db, counts
<1>2. CmdsKept /\ IssueKept(Api(c)) /\ k.sb \in Sandbox
  BY <1>1, SameCmds DEF IssueKept, IssuePc, IndInv, ApiInv, ApiOK
<1>3. (\E pc : Step(Api(c), pc)) \/ (\E q : Become(Api(c), q))
  <2>1. CASE CreateRecycle(c) \/ CreateInsert(c)
    BY <2>1 DEF CreateRecycle, CreateInsert, Return
  <2>2. CASE CreateSchedule(c) \/ CreateAssign(c)
    BY <2>2 DEF CreateSchedule, CreateAssign, Return
  <2> QED BY <2>1, <2>2
<1>4. \A s \in Sandbox : Enters(s)
  <2>1. CASE UNCHANGED row
    BY <2>1, SameRows
  <2>2. CASE CreateRecycle(c) /\ ~UNCHANGED row
    <3>1. SetState(k.old, "deleted") /\ k.old \in Sandbox
      BY <2>2 DEF CreateRecycle, At, IndInv, ApiInv, ApiOK
    <3> QED BY <3>1, Leaves
  <2>3. CASE CreateInsert(c) /\ ~UNCHANGED row
    <3>1. row' = [row EXCEPT ![k.sb] = [state |-> "pending", node |-> NoNode,
                                        cid |-> 0, fails |-> 0, idle |-> FALSE]]
      BY <2>3 DEF CreateInsert
    <3>2. /\ row'[k.sb].state = "pending" /\ row'[k.sb].node = NoNode
          /\ \A t \in Sandbox : t # k.sb => row'[t] = row[t]
      BY <1>2, <3>1 DEF IndInv, TypeOK
    <3> QED BY <3>2 DEF Enters
  <2>4. CASE CreateAssign(c) /\ ~UNCHANGED row
    <3>1. AssignSandboxToNode(k.sb, k.node) /\ Step(Api(c), "start_cmd")
      BY <2>4 DEF CreateAssign
    <3>2. call'[Api(c)].sb = k.sb /\ call'[Api(c)].pc = "start_cmd" /\ Api(c) \in Proc
      BY <3>1, ProcFacts, StepFacts DEF Pc
    <3>3. /\ row'[k.sb].state = "starting"
          /\ \A t \in Sandbox : t # k.sb => row'[t] = row[t]
      BY <1>2, <3>1 DEF AssignSandboxToNode, IndInv, TypeOK
    <3> QED BY <3>2, <3>3 DEF Enters, IssuePc
  <2>5. CASE CreateSchedule(c)
    BY <2>5, SameRows DEF CreateSchedule, db
  <2> QED BY <2>1, <2>2, <2>3, <2>4, <2>5
<1> QED
  BY <1>1, <1>2, <1>3, <1>4, ApiOwn

LEMMA ApiCasAttends ==
    ASSUME IndInv, RereadInv, NEW c \in Client, DestroyCas(c) \/ WakeCas(c)
    PROVE  Attends
<1> DEFINE k == call[Api(c)]
<1>1. UNCHANGED <<cmds, faults, gaveUp>> /\ k.pc \in {"destroy_cas", "wake_cas"}
  BY DEF DestroyCas, WakeCas, At, counts
<1>2. CmdsKept /\ IssueKept(Api(c)) /\ k.sb \in Sandbox
  BY <1>1, SameCmds DEF IssueKept, IssuePc, IndInv, ApiInv, ApiOK
<1>3. (\E pc : Step(Api(c), pc)) \/ (\E q : Become(Api(c), q))
  BY DEF DestroyCas, WakeCas, Return
<1>4. \A s \in Sandbox : Enters(s)
  <2>1. CASE UNCHANGED row
    BY <2>1, SameRows
  <2>2. CASE DestroyCas(c) /\ ~UNCHANGED row
    <3>1. SetState(k.sb, k.nxt) /\ k.pc = "destroy_cas"
      BY <2>2 DEF DestroyCas, At
    <3>2. k.nxt \in {"destroying", "destroyed"}
      BY <3>1 DEF IndInv, ApiInv, ApiOK, DestroyEdge
    <3> QED BY <1>2, <3>1, <3>2, Leaves
  <2>3. CASE WakeCas(c) /\ ~UNCHANGED row
    <3>1. SetState(k.sb, k.nxt) /\ k.pc = "wake_cas" /\ Step(Api(c), "start_cmd")
      BY <2>3 DEF WakeCas, At
    <3>2. k.nxt = "starting"
      BY <3>1 DEF IndInv, ApiInv, ApiOK
    <3>3. call'[Api(c)].sb = k.sb /\ call'[Api(c)].pc = "start_cmd" /\ Api(c) \in Proc
      BY <3>1, ProcFacts, StepFacts DEF Pc
    <3> QED BY <1>2, <3>1, <3>2, <3>3, OneState DEF Enters, IssuePc
  <2> QED BY <2>1, <2>2, <2>3
<1> QED
  BY <1>1, <1>2, <1>3, <1>4, ApiOwn

LEMMA ApiCmdAttends ==
    ASSUME IndInv, RereadInv, NEW c \in Client, StartCmd(c) \/ StopCmd(c) \/ RestartCmd(c)
    PROVE  Attends
<1> DEFINE k == call[Api(c)]
<1>1. UNCHANGED <<row, faults, gaveUp>> /\ Become(Api(c), Idle)
  BY DEF StartCmd, StopCmd, RestartCmd, Return, counts
<1>2. CmdsKept
  BY SameCmds, OneMore DEF StartCmd, StopCmd, RestartCmd
<1>3. IssueKept(Api(c))
  BY DEF StartCmd, StopCmd, RestartCmd, At, IssueKept, IssuePc, IndInv, ApiInv, ApiOK
<1> QED
  BY <1>1, <1>2, <1>3, SameRows, ApiOwn

LEMMA ApiRequestAttends ==
    ASSUME IndInv, RereadInv, NEW c \in Client, NEW s \in Sandbox, ApiRequest(c, s)
    PROVE  Attends
<1>1. UNCHANGED <<row, cmds, faults, gaveUp>> /\ call[Api(c)].pc = "idle"
  BY DEF ApiRequest, CreateLookup, DestroyRead, WakeRead, RestartRead, At, db, counts
<1>2. \E k : Become(Api(c), k)
  BY DEF ApiRequest, CreateLookup, DestroyRead, WakeRead, RestartRead
<1>3. IssueKept(Api(c))
  BY <1>1 DEF IssueKept, IssuePc
<1> QED
  BY <1>1, <1>2, <1>3, SameRows, SameCmds, ApiOwn

-----------------------------------------------------------------------------
(* HandleEvent and HandleCrash. *)

LEMMA EvtOwn ==
    ASSUME IndInv, RereadInv, NEW n \in Node,
           (\E pc : Step(Evt(n), pc)) \/ (\E k : Become(Evt(n), k)),
           CrashKept(n), IssueKept(Evt(n)), CmdsKept,
           faults' = faults, gaveUp \subseteq gaveUp', \A s \in Sandbox : Enters(s)
    PROVE  Attends
<1>1. Evt(n) \in Proc /\ OwnStep(Evt(n))
  BY ProcFacts DEF OwnStep
<1>2. Moved(Evt(n))
  BY <1>1, AnyMove
<1> QED
  BY <1>1, <1>2, OfProcess

LEMMA EventReadAttends ==
    ASSUME IndInv, RereadInv, NEW n \in Node, EventRead(n)
    PROVE  Attends
<1>1. UNCHANGED <<row, cmds, faults, gaveUp>> /\ call[Evt(n)].pc = "idle"
  BY DEF EventRead, At, db, counts
<1>2. UNCHANGED call \/ \E k : Become(Evt(n), k)
  BY DEF EventRead
<1>3. CrashKept(n) /\ IssueKept(Evt(n))
  BY <1>1 DEF CrashKept, CrashPc, IssueKept, IssuePc
<1> QED
  BY <1>1, <1>2, <1>3, SameRows, SameCmds, EvtOwn, OfNobody

LEMMA EventCasAttends ==
    ASSUME IndInv, RereadInv, NEW n \in Node, EventCas(n)
    PROVE  Attends
<1> DEFINE k == call[Evt(n)]
<1>1. UNCHANGED <<cmds, faults, gaveUp>> /\ k.pc = "event_cas"
  BY DEF EventCas, At, counts
<1>2. /\ k.sb \in Sandbox /\ k.nxt \in {"running", "failed", "restarting"}
      /\ CrashKept(n) /\ IssueKept(Evt(n))
  BY <1>1 DEF IndInv, EvtInv, EvtOK, EventEdge, CrashKept, CrashPc, IssueKept, IssuePc
<1>3. (\E pc : Step(Evt(n), pc)) \/ (\E q : Become(Evt(n), q))
  BY DEF EventCas, Return
<1>4. \A s \in Sandbox : Enters(s)
  <2>1. CASE UNCHANGED row
    BY <2>1, SameRows
  <2>2. CASE ~UNCHANGED row /\ k.nxt # "restarting"
    BY <1>2, <2>2, Leaves DEF EventCas
  <2>3. CASE ~UNCHANGED row /\ k.nxt = "restarting"
    <3>1. SetState(k.sb, "restarting") /\ Step(Evt(n), "event_route")
      BY <2>3 DEF EventCas
    <3>2. call'[Evt(n)].sb = k.sb /\ call'[Evt(n)].pc = "event_route"
      BY <3>1, ProcFacts, StepFacts DEF Pc
    <3> QED BY <1>2, <3>1, <3>2, OneState DEF Enters
  <2> QED BY <2>1, <2>2, <2>3
<1> QED
  BY <1>1, <1>2, <1>3, <1>4, SameCmds, EvtOwn

LEMMA CrashAttends ==
    ASSUME IndInv, RereadInv, NEW n \in Node, EventRoute(n) \/ CrashInc(n)
    PROVE  Attends
<1> DEFINE k == call[Evt(n)]
<1>1. /\ UNCHANGED <<cmds, faults, gaveUp>> /\ k.pc \in {"event_route", "crash_inc"}
      /\ \E pc \in {"crash_inc", "crash_fail", "crash_cas"} : Step(Evt(n), pc)
  BY DEF EventRoute, CrashInc, At, db, counts
<1>2. k.sb \in Sandbox
  BY <1>1 DEF IndInv, EvtInv, EvtOK
<1>3. call'[Evt(n)].pc \in CrashPc /\ call'[Evt(n)].sb = k.sb
  BY <1>1, ProcFacts, StepFacts DEF Pc, CrashPc
<1>4. CrashKept(n) /\ IssueKept(Evt(n))
  BY <1>1, <1>3 DEF CrashKept, IssueKept, IssuePc
<1>5. \A s \in Sandbox : row'[s].state = row[s].state /\ row'[s].node = row[s].node
  <2>1. CASE EventRoute(n)
    BY <2>1 DEF EventRoute, db
  <2>2. CASE CrashInc(n)
    <3>1. row' = [row EXCEPT ![k.sb].fails = @ + 1]
      BY <2>2 DEF CrashInc
    <3> QED BY <1>2, <3>1 DEF IndInv, TypeOK, Row
  <2> QED BY <2>1, <2>2
<1> QED
  BY <1>1, <1>4, <1>5, SameStates, SameCmds, EvtOwn

LEMMA CrashFailAttends ==
    ASSUME IndInv, RereadInv, NEW n \in Node, CrashFail(n)
    PROVE  Attends
<1> DEFINE k == call[Evt(n)]
<1>1. /\ UNCHANGED <<cmds, faults>> /\ k.pc = "crash_fail" /\ Become(Evt(n), Idle)
      /\ gaveUp' = gaveUp \cup {k.sb}
  BY DEF CrashFail, At, Return
<1>2. k.sb \in Sandbox /\ CrashKept(n) /\ IssueKept(Evt(n))
  BY <1>1 DEF IndInv, EvtInv, EvtOK, CrashKept, IssueKept, IssuePc
<1>3. \A s \in Sandbox : Enters(s)
  BY <1>2, SameRows, Leaves DEF CrashFail, SetState
<1> QED
  BY <1>1, <1>2, <1>3, SameCmds, EvtOwn

LEMMA CrashCasAttends ==
    ASSUME IndInv, RereadInv, NEW n \in Node, CrashCas(n)
    PROVE  Attends
<1> DEFINE k == call[Evt(n)]
<1>1. UNCHANGED <<cmds, faults, gaveUp>> /\ k.pc = "crash_cas"
  BY DEF CrashCas, At, counts
<1>2. k.sb \in Sandbox /\ IssueKept(Evt(n))
  BY <1>1 DEF IndInv, EvtInv, EvtOK, IssueKept, IssuePc
<1>3. CASE SetState(k.sb, "starting") /\ Step(Evt(n), "crash_cmd")
  <2>1. call'[Evt(n)].sb = k.sb /\ call'[Evt(n)].pc = "crash_cmd" /\ Evt(n) \in Proc
    BY <1>3, ProcFacts, StepFacts DEF Pc
  <2>2. \A s \in Sandbox : Enters(s)
    BY <1>2, <1>3, <2>1, OneState DEF Enters, IssuePc
  <2>3. CrashKept(n)
    BY <1>2, <1>3, OneState DEF CrashKept
  <2> QED BY <1>1, <1>2, <1>3, <2>2, <2>3, SameCmds, EvtOwn
<1>4. CASE ~StateIs(k.sb, "restarting") /\ UNCHANGED row /\ Return(Evt(n))
  <2>1. CrashKept(n)
    BY <1>4 DEF CrashKept, StateIs
  <2> QED BY <1>1, <1>2, <1>4, <2>1, SameRows, SameCmds, EvtOwn DEF Return
<1> QED
  BY <1>3, <1>4 DEF CrashCas

LEMMA CrashCmdAttends ==
    ASSUME IndInv, RereadInv, NEW n \in Node, CrashCmd(n)
    PROVE  Attends
<1>1. UNCHANGED <<row, faults, gaveUp>> /\ Become(Evt(n), Idle) /\ call[Evt(n)].pc = "crash_cmd"
  BY DEF CrashCmd, Return, At, counts
<1>2. CmdsKept /\ IssueKept(Evt(n))
  BY OneMore DEF CrashCmd, At, IssueKept, IndInv, EvtInv, EvtOK
<1>3. CrashKept(n)
  BY <1>1 DEF CrashKept, CrashPc
<1> QED
  BY <1>1, <1>2, <1>3, SameRows, EvtOwn

-----------------------------------------------------------------------------
(* The idle reaper and the rescheduler. *)

LEMMA ReaperAttends ==
    ASSUME IndInv, RereadInv, ReaperStep
    PROVE  Attends
<1> DEFINE k == call[Reaper]
<1>1. UNCHANGED <<faults, gaveUp>>
  BY DEF ReaperStep, ReapList, ReapCas, ReapCmd, ReapRoute, counts
<1>2. CmdsKept
  <2>1. CASE ReapCmd
    BY <2>1, OneMore DEF ReapCmd
  <2>2. CASE ReapList \/ (\E x \in batch[Reaper] : ReapCas(x)) \/ ReapRoute
    BY <2>2, SameCmds DEF ReapList, ReapCas, ReapRoute, db
  <2> QED BY <2>1, <2>2 DEF ReaperStep
<1>3. \A s \in Sandbox : Enters(s)
  <2>1. CASE UNCHANGED row
    BY <2>1, SameRows
  <2>2. ASSUME NEW x \in batch[Reaper], SetState(x.sb, "stopped")
        PROVE  \A s \in Sandbox : Enters(s)
    <3>1. x \in Snapshot
      BY DEF IndInv, TypeOK
    <3>2. x.sb \in Sandbox
      BY <3>1 DEF Snapshot
    <3> QED BY <2>2, <3>2, Leaves
  <2> QED BY <2>1, <2>2 DEF ReaperStep, ReapList, ReapCas, ReapCmd, ReapRoute, db
<1>4. UNCHANGED call \/ (\E pc : Step(Reaper, pc)) \/ (\E q : Become(Reaper, q))
  BY DEF ReaperStep, ReapList, ReapCas, ReapCmd, ReapRoute, Return
<1>5. Reaper \in Proc /\ OwnStep(Reaper)
  BY ProcFacts DEF OwnStep, IssueKept, IssuePc, IndInv, PassInv, ReaperOK
<1>6. Moved(Reaper) \/ UNCHANGED call
  BY <1>4, <1>5, AnyMove
<1> QED
  BY <1>1, <1>2, <1>3, <1>5, <1>6, OfProcess, OfNobody

LEMMA MonitorOwn ==
    ASSUME IndInv, RereadInv, UNCHANGED <<faults, gaveUp>>,
           (\E pc : Step(Monitor, pc)) \/ (\E k : Become(Monitor, k)),
           MoveKept, IssueKept(Monitor), CmdsKept, \A s \in Sandbox : Enters(s)
    PROVE  Attends
<1>1. Monitor \in Proc /\ OwnStep(Monitor)
  BY ProcFacts DEF OwnStep
<1>2. Moved(Monitor)
  BY <1>1, AnyMove
<1> QED
  BY <1>1, <1>2, OfProcess

LEMMA ListingAttends ==
    ASSUME IndInv, RereadInv, MoveList \/ \E n \in Node : MonitorMark(n)
    PROVE  Attends
<1>1. UNCHANGED <<row, cmds, faults, gaveUp>> /\ call[Monitor].pc \in {"idle", "move_list"}
  BY DEF MoveList, MonitorMark, At, db, counts
<1>2. \E k : Become(Monitor, k)
  BY DEF MoveList, MonitorMark, Return
<1>3. MoveKept /\ IssueKept(Monitor)
  BY <1>1 DEF MoveKept, MovingPc, IssueKept, IssuePc
<1> QED
  BY <1>1, <1>2, <1>3, SameRows, SameCmds, MonitorOwn

LEMMA MoveCasAttends ==
    ASSUME IndInv, RereadInv, NEW x \in batch[Monitor], MoveCas(x)
    PROVE  Attends
<1>1. UNCHANGED <<cmds, faults, gaveUp>> /\ call[Monitor].pc = "idle"
  BY DEF MoveCas, At, counts
<1>2. x \in Snapshot
  BY DEF IndInv, TypeOK
<1>3. x.sb \in Sandbox
  BY <1>2 DEF Snapshot
<1>4. MoveKept /\ IssueKept(Monitor)
  BY <1>1 DEF MoveKept, MovingPc, IssueKept, IssuePc
<1>5. CASE UNCHANGED <<row, call>>
  BY <1>1, <1>5, SameRows, SameCmds, OfNobody
<1>6. CASE SetState(x.sb, "pending") /\ Become(Monitor, Visit(x, "move_route"))
  <2>1. call'[Monitor].sb = x.sb /\ call'[Monitor].pc = "move_route"
    BY <1>6, ProcFacts DEF Become, Visit, Begun, IndInv, TypeOK
  <2>2. \A s \in Sandbox : Enters(s)
    BY <1>3, <1>6, <2>1, OneState DEF Enters
  <2> QED BY <1>1, <1>4, <1>6, <2>2, SameCmds, MonitorOwn
<1> QED
  BY <1>5, <1>6 DEF MoveCas

LEMMA MoveOnAttends ==
    ASSUME IndInv, RereadInv, MoveRoute \/ MoveReset \/ MoveSchedule
    PROVE  Attends
<1> DEFINE k == call[Monitor]
<1>1. /\ UNCHANGED <<cmds, faults, gaveUp>>
      /\ k.pc \in {"move_route", "move_reset", "move_schedule"}
  BY DEF MoveRoute, MoveReset, MoveSchedule, At, db, counts
<1>2. k.sb \in Sandbox /\ IssueKept(Monitor)
  BY <1>1 DEF IndInv, PassInv, MonitorOK, MovePc, IssueKept, IssuePc
<1>3. \/ \E pc \in {"move_reset", "move_schedule", "move_fail"} : Step(Monitor, pc)
      \/ \E n \in Node : Become(Monitor, Placing("move_assign", k.sb, n))
  <2>1. healthy \subseteq Node
    BY DEF IndInv, TypeOK
  <2> QED BY <2>1 DEF MoveRoute, MoveReset, MoveSchedule
<1>4. call'[Monitor].pc \in MovingPc /\ call'[Monitor].sb = k.sb
  <2>1. ASSUME NEW pc \in {"move_reset", "move_schedule", "move_fail"}, Step(Monitor, pc)
        PROVE  call'[Monitor].pc \in MovingPc /\ call'[Monitor].sb = k.sb
    BY <2>1, ProcFacts, StepFacts DEF Pc, MovingPc
  <2>2. ASSUME NEW n \in Node, Become(Monitor, Placing("move_assign", k.sb, n))
        PROVE  call'[Monitor].pc \in MovingPc /\ call'[Monitor].sb = k.sb
    BY <1>2, <2>2, ProcFacts, PlacingFacts DEF MovingPc
  <2> QED BY <1>3, <2>1, <2>2
<1>5. MoveKept
  BY <1>4 DEF MoveKept
<1>6. \A s \in Sandbox : row'[s].state = row[s].state /\ row'[s].node = row[s].node
  <2>1. CASE UNCHANGED row
    BY <2>1
  <2>2. CASE row' = [row EXCEPT ![k.sb].fails = 0]
    BY <1>2, <2>2 DEF IndInv, TypeOK, Row
  <2> QED BY <2>1, <2>2 DEF MoveRoute, MoveReset, MoveSchedule, db
<1> QED
  BY <1>1, <1>2, <1>3, <1>5, <1>6, SameStates, SameCmds, MonitorOwn

LEMMA MoveEndAttends ==
    ASSUME IndInv, RereadInv, MoveFail \/ MoveAssign
    PROVE  Attends
<1> DEFINE k == call[Monitor]
<1>1. UNCHANGED <<cmds, faults, gaveUp>> /\ k.pc \in {"move_fail", "move_assign"}
  BY DEF MoveFail, MoveAssign, At, counts
<1>2. k.sb \in Sandbox /\ IssueKept(Monitor)
  BY <1>1 DEF IndInv, PassInv, MonitorOK, MovePc, IssueKept, IssuePc
<1>3. CASE ~StateIs(k.sb, "pending") /\ UNCHANGED row /\ Return(Monitor)
  <2>1. MoveKept
    BY <1>3 DEF MoveKept, StateIs
  <2> QED BY <1>1, <1>2, <1>3, <2>1, SameRows, SameCmds, MonitorOwn DEF Return
<1>4. CASE SetState(k.sb, "failed") /\ Return(Monitor)
  <2>1. MoveKept
    BY <1>2, <1>4, OneState DEF MoveKept
  <2>2. \A s \in Sandbox : Enters(s)
    BY <1>2, <1>4, Leaves
  <2> QED BY <1>1, <1>2, <1>4, <2>1, <2>2, SameCmds, MonitorOwn DEF Return
<1>5. CASE AssignSandboxToNode(k.sb, k.node) /\ Step(Monitor, "move_cmd")
  <2>1. call'[Monitor].sb = k.sb /\ call'[Monitor].pc = "move_cmd" /\ Monitor \in Proc
    BY <1>5, ProcFacts, StepFacts DEF Pc
  <2>2. /\ row'[k.sb].state = "starting"
        /\ \A t \in Sandbox : t # k.sb => row'[t] = row[t]
    BY <1>2, <1>5 DEF AssignSandboxToNode, IndInv, TypeOK
  <2>3. MoveKept /\ \A s \in Sandbox : Enters(s)
    BY <1>2, <2>1, <2>2 DEF MoveKept, Enters, IssuePc
  <2> QED BY <1>1, <1>2, <1>5, <2>3, SameCmds, MonitorOwn
<1> QED
  BY <1>3, <1>4, <1>5 DEF MoveFail, MoveAssign

LEMMA MoveCmdAttends ==
    ASSUME IndInv, RereadInv, MoveCmd
    PROVE  Attends
<1>1. UNCHANGED <<row, faults, gaveUp>> /\ Become(Monitor, Idle) /\ call[Monitor].pc = "move_cmd"
  BY DEF MoveCmd, Return, At, counts
<1>2. CmdsKept /\ IssueKept(Monitor)
  BY OneMore DEF MoveCmd, At, IssueKept, IndInv, PassInv, MonitorOK
<1>3. MoveKept
  BY <1>1 DEF MoveKept, MovingPc
<1> QED
  BY <1>1, <1>2, <1>3, SameRows, MonitorOwn

-----------------------------------------------------------------------------
(* The agents' command loops and HandleAck. *)

LEMMA AckOwn ==
    ASSUME IndInv, RereadInv, NEW n \in Node, UNCHANGED <<faults, gaveUp>>, Moved(Ack(n)),
           SettleKept(n), RereadOK(call'[Ack(n)]), CmdsKept, \A s \in Sandbox : Enters(s)
    PROVE  Attends
<1>1. IssueKept(Ack(n))
  BY DEF IssueKept, IssuePc, IndInv, AckInv, AckOK, AckPc
<1>2. Ack(n) \in Proc /\ OwnStep(Ack(n))
  BY <1>1, ProcFacts DEF OwnStep
<1> QED
  BY <1>2, OfProcess

\* The loop is not past a transition after the step.
LEMMA Unsettled ==
    ASSUME IndInv, RereadInv, NEW n \in Node, UNCHANGED <<row, cmds, faults, gaveUp>>,
           Moved(Ack(n)), call'[Ack(n)].pc \notin SettledPc \cup {"ack_reread"}
    PROVE  Attends
<1>1. SettleKept(n) /\ RereadOK(call'[Ack(n)])
  BY DEF SettleKept, RereadOK
<1> QED
  BY <1>1, SameRows, SameCmds, AckOwn

LEMMA PollAttends ==
    ASSUME IndInv, RereadInv, NEW n \in Node, AgentPoll(n)
    PROVE  Attends
<1>1. UNCHANGED <<row, call, faults, gaveUp>> /\ Dispatch(n)
  BY DEF AgentPoll, counts
<1>2. CmdsKept
  <2> DEFINE new(i) == IF i \in Pending(n) THEN [cmds[i] EXCEPT !.status = "dispatched"]
                                           ELSE cmds[i]
  <2>1. ASSUME NEW i \in 1..Len(cmds)
        PROVE  /\ new(i).sb = cmds[i].sb /\ new(i).type = cmds[i].type
               /\ cmds[i].status \in {"pending", "dispatched"}
                    => new(i).status \in {"pending", "dispatched"}
    <3>1. cmds[i] \in Command
      BY DEF IndInv, TypeOK
    <3> QED BY <3>1 DEF Command
  <2>2. cmds' = [i \in 1..Len(cmds) |-> new(i)] /\ Len(cmds) \in Nat
    BY <1>1 DEF Dispatch, IndInv, TypeOK
  <2> HIDE DEF new
  <2> QED BY <2>1, <2>2 DEF CmdsKept
<1> QED
  BY <1>1, <1>2, SameRows, OfNobody

LEMMA ExecuteAttends ==
    ASSUME IndInv, RereadInv, NEW n \in Node,
           \/ AgentTrack(n) \/ AgentUntrack(n)
           \/ \E i \in inbox[n] : AgentStart(n, i) \/ AgentStop(n, i) \/ AgentRestart(n, i)
    PROVE  Attends
<1>1. UNCHANGED <<row, cmds, faults, gaveUp>>
  BY DEF AgentTrack, AgentUntrack, AgentStart, AgentStop, AgentRestart, db, counts
<1>2. CASE AgentTrack(n) \/ AgentUntrack(n)
  <2>1. Step(Ack(n), "send")
    BY <1>2 DEF AgentTrack, AgentUntrack
  <2>2. Moved(Ack(n)) /\ call'[Ack(n)].pc = "send"
    BY <2>1, ProcFacts, StepFacts DEF Pc
  <2> QED BY <1>1, <2>2, Unsettled DEF SettledPc
<1>3. ASSUME NEW i \in inbox[n], AgentStart(n, i) \/ AgentStop(n, i) \/ AgentRestart(n, i)
      PROVE  Attends
  <2>1. PICK pc \in {"created", "stopped", "send"}, ok \in BOOLEAN : Begin(n, i, pc, ok)
    BY <1>3 DEF AgentStart, AgentStop, AgentRestart
  <2>2. Become(Ack(n), Executing(pc, i, ok)) /\ Ack(n) \in Proc
    BY <2>1, ProcFacts DEF Begin
  <2>3. Moved(Ack(n)) /\ call'[Ack(n)].pc = pc
    BY <2>2, AnyMove DEF Become, Executing, Begun, IndInv, TypeOK
  <2> QED BY <1>1, <2>3, Unsettled DEF SettledPc
<1> QED
  BY <1>2, <1>3

\* The loop stays past its transition, with the same command.
LEMMA StaysSettled ==
    ASSUME IndInv, RereadInv, NEW n \in Node, UNCHANGED <<cmds, faults, gaveUp>>,
           Moved(Ack(n)), call[Ack(n)].pc \in SettledPc, call'[Ack(n)].pc \in SettledPc,
           call'[Ack(n)].cmd = call[Ack(n)].cmd,
           \A s \in Sandbox : row'[s].state = row[s].state /\ row'[s].node = row[s].node
    PROVE  Attends
<1>1. SettleKept(n) /\ RereadOK(call'[Ack(n)])
  BY DEF SettleKept, RereadOK, SettledPc
<1> QED
  BY <1>1, SameStates, SameCmds, AckOwn

LEMMA AckReadAttends ==
    ASSUME IndInv, RereadInv, NEW n \in Node, AckRead(n)
    PROVE  Attends
<1> DEFINE k  == call[Ack(n)]
           st == row[k.sb].state
           ev == AckEvent(cmds[k.cmd].type, k.ok, st)
<1>1. UNCHANGED <<row, cmds, faults, gaveUp>> /\ k.pc = "send" /\ Ack(n) \in Proc
  BY ProcFacts DEF AckRead, At, db, counts
<1>2. cmds[k.cmd].type \in CmdType /\ k.ok \in BOOLEAN /\ cmds[k.cmd].sb = k.sb
  BY <1>1, AckFacts DEF Command, Call
<1>3. CASE ev = "none" /\ Step(Ack(n), "ack_done")
  <2>1. cmds[k.cmd].type # "start_sandbox"
    BY <1>2, <1>3 DEF AckEvent
  <2>2. Moved(Ack(n)) /\ call'[Ack(n)].pc = "ack_done" /\ call'[Ack(n)].cmd = k.cmd
    BY <1>1, <1>3, StepFacts DEF Pc
  <2>3. SettleKept(n) /\ RereadOK(call'[Ack(n)])
    BY <1>1, <2>1, <2>2 DEF SettleKept, RereadOK
  <2> QED BY <1>1, <2>2, <2>3, SameRows, SameCmds, AckOwn
<1>4. ASSUME NEW to, Become(Ack(n), Reading("ack_cas", k.sb, to, k.cmd, k.ok))
      PROVE  Attends
  <2>1. Moved(Ack(n)) /\ call'[Ack(n)].pc = "ack_cas"
    BY <1>1, <1>4, AnyMove DEF Become, Reading, IndInv, TypeOK
  <2> QED BY <1>1, <2>1, Unsettled DEF SettledPc
<1>5. CASE /\ ev # "none" /\ st = AckTarget(ev)
           /\ Become(Ack(n), Reading(AfterTransition(st), k.sb, st, k.cmd, k.ok))
  <2>1. ev \in {"started", "start_failed", "destroyed"}
    BY <1>2, <1>5 DEF AckEvent, CmdType
  <2>2. st # "starting"
    BY <1>5, <2>1 DEF AckTarget
  <2>3. /\ Moved(Ack(n)) /\ call'[Ack(n)].pc = AfterTransition(st)
        /\ call'[Ack(n)].cmd = k.cmd
    BY <1>1, <1>5, AnyMove DEF Become, Reading, IndInv, TypeOK
  <2>4. SettleKept(n)
    BY <1>1, <1>2, <2>2, <2>3 DEF SettleKept
  <2>5. RereadOK(call'[Ack(n)])
    BY <2>3 DEF RereadOK, AfterTransition
  <2> QED BY <1>1, <2>3, <2>4, <2>5, SameRows, SameCmds, AckOwn
<1>6. CASE Return(Ack(n))
  BY <1>1, <1>6, ReturnFacts, Unsettled DEF SettledPc
<1> QED
  BY <1>3, <1>4, <1>5, <1>6 DEF AckRead

LEMMA AckCasAttends ==
    ASSUME IndInv, RereadInv, NEW n \in Node, AckCas(n)
    PROVE  Attends
<1> DEFINE k == call[Ack(n)]
<1>1. UNCHANGED <<cmds, faults, gaveUp>> /\ k.pc = "ack_cas" /\ Ack(n) \in Proc
  BY ProcFacts DEF AckCas, At, counts
<1>2. /\ k.nxt \in {"running", "failed", "destroyed"} /\ k.sb \in Sandbox
      /\ cmds[k.cmd].sb = k.sb
  BY <1>1, AckFacts DEF IndInv, AckInv, AckOK, AckEdge
<1>3. CASE SetState(k.sb, k.nxt) /\ Step(Ack(n), AfterTransition(k.nxt))
  <2>1. AfterTransition(k.nxt) \in Pc \ {"ack_reread"}
    BY DEF AfterTransition, Pc
  <2>2. /\ Moved(Ack(n)) /\ call'[Ack(n)].pc = AfterTransition(k.nxt)
        /\ call'[Ack(n)].cmd = k.cmd
    BY <1>1, <1>3, <2>1, StepFacts
  <2>3. row'[k.sb].state = k.nxt
    BY <1>2, <1>3, OneState
  <2>4. SettleKept(n) /\ RereadOK(call'[Ack(n)])
    BY <1>1, <1>2, <2>1, <2>2, <2>3 DEF SettleKept, RereadOK
  <2>5. \A s \in Sandbox : Enters(s)
    BY <1>2, <1>3, Leaves
  <2> QED BY <1>1, <2>2, <2>4, <2>5, SameCmds, AckOwn
<1>4. CASE Step(Ack(n), "ack_reread") /\ UNCHANGED row
  <2>1. Moved(Ack(n)) /\ call'[Ack(n)].pc = "ack_reread" /\ call'[Ack(n)].nxt = k.nxt
    BY <1>1, <1>4, StepFacts DEF Pc
  <2>2. SettleKept(n) /\ RereadOK(call'[Ack(n)])
    BY <1>2, <2>1 DEF SettleKept, RereadOK, SettledPc
  <2> QED BY <1>1, <1>4, <2>1, <2>2, SameRows, SameCmds, AckOwn
<1> QED
  BY <1>3, <1>4 DEF AckCas

LEMMA AckRereadAttends ==
    ASSUME IndInv, RereadInv, NEW n \in Node, AckReread(n)
    PROVE  Attends
<1> DEFINE k == call[Ack(n)]
<1>1. UNCHANGED <<row, cmds, faults, gaveUp>> /\ k.pc = "ack_reread" /\ Ack(n) \in Proc
  BY ProcFacts DEF AckReread, At, db, counts
<1>2. k.nxt \in {"running", "failed", "destroyed"} /\ cmds[k.cmd].sb = k.sb
  BY <1>1, AckFacts DEF RereadInv, RereadOK
<1>3. CASE /\ StateIs(k.sb, k.nxt)
           /\ Become(Ack(n), Reading(AfterTransition(k.nxt), k.sb, k.nxt, k.cmd, k.ok))
  <2>1. /\ Moved(Ack(n)) /\ call'[Ack(n)].pc = AfterTransition(k.nxt)
        /\ call'[Ack(n)].cmd = k.cmd
    BY <1>1, <1>3, AnyMove DEF Become, Reading, IndInv, TypeOK
  <2>2. SettleKept(n)
    BY <1>1, <1>2, <1>3, <2>1 DEF SettleKept, StateIs
  <2>3. RereadOK(call'[Ack(n)])
    BY <2>1 DEF RereadOK, AfterTransition
  <2> QED BY <1>1, <2>1, <2>2, <2>3, SameRows, SameCmds, AckOwn
<1>4. CASE Return(Ack(n))
  BY <1>1, <1>4, ReturnFacts, Unsettled DEF SettledPc
<1> QED
  BY <1>3, <1>4 DEF AckReread

LEMMA AckOnAttends ==
    ASSUME IndInv, RereadInv, NEW n \in Node,
           AckPersist(n) \/ AckRefetch(n) \/ AckRoute(n) \/ AckReset(n)
    PROVE  Attends
<1> DEFINE k == call[Ack(n)]
<1>1. /\ UNCHANGED <<cmds, faults, gaveUp>> /\ Ack(n) \in Proc
      /\ k.pc \in {"ack_persist", "ack_refetch", "ack_route", "ack_reset"}
  BY ProcFacts DEF AckPersist, AckRefetch, AckRoute, AckReset, At, db, counts
<1>2. k.sb \in Sandbox
  BY <1>1, AckFacts
<1>3. /\ Moved(Ack(n)) /\ call'[Ack(n)].pc \in SettledPc
      /\ call'[Ack(n)].cmd = k.cmd
  <2>1. CASE AckRefetch(n)
    BY <1>1, <2>1, AnyMove DEF AckRefetch, Become, Reading, IndInv, TypeOK, SettledPc
  <2>2. CASE AckPersist(n) \/ AckRoute(n) \/ AckReset(n)
    <3>1. \E pc \in {"ack_refetch", "ack_reset", "ack_done"} : Step(Ack(n), pc)
      BY <2>2 DEF AckPersist, AckRoute, AckReset
    <3> QED BY <1>1, <3>1, StepFacts DEF Pc, SettledPc
  <2> QED BY <2>1, <2>2
<1>4. \A s \in Sandbox : row'[s].state = row[s].state /\ row'[s].node = row[s].node
  <2>1. CASE UNCHANGED row
    BY <2>1
  <2>2. CASE row' = [row EXCEPT ![k.sb].cid = k.cmd]
    BY <1>2, <2>2 DEF IndInv, TypeOK, Row
  <2>3. CASE row' = [row EXCEPT ![k.sb].fails = 0]
    BY <1>2, <2>3 DEF IndInv, TypeOK, Row
  <2> QED BY <2>1, <2>2, <2>3 DEF AckPersist, AckRefetch, AckRoute, AckReset, db
<1> QED
  BY <1>1, <1>3, <1>4, StaysSettled DEF SettledPc

LEMMA AckDoneAttends ==
    ASSUME IndInv, RereadInv, NEW n \in Node, AckDone(n)
    PROVE  Attends
<1> DEFINE k == call[Ack(n)]
           st == IF k.ok THEN "completed" ELSE "failed"
<1>1. /\ UNCHANGED <<row, faults, gaveUp>> /\ k.pc = "ack_done" /\ Return(Ack(n))
      /\ cmds' = [cmds EXCEPT ![k.cmd].status = st] /\ Ack(n) \in Proc
  BY ProcFacts DEF AckDone, At, counts
<1>2. k.cmd \in 1..Len(cmds) /\ cmds[k.cmd] \in Command
  BY <1>1, AckFacts
<1>3. CmdsKept
  <2>1. /\ Len(cmds') = Len(cmds) /\ Len(cmds) \in Nat
        /\ \A i \in 1..Len(cmds) : i # k.cmd => cmds'[i] = cmds[i]
        /\ cmds'[k.cmd] = [cmds[k.cmd] EXCEPT !.status = st]
    BY <1>1, <1>2 DEF IndInv, TypeOK
  <2>2. cmds'[k.cmd].sb = cmds[k.cmd].sb /\ cmds'[k.cmd].type = cmds[k.cmd].type
    BY <1>2, <2>1 DEF Command
  <2> QED BY <1>1, <2>1, <2>2 DEF CmdsKept
<1>4. Moved(Ack(n)) /\ call'[Ack(n)].pc = "idle"
  BY <1>1, ReturnFacts
<1>5. SettleKept(n) /\ RereadOK(call'[Ack(n)])
  BY <1>4 DEF SettleKept, SettledPc, RereadOK
<1> QED
  BY <1>1, <1>3, <1>4, <1>5, SameRows, AckOwn

-----------------------------------------------------------------------------
(* Time, containers, and faults. *)

LEMMA EnvironmentAttends ==
    ASSUME IndInv, RereadInv, Environment
    PROVE  Attends
<1>1. ASSUME NEW n \in Node, Heartbeat(n) PROVE Attends
  BY <1>1, SameRows, SameCmds, OfNobody DEF Heartbeat, counts
<1>2. ASSUME NEW n \in Node, NEW a \in App, ContainerExits(n, a) PROVE Attends
  BY <1>2, SameRows, SameCmds, OfNobody DEF ContainerExits, db
<1>3. ASSUME NEW s \in Sandbox, GoesIdle(s) \/ FilePush(s) PROVE Attends
  <2>1. UNCHANGED <<cmds, call, faults, gaveUp>>
    BY <1>3 DEF GoesIdle, FilePush, counts
  <2>2. \E b \in BOOLEAN : row' = [row EXCEPT ![s].idle = b]
    BY <1>3 DEF GoesIdle, FilePush
  <2>3. \A t \in Sandbox : row'[t].state = row[t].state /\ row'[t].node = row[t].node
    BY <2>2 DEF IndInv, TypeOK, Row
  <2> QED BY <2>1, <2>3, SameStates, SameCmds, OfNobody
<1> QED
  BY <1>1, <1>2, <1>3, ListingAttends DEF Environment

\* The faults of the model: the invariants excuse them, and RereadInv has nothing
\* to do with them.
LEMMA FaultCounts == ASSUME IndInv, Fault PROVE faults' > 0
<1>1. faults' = faults + 1
  <2>1. ASSUME NEW p \in Proc, AbortCall(p) \/ SkipStatement(p) PROVE faults' = faults + 1
    BY <2>1 DEF AbortCall, SkipStatement
  <2>2. ASSUME NEW n \in Node, LosePoll(n) \/ LoseAck(n) \/ AgentCrash(n)
        PROVE  faults' = faults + 1
    BY <2>2 DEF LosePoll, LoseAck, AgentCrash
  <2>3. ASSUME NEW n \in Node, NEW i \in inbox[n],
               AgentExpired(n, i) \/ AgentStartFails(n, i) \/ AgentStopFails(n, i)
        PROVE  faults' = faults + 1
    BY <2>3 DEF AgentExpired, AgentStartFails, AgentStopFails
  <2>4. CASE ControlRestart
    BY <2>4 DEF ControlRestart
  <2> QED BY <2>1, <2>2, <2>3, <2>4 DEF Fault
<1>2. faults \in Nat
  BY ConstantsAssumption DEF IndInv, TypeOK
<1> QED
  BY <1>1, <1>2

LEMMA FaultReread == ASSUME IndInv, RereadInv, Fault PROVE RereadInv'
<1> SUFFICES ASSUME NEW m \in Node PROVE RereadOK(call'[Ack(m)])
  BY DEF RereadInv
<1>1. RereadOK(call[Ack(m)]) /\ Ack(m) \in Proc
  BY ProcFacts DEF RereadInv
<1>2. CASE call'[Ack(m)] = call[Ack(m)] \/ call'[Ack(m)].pc # "ack_reread"
  BY <1>1, <1>2 DEF RereadOK
<1>3. ASSUME NEW p \in Proc, Return(p) PROVE RereadOK(call'[Ack(m)])
  BY <1>1, <1>2, <1>3, ReturnFacts DEF Moved
<1>4. ASSUME NEW p \in Proc, SkipStatement(p) PROVE RereadOK(call'[Ack(m)])
  <2>1. DOMAIN Tolerated = {"reap_cmd", "move_reset", "ack_persist", "ack_refetch",
                            "ack_reset"}
    BY DEF Tolerated
  <2>2. \A pc \in DOMAIN Tolerated : Tolerated[pc] \in Pc \ {"ack_reread"}
    BY <2>1 DEF Tolerated, Pc
  <2>3. Step(p, Tolerated[call[p].pc]) /\ call[p].pc \in DOMAIN Tolerated
    BY <1>4 DEF SkipStatement
  <2>4. Moved(p) /\ call'[p].pc # "ack_reread"
    BY <2>2, <2>3, StepFacts
  <2> QED BY <1>1, <1>2, <2>4 DEF Moved
<1>5. CASE ControlRestart
  <2>1. Idle.pc = "idle"
    BY DEF Idle, Begun
  <2>2. call'[Ack(m)] = call[Ack(m)] \/ call'[Ack(m)] = Idle
    BY <1>1, <1>5 DEF ControlRestart
  <2> QED BY <1>2, <2>1, <2>2
<1>6. ASSUME NEW n \in Node, NEW i \in inbox[n],
             AgentExpired(n, i) \/ AgentStartFails(n, i) \/ AgentStopFails(n, i)
      PROVE  RereadOK(call'[Ack(m)])
  <2>1. Become(Ack(n), Executing("send", i, FALSE)) /\ Ack(n) \in Proc
    BY <1>6, ProcFacts DEF AgentExpired, AgentStartFails, AgentStopFails, Begin
  <2>2. Moved(Ack(n)) /\ call'[Ack(n)].pc = "send"
    BY <2>1, AnyMove DEF Become, Executing, Begun, IndInv, TypeOK
  <2> QED BY <1>1, <1>2, <2>2 DEF Moved
<1>7. ASSUME NEW n \in Node, LosePoll(n) PROVE RereadOK(call'[Ack(m)])
  BY <1>2, <1>7 DEF LosePoll
<1>8. ASSUME NEW n \in Node, LoseAck(n) \/ AgentCrash(n) PROVE RereadOK(call'[Ack(m)])
  BY <1>3, <1>8, ProcFacts DEF LoseAck, AgentCrash
<1>9. ASSUME NEW p \in Proc, AbortCall(p) PROVE RereadOK(call'[Ack(m)])
  BY <1>3, <1>9 DEF AbortCall
<1> QED
  BY <1>4, <1>5, <1>6, <1>7, <1>8, <1>9 DEF Fault

-----------------------------------------------------------------------------
(* The theorems. *)

LEMMA AttendedInit == Init => Attended
<1> SUFFICES ASSUME Init PROVE Attended
  OBVIOUS
<1>1. \A s \in Sandbox : row[s].state = "absent"
  BY DEF Init
<1>2. \A p \in Proc : call[p].pc = "idle"
  BY DEF Init, Idle, Begun
<1> QED
  BY <1>1, <1>2, ProcFacts
     DEF Attended, StartInv, RereadInv, RereadOK, RestartingIsAttended, PendingIsAttended

LEMMA AttendedStep ==
    ASSUME IndInv, Attended, [Next]_vars
    PROVE  Attended'
<1>1. IndInv' /\ RereadInv
  BY StepOK DEF Attended
<1>2. ASSUME Attends PROVE Attended'
  BY <1>1, <1>2, AttendsOK
<1>3. ASSUME NEW c \in Client, ApiStep(c) \/ \E s \in Sandbox : ApiRequest(c, s)
      PROVE  Attends
  BY <1>1, <1>3, CreateAttends, ApiCasAttends, ApiCmdAttends, ApiRequestAttends DEF ApiStep
<1>4. ASSUME NEW n \in Node, AgentStep(n) PROVE Attends
  BY <1>1, <1>4, PollAttends, ExecuteAttends DEF AgentStep
<1>5. ASSUME NEW n \in Node, HandleAck(n) PROVE Attends
  BY <1>1, <1>5, AckReadAttends, AckCasAttends, AckRereadAttends, AckOnAttends, AckDoneAttends
     DEF HandleAck
<1>6. ASSUME NEW n \in Node, HandleEvent(n) PROVE Attends
  BY <1>1, <1>6, EventReadAttends, EventCasAttends, CrashAttends, CrashFailAttends,
     CrashCasAttends, CrashCmdAttends DEF HandleEvent
<1>7. ASSUME ReaperStep \/ Environment PROVE Attends
  BY <1>1, <1>7, ReaperAttends, EnvironmentAttends
<1>8. ASSUME Reschedule PROVE Attends
  BY <1>1, <1>8, ListingAttends, MoveCasAttends, MoveOnAttends, MoveEndAttends, MoveCmdAttends
     DEF Reschedule
<1>9. ASSUME Fault PROVE Attended'
  BY <1>1, <1>9, FaultCounts, FaultReread, FaultyOK
<1>10. ASSUME UNCHANGED vars PROVE Attends
  BY <1>1, <1>10, SameRows, SameCmds, OfNobody DEF vars
<1> QED
  BY <1>2, <1>3, <1>4, <1>5, <1>6, <1>7, <1>8, <1>9, <1>10 DEF Next

LEMMA AttendedInvariant == Spec => [](IndInv /\ Attended)
<1>1. Init => IndInv /\ Attended
  BY InitOK, AttendedInit
<1>2. (IndInv /\ Attended) /\ [Next]_vars => (IndInv /\ Attended)'
  BY StepOK, AttendedStep
<1> QED
  BY <1>1, <1>2, PTL DEF Spec

LEMMA StartInvSuffices == IndInv /\ Attended => StartingIsAttended
  BY DEF Attended, StartInv, CanSettle, StartingIsAttended, IssuePc

\* However the creates, wakes, crash handlers and reschedulings overlap with acks,
\* events and destroys, none of them leaves a sandbox in 'starting' without a
\* start command that can still be acked, or a handler about to issue one.
THEOREM StartIsAttended == Spec => []StartingIsAttended
  BY AttendedInvariant, StartInvSuffices, PTL

\* A sandbox is in 'restarting' only while its HandleCrash is under way, or after
\* it was found out of attempts.
THEOREM RestartIsAttended == Spec => []RestartingIsAttended
<1>1. Attended => RestartingIsAttended
  BY DEF Attended
<1> QED
  BY AttendedInvariant, <1>1, PTL

\* A sandbox whose node failed is in 'pending' only in the rescheduler's hands.
THEOREM MoveIsAttended == Spec => []PendingIsAttended
<1>1. Attended => PendingIsAttended
  BY DEF Attended
<1> QED
  BY AttendedInvariant, <1>1, PTL

-----------------------------------------------------------------------------
(* The same with events that come twice or late. *)

EventRecord == [type : EventType, app : App]
LateInv == late \in [Node -> SUBSET EventRecord]
RedeliveryInv == IndInv /\ Attended /\ LateInv

\* A redelivery changes nothing but the events under way.
LEMMA RedeliveryOK ==
    ASSUME RedeliveryInv, NEW n \in Node,
           PostDelayed(n) \/ PostHandled(n) \/ EventReplayed(n)
    PROVE  RedeliveryInv'
<1>1. /\ UNCHANGED <<row, cmds, healthy, call, batch, inbox, tracked, ctr, route, gaveUp,
                     crashes, timeouts, faults>>
  BY DEF PostDelayed, PostHandled, EventReplayed, db, counts
<1>2. IndInv /\ evq \in [Node -> Seq(EventRecord)] /\ late \in [Node -> SUBSET EventRecord]
  BY DEF RedeliveryInv, LateInv, IndInv, TypeOK, EventRecord
<1>3. evq[n] # <<>> => Head(evq[n]) \in EventRecord /\ Tail(evq[n]) \in Seq(EventRecord)
  BY <1>2
<1>4. \A e \in EventRecord : <<e>> \o evq[n] \in Seq(EventRecord)
  BY <1>2
<1>5. evq' \in [Node -> Seq(EventRecord)] /\ LateInv'
  <2> HIDE DEF EventRecord
  <2>1. CASE PostDelayed(n)
    BY <1>2, <1>3, <2>1 DEF PostDelayed, LateInv
  <2>2. CASE PostHandled(n)
    BY <1>2, <1>4, <2>2 DEF PostHandled, LateInv
  <2>3. CASE EventReplayed(n)
    BY <1>2, <1>3, <1>4, <2>3 DEF EventReplayed, LateInv
  <2> QED BY <2>1, <2>2, <2>3
<1>6. TypeOK'
  BY <1>1, <1>2, <1>5 DEF IndInv, TypeOK, EventRecord
<1>7. IndInv'
  BY <1>1, <1>2, <1>6, SameRow, SameTable, SameBatch, SameAgents, NoCall
<1>8. Attends
  BY <1>1, <1>2, SameRows, SameCmds, OfNobody DEF RedeliveryInv, Attended
<1>9. Attended'
  BY <1>7, <1>8, AttendsOK DEF RedeliveryInv
<1> QED
  BY <1>5, <1>7, <1>9 DEF RedeliveryInv

LEMMA RedeliveryInvariant == RedeliverySpec => []RedeliveryInv
<1>1. RedeliveryInit => RedeliveryInv
  BY InitOK, AttendedInit DEF RedeliveryInit, RedeliveryInv, LateInv
<1>2. RedeliveryInv /\ [RedeliveryNext]_rvars => RedeliveryInv'
  <2> SUFFICES ASSUME RedeliveryInv, [RedeliveryNext]_rvars PROVE RedeliveryInv'
    OBVIOUS
  <2>1. CASE LifecycleStep \/ UNCHANGED rvars
    <3>1. [Next]_vars /\ UNCHANGED late
      BY <2>1 DEF LifecycleStep, rvars
    <3> QED BY <3>1, StepOK, AttendedStep DEF RedeliveryInv, LateInv
  <2> QED BY <2>1, RedeliveryOK DEF RedeliveryNext
<1> QED
  BY <1>1, <1>2, PTL DEF RedeliverySpec

\* HandleEvent has nothing to tell a repeated or a late event by; even so such an
\* event strands no sandbox in 'starting', in 'restarting' or in 'pending'.
THEOREM AttendedWithRedelivery ==
    RedeliverySpec => [](StartingIsAttended /\ RestartingIsAttended /\ PendingIsAttended)
<1>1. RedeliveryInv => StartingIsAttended /\ RestartingIsAttended /\ PendingIsAttended
  BY StartInvSuffices DEF RedeliveryInv, Attended
<1> QED
  BY RedeliveryInvariant, <1>1, PTL

-----------------------------------------------------------------------------
(* While nothing is disturbed: the inductive invariant. *)

Gone == {"destroying", "destroyed"}

StartOf(i, s) == i \in 1..Len(cmds) /\ cmds[i].sb = s /\ cmds[i].type = "start_sandbox"

\* An agent has begun command i, and start command i of s has made a container.
Taken(i) == cmds[i].status # "pending" /\ \A n \in Node : i \notin inbox[n]
Executed(i, s) == StartOf(i, s) /\ Taken(i)
Made(s) == \E i \in 1..Len(cmds) : Executed(i, s)

\* The container of s was made and is gone.
Removed(s) ==
    /\ Made(s)
    /\ \A n \in Node : ctr[n][AppOf[s]].cid = 0

\* The reaper and the monitor have nothing to do.
PassesCalm ==
    /\ call[Reaper].pc = "idle" /\ call[Monitor].pc = "idle"
    /\ batch[Reaper] = {} /\ batch[Monitor] = {}
    /\ \A s \in Sandbox : ~row[s].idle

\* A sandbox lives once: pending, starting, running, destroyed.  A row that has a
\* node is kept for ever, and is the only one of its app.
RowCalm(r) ==
    /\ r.state \notin {"restarting", "stopped", "failed"}
    /\ r.node \in Node => r.state \in {"starting", "running"} \cup Gone
OneOfApp == \A s, t \in Sandbox : AppOf[s] = AppOf[t] /\ Exists(s) /\ Exists(t) => s = t
RowsCalm == OneOfApp /\ \A s \in Sandbox : RowCalm(row[s])

\* One start command for a sandbox, on its node; a stop command only after a
\* destroy.
CmdCalm(i) ==
    /\ cmds[i].type \in {"start_sandbox", "stop_sandbox"}
    /\ row[cmds[i].sb].node \in Node
    /\ cmds[i].type = "start_sandbox" =>
         /\ cmds[i].node = row[cmds[i].sb].node
         /\ \A j \in 1..Len(cmds) : StartOf(j, cmds[i].sb) => j = i
    /\ cmds[i].type = "stop_sandbox" => row[cmds[i].sb].state \in Gone
CmdsCalm == \A i \in 1..Len(cmds) : CmdCalm(i)

\* A create call past its insert is the only one for its sandbox, which has no
\* start command yet.
CreatePc == {"schedule", "assign", "start_cmd"}
ApiCalm(k) ==
    /\ k.pc \notin {"wake_cas", "restart_cmd"}
    /\ k.pc \in CreatePc =>
         row[k.sb].state # "absent" /\ \A i \in 1..Len(cmds) : ~StartOf(i, k.sb)
    /\ k.pc = "start_cmd" => row[k.sb].node = k.node
    /\ k.pc = "destroy_cas" /\ k.node # NoNode => row[k.sb].node \in Node
    /\ k.pc = "stop_cmd" /\ k.node # NoNode =>
         row[k.sb].node \in Node /\ row[k.sb].state \in Gone
OneCreate ==
    \A c, d \in Client :
        /\ call[Api(c)].pc \in CreatePc /\ call[Api(d)].pc \in CreatePc
        /\ call[Api(c)].sb = call[Api(d)].sb
        => c = d
ApisCalm == OneCreate /\ \A c \in Client : ApiCalm(call[Api(c)])

\* A container is the one of an executed start command, and is up.
MadeBy(i, n, a) ==
    /\ i \in 1..Len(cmds) /\ cmds[i].type = "start_sandbox" /\ Taken(i)
    /\ cmds[i].node = n /\ AppOf[cmds[i].sb] = a
CtrCalm ==
    \A n \in Node, a \in App :
        LET x == ctr[n][a] IN
        /\ x.cid = 0 => ~x.up
        /\ x.cid # 0 => x.up /\ MadeBy(x.cid, n, a)

\* A start event follows a start; an exit event follows a destroy.
EventCalm(e) ==
    /\ e.type = "container_started" =>
         \E s \in Sandbox : AppOf[s] = e.app /\ Made(s)
    /\ e.type # "container_started" =>
         \E s \in Sandbox : AppOf[s] = e.app /\ row[s].node \in Node /\ row[s].state \in Gone
EvqCalm == \A n \in Node : \A j \in 1..Len(evq[n]) : EventCalm(evq[n][j])

EvtCalm(k) ==
    /\ k.pc \in {"idle", "event_cas"}
    /\ k.pc = "event_cas" => k.nxt = "running" /\ Made(k.sb)
EvtsCalm == \A n \in Node : EvtCalm(call[Evt(n)])

\* The ack of a start command is a success; a stop that is acked as a success has
\* removed the container.
StartAck(k) == cmds[k.cmd].type = "start_sandbox"
AckCalm(k) ==
    k.pc # "idle" =>
        /\ StartAck(k) => Taken(k.cmd) /\ k.ok /\ k.pc # "stopped"
        /\ ~StartAck(k) => k.pc # "created" /\ (k.ok => Removed(k.sb))
        /\ k.pc \in {"ack_cas", "ack_reread", "ack_persist", "ack_refetch", "ack_route"} =>
             \/ k.nxt = "running" /\ StartAck(k)
             \/ k.nxt = "destroyed" /\ ~StartAck(k) /\ k.ok /\ k.pc # "ack_persist"
        /\ k.pc = "ack_cas" /\ StartAck(k) => k.st = "starting"
        /\ k.pc = "ack_reread" /\ StartAck(k) => row[k.sb].state \in {"running"} \cup Gone
AcksCalm == \A n \in Node : AckCalm(call[Ack(n)])

\* The container of a start is in the row, or its ack has yet to store it.
UnstoredPc == {"created", "send", "ack_cas", "ack_reread", "ack_persist"}
Stored(i, s) ==
    \/ row[s].cid = i
    \/ \E n \in Node : call[Ack(n)].cmd = i /\ call[Ack(n)].pc \in UnstoredPc
LiveCalm(s) ==
    /\ row[s].state = "running" => Made(s)
    /\ row[s].state = "destroyed" /\ row[s].node \in Node => Removed(s)
    /\ row[s].state \in {"starting", "running"} =>
         \A i \in 1..Len(cmds) : Executed(i, s) =>
             /\ ctr[row[s].node][AppOf[s]] = [cid |-> i, up |-> TRUE]
             /\ Stored(i, s)
LivesCalm == \A s \in Sandbox : LiveCalm(s)

Calm == /\ PassesCalm /\ RowsCalm /\ CmdsCalm /\ ApisCalm /\ CtrCalm /\ EvqCalm
        /\ EvtsCalm /\ AcksCalm /\ LivesCalm

-----------------------------------------------------------------------------
(* What a step leaves as it is. *)

\* The commands; a start command that was executed stays so.
TableOn ==
    /\ Len(cmds) \in Nat /\ Len(cmds') \in Nat /\ Len(cmds) <= Len(cmds')
    /\ \A i \in 1..Len(cmds) :
         /\ cmds'[i].sb = cmds[i].sb /\ cmds'[i].type = cmds[i].type
         /\ cmds'[i].node = cmds[i].node
         /\ cmds[i].type = "start_sandbox" /\ Taken(i) => Taken(i)'

\* No start command is executed.
TableSame == \A i, s : Executed(i, s)' <=> Executed(i, s)

LEMMA MadeOn ==
    ASSUME TableOn, NEW s, Made(s)
    PROVE  Made(s)'
<1>1. PICK i \in 1..Len(cmds) : Executed(i, s)
  BY DEF Made
<1>2. i \in 1..Len(cmds')
  BY DEF TableOn
<1>3. Executed(i, s)'
  BY <1>1, <1>2 DEF TableOn, Executed, StartOf
<1> QED
  BY <1>2, <1>3 DEF Made

LEMMA MadeSame ==
    ASSUME TableSame, NEW s
    PROVE  Made(s)' <=> Made(s)
<1>1. \A i : Executed(i, s) => i \in 1..Len(cmds)
  BY DEF Executed, StartOf
<1>2. \A i : Executed(i, s)' => i \in 1..Len(cmds')
  BY DEF Executed, StartOf
<1> QED
  BY <1>1, <1>2 DEF TableSame, Made

LEMMA TableSameOn ==
    ASSUME TableOn,
           \A i \in 1..Len(cmds) : cmds[i].type = "start_sandbox" /\ Taken(i)' => Taken(i),
           \A i \in 1..Len(cmds') : i \notin 1..Len(cmds) => cmds'[i].status = "pending"
    PROVE  TableSame
<1> SUFFICES ASSUME NEW i, NEW s PROVE Executed(i, s)' <=> Executed(i, s)
  BY DEF TableSame
<1>1. CASE i \in 1..Len(cmds)
  <2>1. i \in 1..Len(cmds')
    BY <1>1 DEF TableOn
  <2> QED
    BY <1>1, <2>1 DEF TableOn, Executed, StartOf
<1>2. CASE i \notin 1..Len(cmds)
  BY <1>2 DEF TableOn, Executed, StartOf, Taken
<1> QED
  BY <1>1, <1>2

LEMMA MadeByOn ==
    ASSUME TableOn, NEW i, NEW n, NEW a, MadeBy(i, n, a)
    PROVE  MadeBy(i, n, a)'
<1>1. i \in 1..Len(cmds')
  BY DEF TableOn, MadeBy
<1> QED
  BY <1>1 DEF TableOn, MadeBy

\* A row that has a node keeps it, and goes on through its life.
RowsOn ==
    \A s \in Sandbox :
        /\ row[s].node \in Node => /\ row'[s].node = row[s].node
                                   /\ row[s].state \in Gone => row'[s].state \in Gone
                                   /\ row[s].state = "running" => row'[s].state \in {"running"} \cup Gone
        /\ row[s].state # "absent" => row'[s].state # "absent"

LEMMA CtrOn ==
    ASSUME TableOn, CtrCalm, UNCHANGED ctr
    PROVE  CtrCalm' /\ \A s : Removed(s) => Removed(s)'
<1>1. ASSUME NEW s PROVE Removed(s) => Removed(s)'
  BY MadeOn DEF Removed
<1>2. ASSUME NEW n \in Node, NEW a \in App, NEW i, ctr[n][a].cid = i, i # 0
      PROVE  ctr[n][a].up /\ MadeBy(i, n, a)'
  BY <1>2, MadeByOn DEF CtrCalm
<1> QED
  BY <1>1, <1>2 DEF CtrCalm

LEMMA CmdsOn ==
    ASSUME IndInv, TableOn, Len(cmds') = Len(cmds), CmdsCalm, RowsOn
    PROVE  CmdsCalm'
<1>1. SUFFICES ASSUME NEW i \in 1..Len(cmds) PROVE CmdCalm(i)'
  BY DEF CmdsCalm
<1>2. CmdCalm(i) /\ cmds[i].sb \in Sandbox
  <2>1. cmds[i] \in Command
    BY DEF IndInv, TypeOK
  <2> QED
    BY <2>1 DEF CmdsCalm, Command
<1>3. \A j, s : StartOf(j, s)' <=> StartOf(j, s)
  BY DEF TableOn, StartOf
<1> QED
  BY <1>2, <1>3 DEF TableOn, RowsOn, CmdCalm

LEMMA EventOn ==
    ASSUME TableOn, RowsOn, NEW e, EventCalm(e)
    PROVE  EventCalm(e)'
  BY MadeOn DEF RowsOn, EventCalm

LEMMA EvqOn ==
    ASSUME TableOn, RowsOn, EvqCalm,
           \A n \in Node : \A j \in 1..Len(evq'[n]) :
               \/ \E l \in 1..Len(evq[n]) : evq'[n][j] = evq[n][l]
               \/ EventCalm(evq[n][j])'
    PROVE  EvqCalm'
<1>1. SUFFICES ASSUME NEW n \in Node, NEW j \in 1..Len(evq'[n])
               PROVE  EventCalm(evq[n][j])'
  BY DEF EvqCalm
<1>2. ASSUME NEW l \in 1..Len(evq[n]), evq'[n][j] = evq[n][l]
      PROVE  EventCalm(evq[n][j])'
  <2>1. EventCalm(evq[n][l])
    BY DEF EvqCalm
  <2>2. PICK e : e = evq[n][l] /\ e = evq'[n][j]
    BY <1>2
  <2>3. EventCalm(e)'
    BY <2>1, <2>2, EventOn
  <2> QED
    BY <2>2, <2>3 DEF EventCalm
<1> QED
  BY <1>2

LEMMA EvtOn ==
    ASSUME TableOn, NEW k, EvtCalm(k)
    PROVE  EvtCalm(k)'
  BY MadeOn DEF EvtCalm

\* What an ack in flight knows.
LEMMA AckOn ==
    ASSUME TableOn, RowsOn, \A s : Removed(s) => Removed(s)',
           NEW k, AckCalm(k), k.pc # "idle" => k.cmd \in 1..Len(cmds) /\ k.sb \in Sandbox,
           k.pc # "idle" => row[k.sb].node \in Node
    PROVE  AckCalm(k)'
  BY DEF TableOn, RowsOn, AckCalm, StartAck

LEMMA ApiOn ==
    ASSUME TableOn, RowsOn, NEW k, ApiCalm(k), k.pc # "idle" => k.sb \in Sandbox,
           k.pc \in CreatePc => \A i \in 1..Len(cmds') : ~StartOf(i, k.sb)',
           k.pc = "start_cmd" => k.node \in Node
    PROVE  ApiCalm(k)'
  BY DEF RowsOn, ApiCalm, CreatePc

\* A command names a sandbox that has a node.
LEMMA NamedHasNode ==
    ASSUME IndInv, CmdsCalm, NEW s \in Refs
    PROVE  s \in Sandbox /\ row[s].node \in Node
<1>1. PICK i \in 1..Len(cmds) : s = cmds[i].sb
  BY DEF Refs
<1>2. cmds[i] \in Command
  BY DEF IndInv, TypeOK
<1> QED
  BY <1>1, <1>2 DEF CmdsCalm, CmdCalm, Command

LEMMA MadeIsNamed ==
    ASSUME NEW s, Made(s)
    PROVE  s \in Refs
  BY DEF Made, Executed, StartOf, Refs

LEMMA OthersOn ==
    ASSUME IndInv, Calm, TableOn, RowsOn, \A s : Removed(s) => Removed(s)', NEW n \in Node
    PROVE  /\ call'[Evt(n)] = call[Evt(n)] => EvtCalm(call[Evt(n)])'
           /\ call'[Ack(n)] = call[Ack(n)] => AckCalm(call[Ack(n)])'
<1>1. ASSUME call'[Evt(n)] = call[Evt(n)] PROVE EvtCalm(call[Evt(n)])'
  <2>1. PICK k : k = call[Evt(n)] /\ k = call'[Evt(n)]
    BY <1>1
  <2>2. EvtCalm(k)'
    BY <2>1, EvtOn DEF Calm, EvtsCalm
  <2> QED
    BY <2>1, <2>2 DEF EvtCalm
<1>2. ASSUME call'[Ack(n)] = call[Ack(n)] PROVE AckCalm(call[Ack(n)])'
  <2>1. PICK k : k = call[Ack(n)] /\ k = call'[Ack(n)]
    BY <1>2
  <2>2. AckCalm(k)
    BY <2>1 DEF Calm, AcksCalm
  <2>3. k.pc # "idle" => k.cmd \in 1..Len(cmds) /\ k.sb \in Sandbox /\ row[k.sb].node \in Node
    BY <2>1, AckFacts, NamedHasNode DEF Calm
  <2>4. AckCalm(k)'
    BY <2>2, <2>3, AckOn
  <2> QED
    BY <2>1, <2>4 DEF AckCalm, StartAck
<1> QED
  BY <1>1, <1>2

LEMMA LiveOn ==
    ASSUME TableSame, UNCHANGED ctr, NEW s, LiveCalm(s),
           row'[s].state = "running" => Made(s),
           row'[s].state = "destroyed" /\ row'[s].node \in Node => Removed(s),
           row'[s].state \in {"starting", "running"} =>
               \/ /\ row[s].state \in {"starting", "running"} /\ row'[s].node = row[s].node
                  /\ \A i : Executed(i, s) /\ Stored(i, s) => Stored(i, s)'
               \/ ~Made(s)
    PROVE  LiveCalm(s)'
<1>1. Made(s)' <=> Made(s)
  BY MadeSame
<1>2. \A i : Executed(i, s)' <=> Executed(i, s)
  BY DEF TableSame
<1>3. \A i : Executed(i, s) => i \in 1..Len(cmds) /\ Made(s)
  BY DEF Executed, StartOf, Made
<1> QED
  BY <1>1, <1>2, <1>3 DEF LiveCalm, Removed

LEMMA SameCalls ==
    ASSUME NEW i, NEW s, Stored(i, s), row'[s].cid = row[s].cid,
           \A n \in Node : call'[Ack(n)] = call[Ack(n)]
    PROVE  Stored(i, s)'
  BY DEF Stored

\* A step that does not touch row s.
LEMMA LiveSame ==
    ASSUME TableSame, UNCHANGED ctr, NEW s, LiveCalm(s), row'[s].state = row[s].state,
           row'[s].node = row[s].node,
           row[s].state \in {"starting", "running"} =>
               \A i : Executed(i, s) /\ Stored(i, s) => Stored(i, s)'
    PROVE  LiveCalm(s)'
  BY LiveOn DEF LiveCalm

NoStart(s) == \A i \in 1..Len(cmds) : ~StartOf(i, s)

LEMMA NoStartOn ==
    ASSUME TableOn, Len(cmds') = Len(cmds), NEW s, NoStart(s)
    PROVE  NoStart(s)'
  BY DEF TableOn, NoStart, StartOf

\* The other clients, when client c takes a step.
LEMMA ApisOn ==
    ASSUME IndInv, ApisCalm, TableOn, RowsOn, NEW c \in Client, Moved(Api(c)),
           \A s \in Sandbox : NoStart(s) /\ (s = call[Api(c)].sb => call[Api(c)].pc \notin CreatePc)
                                => NoStart(s)',
           ApiCalm(call[Api(c)])',
           call'[Api(c)].pc \in CreatePc =>
               \/ call[Api(c)].pc \in CreatePc /\ call'[Api(c)].sb = call[Api(c)].sb
               \/ \A d \in Client : d # c => call[Api(d)].sb # call'[Api(c)].sb
               \/ row[call'[Api(c)].sb].state = "absent"
    PROVE  ApisCalm'
<1>1. \A d \in Client : d # c => call'[Api(d)] = call[Api(d)]
  BY ProcFacts DEF Moved
<1>2. \A d \in Client : call[Api(d)].pc \in CreatePc => row[call[Api(d)].sb].state # "absent"
  BY DEF ApisCalm, ApiCalm
<1>3. OneCreate'
  BY <1>1, <1>2 DEF ApisCalm, OneCreate
<1>4. ASSUME NEW d \in Client, d # c PROVE ApiCalm(call[Api(d)])'
  <2>1. PICK k : k = call[Api(d)] /\ k = call'[Api(d)]
    BY <1>1, <1>4
  <2>2. ApiCalm(k) /\ (k.pc # "idle" => k.sb \in Sandbox) /\ (k.pc = "start_cmd" => k.node \in Node)
    BY <2>1 DEF ApisCalm, IndInv, ApiInv, ApiOK
  <2>3. k.pc \in CreatePc => NoStart(k.sb)'
    <3> SUFFICES ASSUME k.pc \in CreatePc PROVE NoStart(k.sb)'
      OBVIOUS
    <3>1. NoStart(k.sb) /\ k.sb \in Sandbox
      BY <2>2 DEF ApiCalm, NoStart, CreatePc
    <3>2. k.sb = call[Api(c)].sb => call[Api(c)].pc \notin CreatePc
      BY <1>4, <2>1 DEF ApisCalm, OneCreate
    <3> QED
      BY <3>1, <3>2
  <2>4. ApiCalm(k)'
    BY <2>2, <2>3, ApiOn DEF NoStart
  <2> QED
    BY <2>1, <2>4 DEF ApiCalm
<1> QED
  BY <1>3, <1>4 DEF ApisCalm

\* The clients, when some other process takes a step.
LEMMA ApisSame ==
    ASSUME IndInv, ApisCalm, TableOn, RowsOn, Len(cmds') = Len(cmds),
           \A c \in Client : call'[Api(c)] = call[Api(c)]
    PROVE  ApisCalm'
<1>1. OneCreate'
  BY DEF ApisCalm, OneCreate
<1>2. ASSUME NEW d \in Client PROVE ApiCalm(call[Api(d)])'
  <2>1. PICK k : k = call[Api(d)] /\ k = call'[Api(d)]
    OBVIOUS
  <2>2. ApiCalm(k) /\ (k.pc # "idle" => k.sb \in Sandbox) /\ (k.pc = "start_cmd" => k.node \in Node)
    BY <2>1 DEF ApisCalm, IndInv, ApiInv, ApiOK
  <2>3. k.pc \in CreatePc => NoStart(k.sb)'
    BY <2>2, NoStartOn DEF ApiCalm, NoStart
  <2>4. ApiCalm(k)'
    BY <2>2, <2>3, ApiOn DEF NoStart
  <2> QED
    BY <2>1, <2>4 DEF ApiCalm
<1> QED
  BY <1>1, <1>2 DEF ApisCalm

\* What is left to show of a step of client c.
LEMMA ApiFrame ==
    ASSUME IndInv, Calm, NEW c \in Client, Moved(Api(c)), TableOn, RowsOn,
           UNCHANGED <<ctr, evq, batch>>, \A s \in Sandbox : ~row'[s].idle,
           RowsCalm', CmdsCalm', ApisCalm', LivesCalm'
    PROVE  Calm'
<1>1. CtrCalm' /\ \A s : Removed(s) => Removed(s)'
  BY CtrOn DEF Calm
<1>2. EvqCalm'
  BY EvqOn DEF Calm
<1>3. EvtsCalm' /\ AcksCalm'
  BY <1>1, OthersOn, ProcFacts DEF EvtsCalm, AcksCalm, Moved
<1>4. PassesCalm'
  BY ProcFacts DEF Calm, PassesCalm, Moved
<1> QED
  BY <1>1, <1>2, <1>3, <1>4 DEF Calm

\* ... of an agent's loop, or of a node's event handler.
LEMMA NodeFrame ==
    ASSUME IndInv, Calm, NEW p \in Proc, \A c \in Client : p # Api(c),
           p # Reaper, p # Monitor, Moved(p),
           TableOn, Len(cmds') = Len(cmds), RowsOn,
           UNCHANGED batch, \A s \in Sandbox : ~row'[s].idle,
           CtrCalm', \A s : Removed(s) => Removed(s)', EvqCalm', RowsCalm', LivesCalm',
           \A n \in Node : p = Evt(n) => EvtCalm(call[Evt(n)])',
           \A n \in Node : p = Ack(n) => AckCalm(call[Ack(n)])'
    PROVE  Calm'
<1>1. EvtsCalm' /\ AcksCalm'
  BY OthersOn, ProcFacts DEF EvtsCalm, AcksCalm, Moved
<1>2. PassesCalm'
  BY ProcFacts DEF Calm, PassesCalm, Moved
<1>3. CmdsCalm' /\ ApisCalm'
  BY CmdsOn, ApisSame, ProcFacts DEF Calm, Moved
<1> QED
  BY <1>1, <1>2, <1>3 DEF Calm

LEMMA SameTableOn == ASSUME IndInv, UNCHANGED <<cmds, inbox>> PROVE TableOn /\ TableSame
<1>1. Len(cmds) \in Nat
  BY DEF IndInv, TypeOK
<1> QED
  BY <1>1 DEF TableOn, TableSame, Executed, StartOf, Taken

\* No row changes in what the invariant looks at.
RowsSame ==
    \A s \in Sandbox : /\ row'[s].state = row[s].state /\ row'[s].node = row[s].node
                       /\ row'[s].cid = row[s].cid /\ ~row'[s].idle

LEMMA RowsSameOn ==
    ASSUME RowsCalm, RowsSame
    PROVE  RowsCalm' /\ RowsOn
<1>1. OneOfApp'
  BY DEF RowsCalm, OneOfApp, RowsSame, Exists
<1>2. ASSUME NEW s \in Sandbox PROVE RowCalm(row[s])'
  BY DEF RowsCalm, RowCalm, RowsSame
<1>3. RowsOn
  BY DEF RowsOn, RowsSame
<1> QED
  BY <1>1, <1>2, <1>3 DEF RowsCalm

LEMMA UnchangedRows ==
    ASSUME Calm, UNCHANGED row
    PROVE  RowsSame
  BY DEF Calm, PassesCalm, RowsSame

-----------------------------------------------------------------------------
(* The API's handlers while nothing is disturbed. *)

LEMMA ApiReads ==
    ASSUME IndInv, Calm, NEW c \in Client, Moved(Api(c)),
           UNCHANGED <<row, cmds, inbox, ctr, evq, batch>>, ApiCalm(call[Api(c)])',
           call'[Api(c)].pc \in CreatePc =>
               call[Api(c)].pc \in CreatePc /\ call'[Api(c)].sb = call[Api(c)].sb
    PROVE  Calm'
<1>1. TableOn /\ TableSame /\ RowsOn /\ RowsCalm' /\ RowsSame
  BY SameTableOn, UnchangedRows, RowsSameOn DEF Calm
<1>2. CmdsCalm'
  BY <1>1, CmdsOn DEF Calm
<1>3. ApisCalm'
  BY <1>1, NoStartOn, ApisOn DEF Calm
<1>4. LivesCalm'
  BY <1>1, LiveSame, SameCalls, ProcFacts DEF Calm, LivesCalm, RowsSame, Moved
<1> QED
  BY <1>1, <1>2, <1>3, <1>4, ApiFrame DEF RowsSame

LEMMA ApiReturns ==
    ASSUME IndInv, Calm, NEW c \in Client, Return(Api(c)),
           UNCHANGED <<row, cmds, inbox, ctr, evq, batch>>
    PROVE  Calm'
<1>1. Moved(Api(c)) /\ call'[Api(c)].pc = "idle"
  BY ReturnFacts, ProcFacts
<1>2. ApiCalm(call[Api(c)])' /\ call'[Api(c)].pc \notin CreatePc
  BY <1>1 DEF ApiCalm, CreatePc
<1> QED
  BY <1>1, <1>2, ApiReads

LEMMA CreateLookupCalm ==
    ASSUME IndInv, Calm, NEW c \in Client, NEW s \in Sandbox, CreateLookup(c, s)
    PROVE  Calm'
<1>1. UNCHANGED <<row, cmds, inbox, ctr, evq, batch>> /\ Api(c) \in Proc
  BY ProcFacts DEF CreateLookup, db, agents
<1>2. PICK x \in Sandbox \cup {NoSandbox}, pc \in {"insert", "recycle"} :
        Become(Api(c), Creating(pc, s, x))
  BY DEF CreateLookup, RowsOf
<1>3. Moved(Api(c)) /\ call'[Api(c)].pc = pc
  BY <1>1, <1>2, AnyMove DEF Become, Creating, Begun, IndInv, TypeOK
<1>4. ApiCalm(call[Api(c)])' /\ call'[Api(c)].pc \notin CreatePc
  BY <1>3 DEF ApiCalm, CreatePc
<1> QED
  BY <1>1, <1>3, <1>4, ApiReads

LEMMA CreateScheduleCalm ==
    ASSUME IndInv, Calm, NEW c \in Client, CreateSchedule(c)
    PROVE  Calm'
<1>1. UNCHANGED <<row, cmds, inbox, ctr, evq, batch>> /\ Api(c) \in Proc
  BY ProcFacts DEF CreateSchedule, db, agents
<1>2. CASE Return(Api(c))
  BY <1>1, <1>2, ApiReturns
<1>3. ASSUME NEW n, Become(Api(c), Placing("assign", call[Api(c)].sb, n)) PROVE Calm'
  <2>1. /\ Moved(Api(c)) /\ call'[Api(c)].pc = "assign" /\ call'[Api(c)].sb = call[Api(c)].sb
        /\ call[Api(c)].pc = "schedule"
    BY <1>1, <1>3, AnyMove DEF CreateSchedule, At, Become, Placing, Begun, IndInv, TypeOK
  <2>2. ApiCalm(call[Api(c)])
    BY DEF Calm, ApisCalm
  <2>3. ApiCalm(call[Api(c)])'
    BY <1>1, <2>1, <2>2 DEF ApiCalm, CreatePc, StartOf
  <2> QED
    BY <1>1, <2>1, <2>3, ApiReads DEF CreatePc
<1> QED
  BY <1>2, <1>3 DEF CreateSchedule

\* A step of client c that changes row s.
LEMMA ApiSets ==
    ASSUME IndInv, Calm, NEW c \in Client, Moved(Api(c)),
           UNCHANGED <<cmds, inbox, ctr, evq, batch>>, NEW s \in Sandbox,
           \A t \in Sandbox : t # s => row'[t] = row[t],
           Exists(s)' => Exists(s) \/ RowsOf(AppOf[s]) = {},
           ~row'[s].idle, RowCalm(row'[s]), RowsOn, LiveCalm(s)',
           ApiCalm(call[Api(c)])',
           call'[Api(c)].pc \in CreatePc =>
               /\ call'[Api(c)].sb = call[Api(c)].sb
               /\ call[Api(c)].pc \in CreatePc \/ row[call[Api(c)].sb].state = "absent"
    PROVE  Calm'
<1>1. TableOn /\ TableSame
  BY SameTableOn
<1>2. RowsCalm'
  <2>1. \A t, u \in Sandbox : AppOf[t] = AppOf[u] /\ Exists(t) /\ Exists(u) => t = u
    BY DEF Calm, RowsCalm, OneOfApp
  <2>2. \A t \in Sandbox : t # s => (Exists(t)' <=> Exists(t))
    BY DEF Exists
  <2>3. \A t \in Sandbox : Exists(t) /\ AppOf[t] = AppOf[s] => RowsOf(AppOf[s]) # {}
    BY DEF RowsOf
  <2>4. OneOfApp'
    BY <2>1, <2>2, <2>3 DEF OneOfApp
  <2>5. \A t \in Sandbox : RowCalm(row'[t])
    BY DEF Calm, RowsCalm
  <2> QED
    BY <2>4, <2>5 DEF RowsCalm, RowCalm
<1>3. CmdsCalm'
  BY <1>1, CmdsOn DEF Calm
<1>4. ApisCalm'
  BY <1>1, NoStartOn, ApisOn DEF Calm
<1>5. ASSUME NEW t \in Sandbox, t # s PROVE LiveCalm(t)'
  <2>1. row'[t] = row[t] /\ LiveCalm(t)
    BY <1>5 DEF Calm, LivesCalm
  <2>2. \A i : Stored(i, t) => Stored(i, t)'
    BY <2>1, SameCalls, ProcFacts DEF Moved
  <2> QED
    BY <1>1, <2>1, <2>2, LiveSame
<1>6. \A t \in Sandbox : ~row'[t].idle
  BY DEF Calm, PassesCalm
<1> QED
  BY <1>1, <1>2, <1>3, <1>4, <1>5, <1>6, ApiFrame DEF LivesCalm

LEMMA CreateRecycleCalm ==
    ASSUME IndInv, Calm, NEW c \in Client, CreateRecycle(c)
    PROVE  Calm'
<1> DEFINE k == call[Api(c)]
<1>1. UNCHANGED <<cmds, inbox, ctr, evq, batch>> /\ Api(c) \in Proc /\ k.pc = "recycle"
  BY ProcFacts DEF CreateRecycle, agents, At
<1>0. PICK x \in Sandbox : x = k.old
  BY <1>1 DEF IndInv, ApiInv, ApiOK
<1>2. CASE Return(Api(c)) /\ UNCHANGED row
  BY <1>1, <1>2, ApiReturns
<1>3. CASE ~Referenced(x) /\ SetState(x, "deleted") /\ Step(Api(c), "insert")
  <2>1. /\ x \in Sandbox /\ x \notin Refs
        /\ row[x].state \in {"destroyed", "failed", "deleted"}
    BY <1>0, <1>1, <1>3 DEF IndInv, ApiInv, ApiOK, Referenced, Refs
  <2>2. row[x].node \notin Node
    <3>1. RowCalm(row[x]) /\ LiveCalm(x)
      BY <2>1 DEF Calm, RowsCalm, LivesCalm
    <3> QED
      BY <2>1, <3>1, MadeIsNamed DEF RowCalm, LiveCalm, Removed, Gone
  <2>3. /\ row'[x].state = "deleted" /\ row'[x].node = row[x].node /\ ~row'[x].idle
        /\ \A s \in Sandbox : s # x => row'[s] = row[s]
    BY <1>3, <2>1 DEF IndInv, TypeOK, SetState, Row, Calm, PassesCalm
  <2>4. Moved(Api(c)) /\ call'[Api(c)].pc = "insert"
    BY <1>1, <1>3, StepFacts DEF Pc
  <2>5. TableOn /\ TableSame /\ RowsOn /\ RowCalm(row'[x]) /\ ~Exists(x)'
    BY <1>1, <2>2, <2>3, SameTableOn DEF RowsOn, RowCalm, Exists
  <2>6. ApiCalm(call[Api(c)])' /\ call'[Api(c)].pc \notin CreatePc
    BY <2>4 DEF ApiCalm, CreatePc
  <2>7. LiveCalm(x)'
    BY <1>1, <2>1, <2>3, <2>5, LiveOn DEF Calm, LivesCalm
  <2> QED
    BY <1>1, <2>1, <2>3, <2>4, <2>5, <2>6, <2>7, ApiSets
<1> QED
  BY <1>0, <1>2, <1>3 DEF CreateRecycle

LEMMA CreateInsertCalm ==
    ASSUME IndInv, Calm, NEW c \in Client, CreateInsert(c)
    PROVE  Calm'
<1> DEFINE k == call[Api(c)]
<1>1. UNCHANGED <<cmds, inbox, ctr, evq, batch>> /\ Api(c) \in Proc /\ k.pc = "insert"
  BY ProcFacts DEF CreateInsert, agents, At
<1>0. PICK s \in Sandbox : s = k.sb
  BY <1>1 DEF IndInv, ApiInv, ApiOK
<1>2. CASE Return(Api(c)) /\ UNCHANGED row
  BY <1>1, <1>2, ApiReturns
<1>3. CASE /\ RowsOf(AppOf[s]) = {} /\ Step(Api(c), "schedule")
           /\ row' = [row EXCEPT ![s] = [state |-> "pending", node |-> NoNode,
                                         cid |-> 0, fails |-> 0, idle |-> FALSE]]
  <2>1. s = k.sb /\ s \in Sandbox /\ row[s].state = "absent" /\ row[s].node \notin Node
    BY <1>0, <1>1, ConstantsAssumption DEF IndInv, ApiInv, ApiOK, RowInv, RowOK
  <2>2. NoStart(s)
    BY <2>1, NamedHasNode DEF NoStart, StartOf, Refs, Calm
  <2>3. /\ row'[s].state = "pending" /\ row'[s].node = NoNode /\ ~row'[s].idle
        /\ \A t \in Sandbox : t # s => row'[t] = row[t]
    BY <1>3, <2>1 DEF IndInv, TypeOK
  <2>4. Moved(Api(c)) /\ call'[Api(c)].pc = "schedule" /\ call'[Api(c)].sb = s
    BY <1>0, <1>1, <1>3, StepFacts DEF Pc
  <2>5. TableOn /\ TableSame /\ RowsOn /\ RowCalm(row'[s])
    BY <1>1, <2>1, <2>3, SameTableOn, ConstantsAssumption DEF RowsOn, RowCalm
  <2>6. NoStart(s)'
    BY <1>1, <2>2, <2>5, NoStartOn
  <2>7. ApiCalm(call[Api(c)])'
    BY <2>3, <2>4, <2>6 DEF ApiCalm, NoStart
  <2>8. LiveCalm(s)'
    BY <1>1, <2>1, <2>3, <2>5, LiveOn DEF Calm, LivesCalm
  <2> QED
    BY <1>0, <1>1, <1>3, <2>1, <2>3, <2>4, <2>5, <2>7, <2>8, ApiSets
<1> QED
  BY <1>0, <1>2, <1>3 DEF CreateInsert

LEMMA CreateAssignCalm ==
    ASSUME IndInv, Calm, NEW c \in Client, CreateAssign(c)
    PROVE  Calm'
<1> DEFINE k == call[Api(c)]
<1>1. UNCHANGED <<cmds, inbox, ctr, evq, batch>> /\ Api(c) \in Proc /\ k.pc = "assign"
  BY ProcFacts DEF CreateAssign, agents, At
<1>0. PICK s \in Sandbox : s = k.sb
  BY <1>1 DEF IndInv, ApiInv, ApiOK
<1>2. CASE Return(Api(c)) /\ UNCHANGED row
  BY <1>1, <1>2, ApiReturns
<1>3. CASE StateIs(s, "pending") /\ AssignSandboxToNode(s, k.node) /\ Step(Api(c), "start_cmd")
  <2>1. s = k.sb /\ s \in Sandbox /\ k.node \in Node /\ row[s].state = "pending"
    BY <1>0, <1>1, <1>3 DEF IndInv, ApiInv, ApiOK, StateIs
  <2>2. NoStart(s) /\ row[s].node \notin Node
    BY <1>0, <1>1, <2>1 DEF Calm, ApisCalm, ApiCalm, CreatePc, NoStart, RowsCalm, RowCalm, Gone
  <2>3. /\ row'[s].state = "starting" /\ row'[s].node = k.node /\ ~row'[s].idle
        /\ \A t \in Sandbox : t # s => row'[t] = row[t]
    BY <1>3, <2>1 DEF IndInv, TypeOK, AssignSandboxToNode, Calm, PassesCalm
  <2>4. /\ Moved(Api(c)) /\ call'[Api(c)].pc = "start_cmd" /\ call'[Api(c)].sb = s
        /\ call'[Api(c)].node = k.node
    BY <1>0, <1>1, <1>3, StepFacts DEF Pc
  <2>5. TableOn /\ TableSame /\ RowsOn /\ RowCalm(row'[s]) /\ Exists(s)
    BY <1>1, <2>1, <2>2, <2>3, SameTableOn DEF RowsOn, RowCalm, Exists
  <2>6. NoStart(s)' /\ ~Made(s)
    BY <1>1, <2>2, <2>5, NoStartOn DEF Made, Executed, NoStart
  <2>7. ApiCalm(call[Api(c)])'
    BY <2>3, <2>4, <2>6 DEF ApiCalm, NoStart
  <2>8. LiveCalm(s)'
    BY <1>1, <2>1, <2>3, <2>5, <2>6, LiveOn DEF Calm, LivesCalm
  <2> QED
    BY <1>0, <1>1, <2>1, <2>3, <2>4, <2>5, <2>7, <2>8, ApiSets DEF CreatePc
<1> QED
  BY <1>0, <1>2, <1>3 DEF CreateAssign

LEMMA DestroyReadCalm ==
    ASSUME IndInv, Calm, NEW c \in Client, NEW s \in Sandbox, DestroyRead(c, s)
    PROVE  Calm'
<1>1. UNCHANGED <<row, cmds, inbox, ctr, evq, batch>> /\ Api(c) \in Proc
  BY ProcFacts DEF DestroyRead, db, agents
<1>2. PICK to \in State \cup {"none"} : Become(Api(c), ReadRow("destroy_cas", s, to))
  BY DEF DestroyRead, NextState
<1>3. /\ Moved(Api(c)) /\ call'[Api(c)].pc = "destroy_cas" /\ call'[Api(c)].sb = s
      /\ call'[Api(c)].node = row[s].node
  BY <1>1, <1>2, ReadRowFacts
<1>4. row[s].node \in Node \cup {NoNode}
  BY DEF IndInv, TypeOK, Row
<1>5. ApiCalm(call[Api(c)])' /\ call'[Api(c)].pc \notin CreatePc
  BY <1>1, <1>3, <1>4 DEF ApiCalm, CreatePc
<1> QED
  BY <1>1, <1>3, <1>5, ApiReads

LEMMA DestroyCasCalm ==
    ASSUME IndInv, Calm, NEW c \in Client, DestroyCas(c)
    PROVE  Calm'
<1> DEFINE k == call[Api(c)]
<1>1. UNCHANGED <<cmds, inbox, ctr, evq, batch>> /\ Api(c) \in Proc /\ k.pc = "destroy_cas"
  BY ProcFacts DEF DestroyCas, agents, At
<1>0. PICK s \in Sandbox : s = k.sb
  BY <1>1 DEF IndInv, ApiInv, ApiOK
<1>2. CASE Return(Api(c)) /\ UNCHANGED row
  BY <1>1, <1>2, ApiReturns
<1>3. CASE StateIs(s, k.st) /\ SetState(s, k.nxt) /\ Step(Api(c), "stop_cmd")
  <2>1. /\ s \in Sandbox /\ <<row[s].state, k.nxt>> \in DestroyEdge
        /\ k.node # NoNode => row[s].node \in Node
    BY <1>0, <1>1, <1>3 DEF IndInv, ApiInv, ApiOK, StateIs, Calm, ApisCalm, ApiCalm
  <2>2. /\ k.nxt \in Gone /\ row[s].state \in {"pending", "starting", "running"}
        /\ row[s].node \in Node => k.nxt = "destroying"
    BY <2>1 DEF Calm, RowsCalm, RowCalm, DestroyEdge, Gone
  <2>3. /\ row'[s].state = k.nxt /\ row'[s].node = row[s].node /\ ~row'[s].idle
        /\ \A t \in Sandbox : t # s => row'[t] = row[t]
    BY <1>3, <2>1 DEF IndInv, TypeOK, SetState, Row, Calm, PassesCalm
  <2>4. /\ Moved(Api(c)) /\ call'[Api(c)].pc = "stop_cmd" /\ call'[Api(c)].sb = s
        /\ call'[Api(c)].node = k.node
    BY <1>0, <1>1, <1>3, StepFacts DEF Pc
  <2>5. TableOn /\ TableSame /\ RowsOn /\ RowCalm(row'[s]) /\ Exists(s)
    BY <1>1, <2>1, <2>2, <2>3, SameTableOn DEF RowsOn, RowCalm, Exists, Gone
  <2>6. ApiCalm(call[Api(c)])' /\ call'[Api(c)].pc \notin CreatePc
    BY <2>1, <2>2, <2>3, <2>4 DEF ApiCalm, CreatePc
  <2>7. LiveCalm(s)'
    BY <1>1, <2>1, <2>2, <2>3, <2>5, LiveOn DEF Calm, LivesCalm, Gone
  <2> QED
    BY <1>0, <1>1, <2>1, <2>3, <2>4, <2>5, <2>6, <2>7, ApiSets
<1> QED
  BY <1>0, <1>2, <1>3 DEF DestroyCas

\* A command is issued.
LEMMA AppendOn ==
    ASSUME IndInv, UNCHANGED inbox, NEW type, NEW s, NEW n, NEW x,
           InsertCommand(type, s, n, x)
    PROVE  /\ TableOn /\ TableSame /\ Len(cmds') = Len(cmds) + 1
           /\ \A i \in 1..Len(cmds) : cmds'[i] = cmds[i]
           /\ cmds'[Len(cmds) + 1].sb = s /\ cmds'[Len(cmds) + 1].type = type
           /\ cmds'[Len(cmds) + 1].node = n
<1>1. /\ Len(cmds) \in Nat /\ Len(cmds') = Len(cmds) + 1
      /\ \A i \in 1..Len(cmds) : cmds'[i] = cmds[i]
      /\ cmds'[Len(cmds) + 1] = [type |-> type, sb |-> s, node |-> n, cid |-> x,
                                 status |-> "pending"]
  BY DEF IndInv, TypeOK, InsertCommand
<1>2. TableOn
  BY <1>1 DEF TableOn, Taken
<1>3. TableSame
  BY <1>1, <1>2, TableSameOn DEF Taken
<1> QED
  BY <1>1, <1>2, <1>3

LEMMA IssueCalm ==
    ASSUME IndInv, Calm, NEW c \in Client, Return(Api(c)),
           UNCHANGED <<row, inbox, ctr, evq, batch>>,
           NEW type \in {"start_sandbox", "stop_sandbox"}, NEW n, NEW x, NEW s \in Sandbox,
           InsertCommand(type, s, n, x), row[s].node \in Node,
           type = "start_sandbox" => /\ NoStart(s) /\ n = row[s].node
                                     /\ s = call[Api(c)].sb /\ call[Api(c)].pc \in CreatePc,
           type = "stop_sandbox" => row[s].state \in Gone
    PROVE  Calm'
<1>0. PICK l : l = Len(cmds) + 1
  OBVIOUS
<1>1. /\ TableOn /\ TableSame /\ Len(cmds') = l /\ Len(cmds) \in Nat
      /\ \A i \in 1..Len(cmds) : cmds'[i] = cmds[i]
      /\ cmds'[l].sb = s /\ cmds'[l].type = type /\ cmds'[l].node = n
  BY <1>0, AppendOn DEF TableOn
<1>2. RowsOn /\ RowsCalm' /\ RowsSame
  BY UnchangedRows, RowsSameOn DEF Calm
<1>3. \A j, t : StartOf(j, t)' <=> StartOf(j, t) \/ (j = l /\ t = s /\ type = "start_sandbox")
  BY <1>0, <1>1 DEF StartOf
<1>4. CmdsCalm'
  <2>1. ASSUME NEW i \in 1..Len(cmds) PROVE CmdCalm(i)'
    <3>1. CmdCalm(i) /\ cmds'[i] = cmds[i]
      BY <1>1 DEF Calm, CmdsCalm
    <3>2. cmds[i].type = "start_sandbox" => StartOf(i, cmds[i].sb)
      BY DEF StartOf
    <3>3. cmds[i].type = "start_sandbox" /\ type = "start_sandbox" => cmds[i].sb # s
      BY <3>2 DEF NoStart
    <3>4. ASSUME NEW j, StartOf(j, cmds[i].sb)', cmds[i].type = "start_sandbox" PROVE j = i
      <4>1. StartOf(j, cmds[i].sb)
        BY <1>3, <3>1, <3>3, <3>4
      <4>2. j \in 1..Len(cmds)
        BY <4>1 DEF StartOf
      <4> QED
        BY <3>1, <3>4, <4>1, <4>2 DEF CmdCalm
    <3> QED
      BY <3>1, <3>4 DEF CmdCalm
  <2>2. CmdCalm(l)'
    BY <1>0, <1>1, <1>3 DEF CmdCalm, NoStart, StartOf
  <2> QED
    BY <1>0, <1>1, <2>1, <2>2 DEF CmdsCalm
<1>5. Moved(Api(c)) /\ call'[Api(c)].pc = "idle"
  BY ReturnFacts, ProcFacts
<1>6. ApiCalm(call[Api(c)])' /\ call'[Api(c)].pc \notin CreatePc
  BY <1>5 DEF ApiCalm, CreatePc
<1>7. \A t \in Sandbox : NoStart(t) /\ (t = call[Api(c)].sb => call[Api(c)].pc \notin CreatePc)
                           => NoStart(t)'
  BY <1>1, <1>3 DEF NoStart, StartOf
<1>8. ApisCalm'
  BY <1>1, <1>2, <1>5, <1>6, <1>7, ApisOn DEF Calm
<1>9. LivesCalm'
  BY <1>1, <1>2, <1>5, LiveSame, SameCalls, ProcFacts DEF Calm, LivesCalm, RowsSame, Moved
<1> QED
  BY <1>1, <1>2, <1>4, <1>5, <1>8, <1>9, ApiFrame DEF RowsSame

LEMMA StartCmdCalm ==
    ASSUME IndInv, Calm, NEW c \in Client, StartCmd(c)
    PROVE  Calm'
<1> DEFINE k == call[Api(c)]
<1>1. /\ UNCHANGED <<row, inbox, ctr, evq, batch>> /\ Return(Api(c)) /\ k.pc = "start_cmd"
      /\ CreateCommand("start_sandbox", k.sb, k.node, 0)
  BY DEF StartCmd, agents, At
<1>2. k.sb \in Sandbox /\ k.node \in Node
  BY <1>1 DEF IndInv, ApiInv, ApiOK
<1>3. NoStart(k.sb) /\ row[k.sb].node = k.node /\ k.pc \in CreatePc
  BY <1>1 DEF Calm, ApisCalm, ApiCalm, CreatePc, NoStart
<1>4. CASE UNCHANGED cmds
  BY <1>1, <1>4, ApiReturns
<1>5. CASE InsertCommand("start_sandbox", k.sb, k.node, 0)
  BY <1>1, <1>2, <1>3, <1>5, IssueCalm
<1> QED
  BY <1>1, <1>4, <1>5 DEF CreateCommand

LEMMA StopCmdCalm ==
    ASSUME IndInv, Calm, NEW c \in Client, StopCmd(c)
    PROVE  Calm'
<1> DEFINE k == call[Api(c)]
<1>1. UNCHANGED <<row, inbox, ctr, evq, batch>> /\ Return(Api(c)) /\ k.pc = "stop_cmd"
  BY DEF StopCmd, agents, At
<1>2. CASE UNCHANGED cmds
  BY <1>1, <1>2, ApiReturns
<1>3. CASE k.node # NoNode /\ InsertCommand("stop_sandbox", k.sb, k.node, k.cid)
  <2>1. k.sb \in Sandbox /\ row[k.sb].node \in Node /\ row[k.sb].state \in Gone
    BY <1>1, <1>3 DEF IndInv, ApiInv, ApiOK, Calm, ApisCalm, ApiCalm
  <2> QED
    BY <1>1, <1>3, <2>1, IssueCalm
<1> QED
  BY <1>2, <1>3 DEF StopCmd, CreateCommand

\* Every request and every step of a client; no sandbox is stopped, so none is
\* woken.
LEMMA ApiCalmStep ==
    ASSUME "restart" \notin ApiOps, IndInv, Calm, NEW c \in Client,
           ApiStep(c) \/ \E s \in Sandbox : ApiRequest(c, s)
    PROVE  Calm'
<1>1. ~WakeCas(c) /\ ~RestartCmd(c)
  BY DEF WakeCas, RestartCmd, At, Calm, ApisCalm, ApiCalm
<1>2. ASSUME NEW s \in Sandbox PROVE ~WakeRead(c, s) /\ ~RestartRead(c, s)
  BY DEF WakeRead, RestartRead, Calm, RowsCalm, RowCalm
<1> QED
  BY <1>1, <1>2, CreateLookupCalm, CreateRecycleCalm, CreateInsertCalm, CreateScheduleCalm,
     CreateAssignCalm, StartCmdCalm, DestroyReadCalm, DestroyCasCalm, StopCmdCalm
     DEF ApiStep, ApiRequest

-----------------------------------------------------------------------------
(* The agents' command loops, and HandleAck. *)

\* A step of no process.
LEMMA NobodyCalm ==
    ASSUME IndInv, Calm, UNCHANGED <<call, ctr, evq, batch>>,
           TableOn, TableSame, Len(cmds') = Len(cmds), RowsSame
    PROVE  Calm'
<1>1. RowsCalm' /\ RowsOn
  BY RowsSameOn DEF Calm
<1>2. CtrCalm' /\ \A s : Removed(s) => Removed(s)'
  BY CtrOn DEF Calm
<1>3. EvqCalm'
  BY <1>1, EvqOn DEF Calm
<1>4. EvtsCalm' /\ AcksCalm'
  BY <1>1, <1>2, OthersOn DEF EvtsCalm, AcksCalm
<1>5. PassesCalm'
  BY DEF Calm, PassesCalm, RowsSame
<1>6. CmdsCalm' /\ ApisCalm'
  BY <1>1, CmdsOn, ApisSame DEF Calm
<1>7. LivesCalm'
  BY LiveSame, SameCalls DEF Calm, LivesCalm, RowsSame
<1> QED
  BY <1>1, <1>2, <1>3, <1>4, <1>5, <1>6, <1>7 DEF Calm

LEMMA AgentPollCalm ==
    ASSUME IndInv, Calm, NEW n \in Node, AgentPoll(n)
    PROVE  Calm'
<1>1. /\ UNCHANGED <<row, call, ctr, evq, batch>> /\ Dispatch(n) /\ inbox[n] = {}
      /\ inbox' = [inbox EXCEPT ![n] = Pending(n)]
  BY DEF AgentPoll
<1>2. Len(cmds) \in Nat /\ Len(cmds') = Len(cmds)
  BY <1>1 DEF Dispatch, IndInv, TypeOK
<1>3. ASSUME NEW i \in 1..Len(cmds)
      PROVE  /\ cmds'[i].sb = cmds[i].sb /\ cmds'[i].type = cmds[i].type
             /\ cmds'[i].node = cmds[i].node
             /\ Taken(i)' <=> Taken(i)
  <2>1. cmds[i] \in Command
    BY DEF IndInv, TypeOK
  <2>2. \A m \in Node : inbox'[m] = IF m = n THEN Pending(n) ELSE inbox[m]
    BY <1>1 DEF IndInv, TypeOK
  <2>3. CASE i \in Pending(n)
    <3>1. cmds'[i] = [cmds[i] EXCEPT !.status = "dispatched"] /\ cmds[i].status = "pending"
      BY <1>1, <2>3 DEF Dispatch, Pending
    <3> QED
      BY <2>1, <2>2, <2>3, <3>1 DEF Taken, Command
  <2>4. CASE i \notin Pending(n)
    <3>1. cmds'[i] = cmds[i]
      BY <1>1, <2>4 DEF Dispatch
    <3> QED
      BY <1>1, <2>2, <2>4, <3>1 DEF Taken
  <2> QED
    BY <2>3, <2>4
<1>4. TableOn
  BY <1>2, <1>3 DEF TableOn
<1>5. TableSame
  BY <1>2, <1>3, <1>4, TableSameOn
<1> QED
  BY <1>1, <1>2, <1>4, <1>5, UnchangedRows, NobodyCalm

\* The loop of n does not drop the container it has yet to store.
LEMMA StoredOn ==
    ASSUME IndInv, NEW n \in Node, Moved(Ack(n)), NEW i, NEW s, Executed(i, s), Stored(i, s),
           row'[s].cid = row[s].cid,
           /\ call[Ack(n)].pc \in UnstoredPc /\ StartAck(call[Ack(n)]) /\ call[Ack(n)].sb = s
           => call'[Ack(n)].pc \in UnstoredPc /\ call'[Ack(n)].cmd = call[Ack(n)].cmd
    PROVE  Stored(i, s)'
<1>1. CASE row[s].cid = i
  BY <1>1 DEF Stored
<1>2. ASSUME NEW m \in Node, call[Ack(m)].cmd = i, call[Ack(m)].pc \in UnstoredPc
      PROVE  Stored(i, s)'
  <2>1. CASE m # n
    <3>1. call'[Ack(m)] = call[Ack(m)]
      BY <2>1, ProcFacts DEF Moved
    <3> QED
      BY <1>2, <3>1 DEF Stored
  <2>2. CASE m = n
    <3>1. call[Ack(n)].pc # "idle"
      BY <1>2, <2>2 DEF UnstoredPc
    <3>2. call[Ack(n)].sb = s /\ StartAck(call[Ack(n)])
      BY <1>2, <2>2, <3>1, AckFacts DEF Executed, StartOf, StartAck
    <3> QED
      BY <1>2, <2>2, <3>2 DEF Stored
  <2> QED
    BY <2>1, <2>2
<1> QED
  BY <1>1, <1>2 DEF Stored

\* A step of a command loop that changes no row in what matters, and no container.
LEMMA LoopCalm ==
    ASSUME IndInv, Calm, NEW n \in Node, Moved(Ack(n)),
           TableOn, TableSame, Len(cmds') = Len(cmds), RowsSame,
           UNCHANGED <<ctr, evq, batch>>, AckCalm(call[Ack(n)])',
           /\ call[Ack(n)].pc \in UnstoredPc /\ StartAck(call[Ack(n)])
           /\ row[call[Ack(n)].sb].state \in {"starting", "running"}
           => call'[Ack(n)].pc \in UnstoredPc /\ call'[Ack(n)].cmd = call[Ack(n)].cmd
    PROVE  Calm'
<1>1. RowsCalm' /\ RowsOn
  BY RowsSameOn DEF Calm
<1>2. CtrCalm' /\ \A s : Removed(s) => Removed(s)'
  BY CtrOn DEF Calm
<1>3. EvqCalm'
  BY <1>1, EvqOn DEF Calm
<1>4. ASSUME NEW s \in Sandbox PROVE LiveCalm(s)'
  <2>1. row[s].state \in {"starting", "running"} =>
          \A i : Executed(i, s) /\ Stored(i, s) => Stored(i, s)'
    BY StoredOn DEF RowsSame
  <2> QED
    BY <2>1, LiveSame DEF Calm, LivesCalm, RowsSame
<1> QED
  BY <1>1, <1>2, <1>3, <1>4, NodeFrame, ProcFacts DEF LivesCalm, RowsSame

\* What an ack in flight stands for.
LEMMA AckKnows ==
    ASSUME IndInv, Calm, NEW n \in Node, call[Ack(n)].pc # "idle"
    PROVE  /\ AckCalm(call[Ack(n)]) /\ call[Ack(n)].sb \in Sandbox
           /\ cmds[call[Ack(n)].cmd].type \in {"start_sandbox", "stop_sandbox"}
           /\ row[call[Ack(n)].sb].node \in Node
           /\ row[call[Ack(n)].sb].state \in {"starting", "running"} \cup Gone
<1>1. call[Ack(n)].cmd \in 1..Len(cmds) /\ call[Ack(n)].sb \in Refs
  BY AckFacts
<1>2. call[Ack(n)].sb \in Sandbox /\ row[call[Ack(n)].sb].node \in Node
  BY <1>1, NamedHasNode DEF Calm
<1> QED
  BY <1>1, <1>2 DEF Calm, AcksCalm, CmdsCalm, CmdCalm, RowsCalm, RowCalm

\* The loop goes on with the same command.
LEMMA LoopSteps ==
    ASSUME IndInv, NEW n \in Node, NEW pc \in Pc, Step(Ack(n), pc)
    PROVE  /\ Moved(Ack(n)) /\ call'[Ack(n)].pc = pc
           /\ call'[Ack(n)].sb = call[Ack(n)].sb /\ call'[Ack(n)].cmd = call[Ack(n)].cmd
           /\ call'[Ack(n)].ok = call[Ack(n)].ok /\ call'[Ack(n)].nxt = call[Ack(n)].nxt
           /\ call'[Ack(n)].st = call[Ack(n)].st
<1>1. Ack(n) \in Proc
  BY ProcFacts
<1>2. call[Ack(n)] \in Call
  BY <1>1 DEF IndInv, TypeOK
<1>3. Moved(Ack(n)) /\ call'[Ack(n)] = [call[Ack(n)] EXCEPT !.pc = pc]
  BY <1>1, StepFacts
<1> QED
  BY <1>2, <1>3 DEF Call

LEMMA LoopReads ==
    ASSUME IndInv, NEW n \in Node, NEW pc, NEW nxt,
           Become(Ack(n), Reading(pc, call[Ack(n)].sb, nxt, call[Ack(n)].cmd, call[Ack(n)].ok))
    PROVE  /\ Moved(Ack(n)) /\ call'[Ack(n)].pc = pc /\ call'[Ack(n)].nxt = nxt
           /\ call'[Ack(n)].sb = call[Ack(n)].sb /\ call'[Ack(n)].cmd = call[Ack(n)].cmd
           /\ call'[Ack(n)].ok = call[Ack(n)].ok
           /\ call'[Ack(n)].st = row[call[Ack(n)].sb].state
<1>1. Ack(n) \in Proc /\ call \in [Proc -> Call]
  BY ProcFacts DEF IndInv, TypeOK
<1>2. PICK r : /\ r = Reading(pc, call[Ack(n)].sb, nxt, call[Ack(n)].cmd, call[Ack(n)].ok)
               /\ Become(Ack(n), r)
  OBVIOUS
<1>3. /\ r.pc = pc /\ r.nxt = nxt /\ r.sb = call[Ack(n)].sb /\ r.cmd = call[Ack(n)].cmd
      /\ r.ok = call[Ack(n)].ok /\ r.st = row[call[Ack(n)].sb].state
  BY <1>2 DEF Reading
<1>4. call'[Ack(n)] = r
  BY <1>1, <1>2 DEF Become
<1> QED
  BY <1>1, <1>2, <1>3, <1>4, AnyMove

LEMMA AckReturns ==
    ASSUME IndInv, Calm, NEW n \in Node, Return(Ack(n)),
           TableOn, TableSame, Len(cmds') = Len(cmds), UNCHANGED <<row, ctr, evq, batch>>,
           call[Ack(n)].pc \in UnstoredPc /\ StartAck(call[Ack(n)])
               => row[call[Ack(n)].sb].state \in Gone
    PROVE  Calm'
<1>1. Moved(Ack(n)) /\ call'[Ack(n)].pc = "idle"
  BY ReturnFacts, ProcFacts
<1>2. AckCalm(call[Ack(n)])'
  BY <1>1 DEF AckCalm
<1> QED
  BY <1>1, <1>2, UnchangedRows, LoopCalm DEF Gone

LEMMA TrackCalm ==
    ASSUME IndInv, Calm, NEW n \in Node, AgentTrack(n) \/ AgentUntrack(n)
    PROVE  Calm'
<1> DEFINE k == call[Ack(n)]
<1>1. /\ UNCHANGED <<row, cmds, inbox, ctr, evq, batch>> /\ Step(Ack(n), "send")
      /\ k.pc \in {"created", "stopped"}
  BY DEF AgentTrack, AgentUntrack, At, db
<1>2. TableOn /\ TableSame /\ RowsOn /\ \A s : Removed(s) => Removed(s)'
  BY <1>1, SameTableOn, UnchangedRows, RowsSameOn, CtrOn DEF Calm
<1>3. /\ Moved(Ack(n)) /\ call'[Ack(n)].pc = "send" /\ call'[Ack(n)].cmd = k.cmd
      /\ call'[Ack(n)].sb = k.sb /\ call'[Ack(n)].ok = k.ok
  BY <1>1, LoopSteps DEF Pc
<1>4. AckCalm(k) /\ k.cmd \in 1..Len(cmds)
  BY <1>1, AckKnows, AckFacts
<1>5. AckCalm(call[Ack(n)])'
  <2>1. PICK s : s = k.sb /\ s = call'[Ack(n)].sb
    BY <1>3
  <2> QED
    BY <1>1, <1>2, <1>3, <1>4, <2>1 DEF AckCalm, StartAck, Taken
<1> QED
  BY <1>1, <1>2, <1>3, <1>5, UnchangedRows, LoopCalm DEF UnstoredPc

\* The state machine on the events of acks.
LEMMA AckMoves ==
    /\ \A st : \A to \in NextState(st, "started") : to = "running" /\ st \in {"starting", "failed"}
    /\ NextState("starting", "started") # {}
    /\ \A st : \A to \in NextState(st, "destroyed") : to = "destroyed"
    /\ NextState("destroying", "destroyed") # {}
<1>1. "running" \in NextState("starting", "started")
  BY DEF NextState, ValidTransitions, State
<1>2. "destroyed" \in NextState("destroying", "destroyed")
  BY DEF NextState, ValidTransitions, State
<1> QED
  BY <1>1, <1>2 DEF NextState, ValidTransitions

LEMMA AckEvents ==
    ASSUME NEW type \in {"start_sandbox", "stop_sandbox"}, NEW ok \in BOOLEAN, NEW st
    PROVE  /\ type = "start_sandbox" /\ ok => AckEvent(type, ok, st) = "started"
           /\ type = "stop_sandbox" =>
                \/ AckEvent(type, ok, st) = "none"
                \/ AckEvent(type, ok, st) = "destroyed" /\ st = "destroying" /\ ok
<1>1. CASE type = "start_sandbox"
  BY <1>1 DEF AckEvent
<1>2. CASE type = "stop_sandbox" /\ ok /\ st = "destroying"
  BY <1>2 DEF AckEvent
<1>3. CASE type = "stop_sandbox" /\ ~(ok /\ st = "destroying")
  BY <1>3 DEF AckEvent
<1> QED
  BY <1>1, <1>2, <1>3

\* Where an ack stands after it has read the row.
LEMMA ReadCalm ==
    ASSUME IndInv, Calm, NEW n \in Node, call[Ack(n)].pc # "idle",
           UNCHANGED <<row, cmds, inbox, ctr, evq, batch>>, Moved(Ack(n)),
           call'[Ack(n)].pc \in {"ack_cas", "ack_reread", "ack_persist", "ack_route", "ack_reset", "ack_done"},
           call'[Ack(n)].sb = call[Ack(n)].sb, call'[Ack(n)].cmd = call[Ack(n)].cmd,
           call'[Ack(n)].ok = call[Ack(n)].ok,
           call'[Ack(n)].pc \in {"ack_cas", "ack_reread", "ack_persist", "ack_route"} =>
               \/ call'[Ack(n)].nxt = "running" /\ StartAck(call[Ack(n)])
               \/ /\ call'[Ack(n)].nxt = "destroyed" /\ ~StartAck(call[Ack(n)])
                  /\ call[Ack(n)].ok /\ call'[Ack(n)].pc # "ack_persist",
           StartAck(call[Ack(n)]) =>
               /\ call'[Ack(n)].pc = "ack_cas" => call'[Ack(n)].st = "starting"
               /\ call'[Ack(n)].pc = "ack_reread" => row[call[Ack(n)].sb].state # "starting"
               /\ call[Ack(n)].pc \in UnstoredPc => call'[Ack(n)].pc \in UnstoredPc
    PROVE  Calm'
<1> DEFINE k == call[Ack(n)]
<1>1. TableOn /\ TableSame /\ RowsOn /\ \A s : Removed(s) => Removed(s)'
  BY SameTableOn, UnchangedRows, RowsSameOn, CtrOn DEF Calm
<1>2. AckCalm(k) /\ k.cmd \in 1..Len(cmds) /\ row[k.sb].state \in {"starting", "running"} \cup Gone
  BY AckKnows, AckFacts
<1>3. AckCalm(call[Ack(n)])'
  <2>1. PICK s : s = k.sb /\ s = call'[Ack(n)].sb
    OBVIOUS
  <2> QED
    BY <1>1, <1>2, <2>1 DEF AckCalm, StartAck, Taken
<1> QED
  BY <1>1, <1>3, UnchangedRows, LoopCalm

LEMMA AckReadCalm ==
    ASSUME IndInv, Calm, NEW n \in Node, AckRead(n)
    PROVE  Calm'
<1> DEFINE k  == call[Ack(n)]
           st == row[k.sb].state
           ev == AckEvent(cmds[k.cmd].type, k.ok, st)
<1>1. UNCHANGED <<row, cmds, inbox, ctr, evq, batch>> /\ k.pc = "send"
  BY DEF AckRead, At, db, agents
<1>2. /\ AckCalm(k) /\ cmds[k.cmd].type \in {"start_sandbox", "stop_sandbox"}
      /\ st \in {"starting", "running"} \cup Gone /\ k.ok \in BOOLEAN
  <2>1. k \in Call
    BY <1>1, AckFacts
  <2> QED
    BY <1>1, <2>1, AckKnows DEF Call
<1>3. /\ StartAck(k) => ev = "started" /\ k.ok
      /\ ~StartAck(k) => ev = "none" \/ (ev = "destroyed" /\ st = "destroying" /\ k.ok)
  <2>1. StartAck(k) => k.ok
    BY <1>1, <1>2 DEF AckCalm
  <2>2. /\ cmds[k.cmd].type = "start_sandbox" /\ k.ok => ev = "started"
        /\ cmds[k.cmd].type = "stop_sandbox" =>
             ev = "none" \/ (ev = "destroyed" /\ st = "destroying" /\ k.ok)
    BY <1>2, AckEvents
  <2> QED
    BY <1>2, <2>1, <2>2 DEF StartAck
<1>4. TableOn /\ TableSame
  BY <1>1, SameTableOn
<1>5. CASE ev = "none" /\ Step(Ack(n), "ack_done")
  <2>1. /\ Moved(Ack(n)) /\ call'[Ack(n)].pc = "ack_done" /\ call'[Ack(n)].cmd = k.cmd
        /\ call'[Ack(n)].sb = k.sb /\ call'[Ack(n)].ok = k.ok
    BY <1>5, LoopSteps DEF Pc
  <2> QED
    BY <1>1, <1>3, <1>5, <2>1, ReadCalm
<1>6. ASSUME NEW pc, NEW to, Become(Ack(n), Reading(pc, k.sb, to, k.cmd, k.ok)), ev # "none",
             \/ to \in NextState(st, ev) /\ pc = "ack_cas"
             \/ /\ NextState(st, ev) = {} /\ st = AckTarget(ev) /\ to = st
                /\ pc = AfterTransition(st)
      PROVE  Calm'
  <2>1. /\ Moved(Ack(n)) /\ call'[Ack(n)].pc = pc /\ call'[Ack(n)].cmd = k.cmd
        /\ call'[Ack(n)].sb = k.sb /\ call'[Ack(n)].ok = k.ok
        /\ call'[Ack(n)].nxt = to /\ call'[Ack(n)].st = st
    BY <1>6, LoopReads
  <2>2. CASE StartAck(k)
    <3>1. ev = "started"
      BY <1>3, <2>2
    <3>2. to = "running" /\ ((pc = "ack_cas" /\ st = "starting") \/ pc = "ack_persist")
      BY <1>2, <1>6, <3>1, AckMoves DEF AckTarget, AfterTransition, Gone
    <3> QED
      BY <1>1, <2>1, <2>2, <3>2, ReadCalm DEF UnstoredPc
  <2>3. CASE ~StartAck(k)
    <3>1. ev = "destroyed" /\ st = "destroying" /\ k.ok
      BY <1>3, <1>6, <2>3
    <3>2. to = "destroyed" /\ pc = "ack_cas"
      BY <1>6, <3>1, AckMoves
    <3> QED
      BY <1>1, <2>1, <2>3, <3>1, <3>2, ReadCalm
  <2> QED
    BY <2>2, <2>3
<1>7. CASE ev # "none" /\ NextState(st, ev) = {} /\ st # AckTarget(ev) /\ Return(Ack(n))
  <2>1. StartAck(k) => st \in Gone
    BY <1>2, <1>3, <1>7, AckMoves DEF AckTarget
  <2> QED
    BY <1>1, <1>4, <1>7, <2>1, AckReturns
<1> QED
  BY <1>5, <1>6, <1>7 DEF AckRead

LEMMA AckRereadCalm ==
    ASSUME IndInv, Calm, NEW n \in Node, AckReread(n)
    PROVE  Calm'
<1> DEFINE k  == call[Ack(n)]
<1>1. UNCHANGED <<row, cmds, inbox, ctr, evq, batch>> /\ k.pc = "ack_reread"
  BY DEF AckReread, At, db, agents
<1>2. AckCalm(k) /\ TableOn /\ TableSame
  BY <1>1, AckKnows, SameTableOn
<1>3. \/ k.nxt = "running" /\ StartAck(k)
      \/ k.nxt = "destroyed" /\ ~StartAck(k) /\ k.ok
  BY <1>1, <1>2 DEF AckCalm
<1>4. CASE /\ StateIs(k.sb, k.nxt)
           /\ Become(Ack(n), Reading(AfterTransition(k.nxt), k.sb, k.nxt, k.cmd, k.ok))
  <2>1. /\ Moved(Ack(n)) /\ call'[Ack(n)].pc = AfterTransition(k.nxt)
        /\ call'[Ack(n)].cmd = k.cmd /\ call'[Ack(n)].nxt = k.nxt
        /\ call'[Ack(n)].sb = k.sb /\ call'[Ack(n)].ok = k.ok
    BY <1>4, LoopReads
  <2> QED
    BY <1>1, <1>3, <2>1, ReadCalm DEF AfterTransition, UnstoredPc
<1>5. CASE ~StateIs(k.sb, k.nxt) /\ Return(Ack(n))
  <2>1. StartAck(k) => row[k.sb].state \in Gone
    BY <1>1, <1>2, <1>3, <1>5 DEF AckCalm, StateIs
  <2> QED
    BY <1>1, <1>2, <1>5, <2>1, AckReturns
<1> QED
  BY <1>4, <1>5 DEF AckReread

LEMMA AckRefetchCalm ==
    ASSUME IndInv, Calm, NEW n \in Node, AckRefetch(n)
    PROVE  Calm'
<1> DEFINE k  == call[Ack(n)]
<1>1. /\ UNCHANGED <<row, cmds, inbox, ctr, evq, batch>> /\ k.pc = "ack_refetch"
      /\ Become(Ack(n), Reading("ack_route", k.sb, k.nxt, k.cmd, k.ok))
  BY DEF AckRefetch, At, db, agents
<1>2. \/ k.nxt = "running" /\ StartAck(k)
      \/ k.nxt = "destroyed" /\ ~StartAck(k) /\ k.ok
  BY <1>1, AckKnows DEF AckCalm
<1>3. /\ Moved(Ack(n)) /\ call'[Ack(n)].pc = "ack_route"
      /\ call'[Ack(n)].cmd = k.cmd /\ call'[Ack(n)].nxt = k.nxt
      /\ call'[Ack(n)].sb = k.sb /\ call'[Ack(n)].ok = k.ok
  BY <1>1, LoopReads
<1> QED
  BY <1>1, <1>2, <1>3, ReadCalm DEF UnstoredPc

LEMMA AckRouteCalm ==
    ASSUME IndInv, Calm, NEW n \in Node, AckRoute(n)
    PROVE  Calm'
<1> DEFINE k  == call[Ack(n)]
<1>1. UNCHANGED <<row, cmds, inbox, ctr, evq, batch>> /\ k.pc = "ack_route"
  BY DEF AckRoute, At, db, agents
<1>2. PICK pc \in {"ack_reset", "ack_done"} : Step(Ack(n), pc)
  BY DEF AckRoute
<1>3. /\ Moved(Ack(n)) /\ call'[Ack(n)].pc = pc /\ call'[Ack(n)].cmd = k.cmd
      /\ call'[Ack(n)].sb = k.sb /\ call'[Ack(n)].ok = k.ok
  BY <1>2, LoopSteps DEF Pc
<1> QED
  BY <1>1, <1>3, ReadCalm DEF UnstoredPc

\* A step of a node's loop or handler that changes the row of s, which goes on.
LEMMA NodeSets ==
    ASSUME IndInv, Calm, NEW p \in Proc, \A c \in Client : p # Api(c),
           p # Reaper, p # Monitor, Moved(p),
           UNCHANGED <<cmds, inbox, ctr, evq, batch>>, NEW s \in Sandbox, row[s].node \in Node,
           \A t \in Sandbox : t # s => row'[t] = row[t],
           row'[s].node = row[s].node, ~row'[s].idle,
           \/ row'[s].state = row[s].state
           \/ row[s].state = "starting" /\ row'[s].state = "running" /\ Made(s)
           \/ row[s].state = "destroying" /\ row'[s].state = "destroyed" /\ Removed(s),
           \A t \in Sandbox : row[t].state \in {"starting", "running"} =>
               \A i : Executed(i, t) /\ Stored(i, t) => Stored(i, t)',
           \A n \in Node : p = Evt(n) => EvtCalm(call[Evt(n)])',
           \A n \in Node : p = Ack(n) => AckCalm(call[Ack(n)])'
    PROVE  Calm'
<1>1. TableOn /\ TableSame
  BY SameTableOn
<1>2. RowCalm(row[s]) /\ LiveCalm(s)
  BY DEF Calm, RowsCalm, LivesCalm
<1>3. RowsOn
  BY <1>2 DEF RowsOn, RowCalm, Gone
<1>4. \A t \in Sandbox : Exists(t)' <=> Exists(t)
  BY <1>2 DEF Exists
<1>5. \A t \in Sandbox : RowCalm(row'[t])
  BY <1>2 DEF Calm, RowsCalm, RowCalm, Gone
<1>6. RowsCalm'
  BY <1>4, <1>5 DEF Calm, RowsCalm, OneOfApp, RowCalm
<1>7. CtrCalm' /\ \A t : Removed(t) => Removed(t)'
  BY <1>1, CtrOn DEF Calm
<1>8. EvqCalm'
  BY <1>1, <1>3, EvqOn DEF Calm
<1>9. ASSUME NEW t \in Sandbox PROVE LiveCalm(t)'
  <2>1. LiveCalm(t)
    BY DEF Calm, LivesCalm
  <2>2. CASE t # s
    BY <1>1, <2>1, <2>2, LiveSame
  <2>3. CASE t = s
    <3>1. /\ row'[s].state = "running" => Made(s)
          /\ row'[s].state = "destroyed" /\ row'[s].node \in Node => Removed(s)
          /\ row'[s].state \in {"starting", "running"} => row[s].state \in {"starting", "running"}
      BY <1>2 DEF LiveCalm
    <3> QED
      BY <1>1, <1>2, <2>3, <3>1, LiveOn
  <2> QED
    BY <2>2, <2>3
<1>10. \A t \in Sandbox : ~row'[t].idle
  BY DEF Calm, PassesCalm
<1> QED
  BY <1>1, <1>3, <1>6, <1>7, <1>8, <1>9, <1>10, NodeFrame DEF LivesCalm

LEMMA AckCasCalm ==
    ASSUME IndInv, Calm, NEW n \in Node, AckCas(n)
    PROVE  Calm'
<1> DEFINE k == call[Ack(n)]
<1>1. UNCHANGED <<cmds, inbox, ctr, evq, batch>> /\ k.pc = "ack_cas"
  BY DEF AckCas, At, agents
<1>2. /\ AckCalm(k) /\ k.sb \in Sandbox /\ row[k.sb].node \in Node /\ k.cmd \in 1..Len(cmds)
      /\ cmds[k.cmd].sb = k.sb /\ <<k.st, k.nxt>> \in AckEdge
  BY <1>1, AckKnows, AckFacts DEF IndInv, AckInv, AckOK
<1>3. \/ k.nxt = "running" /\ StartAck(k) /\ k.st = "starting" /\ Taken(k.cmd) /\ k.ok
      \/ k.nxt = "destroyed" /\ ~StartAck(k) /\ k.ok /\ k.st = "destroying" /\ Removed(k.sb)
  BY <1>1, <1>2 DEF AckCalm, AckEdge
<1>4. CASE ~StateIs(k.sb, k.st) /\ Step(Ack(n), "ack_reread") /\ UNCHANGED row
  <2>1. /\ Moved(Ack(n)) /\ call'[Ack(n)].pc = "ack_reread" /\ call'[Ack(n)].cmd = k.cmd
        /\ call'[Ack(n)].sb = k.sb /\ call'[Ack(n)].ok = k.ok /\ call'[Ack(n)].nxt = k.nxt
    BY <1>4, LoopSteps DEF Pc
  <2> QED
    BY <1>1, <1>3, <1>4, <2>1, ReadCalm DEF UnstoredPc, StateIs
<1>5. CASE /\ StateIs(k.sb, k.st) /\ SetState(k.sb, k.nxt)
           /\ Step(Ack(n), AfterTransition(k.nxt))
  <2>1. PICK s \in Sandbox : s = k.sb
    BY <1>2
  <2>2. PICK pc \in {"ack_persist", "ack_route"} : pc = AfterTransition(k.nxt)
    BY DEF AfterTransition
  <2>3. /\ Moved(Ack(n)) /\ call'[Ack(n)].pc = pc /\ call'[Ack(n)].cmd = k.cmd
        /\ call'[Ack(n)].sb = s /\ call'[Ack(n)].ok = k.ok /\ call'[Ack(n)].nxt = k.nxt
    BY <1>5, <2>1, <2>2, LoopSteps DEF Pc
  <2>4. /\ row'[s].state = k.nxt /\ row'[s].node = row[s].node /\ row'[s].cid = row[s].cid
        /\ ~row'[s].idle /\ \A t \in Sandbox : t # s => row'[t] = row[t]
    BY <1>5, <2>1 DEF IndInv, TypeOK, SetState, Row, Calm, PassesCalm
  <2>5. TableOn /\ \A t : Removed(t) => Removed(t)'
    BY <1>1, SameTableOn, CtrOn DEF Calm
  <2>6. StartAck(k) => Made(s)
    BY <1>2, <1>3, <2>1 DEF StartAck, Made, Executed, StartOf
  <2>7. AckCalm(call[Ack(n)])'
    BY <1>1, <1>2, <1>3, <2>1, <2>2, <2>3, <2>5
       DEF AckCalm, StartAck, AfterTransition, Taken
  <2>8. \A t \in Sandbox : \A i : Executed(i, t) /\ Stored(i, t) => Stored(i, t)'
    <3>1. StartAck(k) => call'[Ack(n)].pc \in UnstoredPc
      BY <1>3, <2>2, <2>3 DEF AfterTransition, UnstoredPc
    <3>2. \A t \in Sandbox : row'[t].cid = row[t].cid
      BY <2>4
    <3> QED
      BY <2>3, <3>1, <3>2, StoredOn
  <2> QED
    BY <1>1, <1>2, <1>3, <1>5, <2>1, <2>3, <2>4, <2>6, <2>7, <2>8, NodeSets, ProcFacts DEF StateIs
<1> QED
  BY <1>4, <1>5 DEF AckCas

LEMMA AckPersistCalm ==
    ASSUME IndInv, Calm, NEW n \in Node, AckPersist(n)
    PROVE  Calm'
<1> DEFINE k == call[Ack(n)]
<1>1. /\ UNCHANGED <<cmds, inbox, ctr, evq, batch>> /\ k.pc = "ack_persist"
      /\ row' = [row EXCEPT ![k.sb].cid = k.cmd] /\ Step(Ack(n), "ack_refetch")
  BY DEF AckPersist, At, agents
<1>2. /\ AckCalm(k) /\ k.sb \in Sandbox /\ row[k.sb].node \in Node /\ k.cmd \in 1..Len(cmds)
      /\ cmds[k.cmd].sb = k.sb
  BY <1>1, AckKnows, AckFacts
<1>3. k.nxt = "running" /\ StartAck(k) /\ Taken(k.cmd) /\ k.ok
  BY <1>1, <1>2 DEF AckCalm
<1>4. PICK s \in Sandbox : s = k.sb
  BY <1>2
<1>5. /\ Moved(Ack(n)) /\ call'[Ack(n)].pc = "ack_refetch" /\ call'[Ack(n)].cmd = k.cmd
      /\ call'[Ack(n)].sb = s /\ call'[Ack(n)].ok = k.ok /\ call'[Ack(n)].nxt = k.nxt
  BY <1>1, <1>4, LoopSteps DEF Pc
<1>6. /\ row'[s].state = row[s].state /\ row'[s].node = row[s].node /\ row'[s].cid = k.cmd
      /\ ~row'[s].idle /\ \A t \in Sandbox : t # s => row'[t] = row[t]
  BY <1>1, <1>4 DEF IndInv, TypeOK, Row, Calm, PassesCalm
<1>7. AckCalm(call[Ack(n)])'
  BY <1>1, <1>2, <1>3, <1>4, <1>5 DEF AckCalm, StartAck, Taken
<1>8. ASSUME NEW t \in Sandbox, NEW i, Executed(i, t), Stored(i, t) PROVE Stored(i, t)'
  <2>1. CASE t = s
    <3>1. CmdCalm(i) /\ cmds[i].type = "start_sandbox" /\ cmds[i].sb = s
      BY <1>8, <2>1 DEF Executed, StartOf, Calm, CmdsCalm
    <3>2. i = k.cmd
      BY <1>2, <1>3, <1>4, <3>1 DEF CmdCalm, StartOf, StartAck
    <3> QED
      BY <1>6, <2>1, <3>2 DEF Stored
  <2>2. CASE t # s
    BY <1>4, <1>5, <1>6, <1>8, <2>2, StoredOn
  <2> QED
    BY <2>1, <2>2
<1> QED
  BY <1>1, <1>2, <1>4, <1>5, <1>6, <1>7, <1>8, NodeSets, ProcFacts

LEMMA AckResetCalm ==
    ASSUME IndInv, Calm, NEW n \in Node, AckReset(n)
    PROVE  Calm'
<1> DEFINE k == call[Ack(n)]
<1>1. /\ UNCHANGED <<cmds, inbox, ctr, evq, batch>> /\ k.pc = "ack_reset"
      /\ row' = [row EXCEPT ![k.sb].fails = 0] /\ Step(Ack(n), "ack_done")
  BY DEF AckReset, At, agents
<1>2. AckCalm(k) /\ k.cmd \in 1..Len(cmds) /\ k.sb \in Sandbox
  BY <1>1, AckKnows, AckFacts
<1>3. RowsSame
  BY <1>1, <1>2 DEF IndInv, TypeOK, Row, Calm, PassesCalm, RowsSame
<1>4. /\ Moved(Ack(n)) /\ call'[Ack(n)].pc = "ack_done" /\ call'[Ack(n)].cmd = k.cmd
      /\ call'[Ack(n)].sb = k.sb /\ call'[Ack(n)].ok = k.ok
  BY <1>1, LoopSteps DEF Pc
<1>5. TableOn /\ TableSame /\ \A s : Removed(s) => Removed(s)'
  BY <1>1, SameTableOn, CtrOn DEF Calm
<1>6. AckCalm(call[Ack(n)])'
  <2>1. PICK s : s = k.sb /\ s = call'[Ack(n)].sb
    BY <1>4
  <2> QED
    BY <1>1, <1>2, <1>4, <1>5, <2>1 DEF AckCalm, StartAck, Taken
<1> QED
  BY <1>1, <1>3, <1>4, <1>5, <1>6, LoopCalm DEF UnstoredPc

LEMMA AckDoneCalm ==
    ASSUME QueueInv, Calm, NEW n \in Node, AckDone(n)
    PROVE  Calm'
<1> DEFINE k == call[Ack(n)]
<1>1. /\ UNCHANGED <<row, inbox, ctr, evq, batch>> /\ k.pc = "ack_done" /\ Return(Ack(n))
  BY DEF AckDone, At, agents
<1>2. PICK st \in {"completed", "failed"} : cmds' = [cmds EXCEPT ![k.cmd].status = st]
  BY DEF AckDone
<1>3. IndInv /\ k.cmd \in 1..Len(cmds) /\ cmds[k.cmd] \in Command /\ cmds[k.cmd].status = "dispatched"
  BY <1>1, AckFacts DEF QueueInv, SpentInv
<1>4. Len(cmds) \in Nat /\ Len(cmds') = Len(cmds)
  BY <1>2, <1>3 DEF IndInv, TypeOK
<1>5. ASSUME NEW i \in 1..Len(cmds)
      PROVE  /\ cmds'[i].sb = cmds[i].sb /\ cmds'[i].type = cmds[i].type
             /\ cmds'[i].node = cmds[i].node
             /\ Taken(i)' <=> Taken(i)
  <2>1. CASE i # k.cmd
    <3>1. cmds'[i] = cmds[i]
      BY <1>2, <1>3, <2>1 DEF IndInv, TypeOK
    <3> QED
      BY <1>1, <3>1 DEF Taken
  <2>2. CASE i = k.cmd
    <3>1. cmds'[i] = [cmds[i] EXCEPT !.status = st]
      BY <1>2, <1>3, <2>2 DEF IndInv, TypeOK
    <3> QED
      BY <1>1, <1>3, <2>2, <3>1 DEF Taken, Command
  <2> QED
    BY <2>1, <2>2
<1>6. TableOn
  BY <1>4, <1>5 DEF TableOn
<1>7. TableSame
  BY <1>4, <1>5, <1>6, TableSameOn
<1> QED
  BY <1>1, <1>3, <1>4, <1>6, <1>7, AckReturns DEF UnstoredPc

-----------------------------------------------------------------------------
(* The executor's work on the containers. *)

LEMMA BeginFacts ==
    ASSUME QueueInv, NEW n \in Node, NEW i \in inbox[n], NEW pc, NEW ok,
           Begin(n, i, pc, ok), UNCHANGED cmds
    PROVE  /\ i \in 1..Len(cmds) /\ cmds[i] \in Command /\ cmds[i].node = n
           /\ call[Ack(n)].pc = "idle" /\ Moved(Ack(n))
           /\ call'[Ack(n)].pc = pc /\ call'[Ack(n)].cmd = i
           /\ call'[Ack(n)].sb = cmds[i].sb /\ call'[Ack(n)].ok = ok
           /\ ~Taken(i) /\ Taken(i)'
           /\ \A j \in 1..Len(cmds) : j # i => (Taken(j)' <=> Taken(j))
<1>1. /\ IndInv /\ inbox \in [Node -> SUBSET CmdId] /\ call \in [Proc -> Call]
      /\ i \in 1..Len(cmds) /\ Ack(n) \in Proc
  BY ProcFacts DEF QueueInv, IndInv, TypeOK, AgentInv
<1>2. cmds[i] \in Command
  BY <1>1 DEF IndInv, TypeOK
<1>3. /\ inbox' = [inbox EXCEPT ![n] = @ \ {i}] /\ call[Ack(n)].pc = "idle"
      /\ call' = [call EXCEPT ![Ack(n)] = Executing(pc, i, ok)]
  BY DEF Begin, Become, At
<1>4. /\ call'[Ack(n)].pc = pc /\ call'[Ack(n)].cmd = i
      /\ call'[Ack(n)].sb = cmds[i].sb /\ call'[Ack(n)].ok = ok
  BY <1>1, <1>3 DEF Executing, Begun
<1>5. Moved(Ack(n))
  BY <1>1, <1>3 DEF Moved
<1>6. inbox'[n] = inbox[n] \ {i} /\ \A m \in Node \ {n} : inbox'[m] = inbox[m]
  BY <1>1, <1>3
<1>7. cmds[i].node = n /\ cmds[i].status = "dispatched" /\ \A m \in Node \ {n} : i \notin inbox[m]
  BY DEF QueueInv, HeldInv
<1>8. ~Taken(i) /\ Taken(i)'
  BY <1>6, <1>7 DEF Taken
<1>9. \A j \in 1..Len(cmds) : j # i => (Taken(j)' <=> Taken(j))
  BY <1>6 DEF Taken
<1> QED
  BY <1>1, <1>2, <1>3, <1>4, <1>5, <1>7, <1>8, <1>9

\* The sandbox of a command is the only one of its app.
LEMMA OneNamed ==
    ASSUME IndInv, Calm, NEW s \in Refs, NEW t \in Sandbox, AppOf[t] = AppOf[s],
           Exists(t) \/ row[t].node \in Node
    PROVE  s = t
<1>1. s \in Sandbox /\ row[s].node \in Node
  BY NamedHasNode DEF Calm
<1>2. \A u \in Sandbox : row[u].node \in Node => Exists(u)
  BY DEF Calm, RowsCalm, RowCalm, Gone, Exists
<1> QED
  BY <1>1, <1>2 DEF Calm, RowsCalm, OneOfApp

\* Any container of an app is the one its sandbox's start command made.
LEMMA ContainerOf ==
    ASSUME IndInv, Calm, NEW s \in Refs, NEW m \in Node, ctr[m][AppOf[s]].cid # 0
    PROVE  LET x == ctr[m][AppOf[s]].cid IN
           Executed(x, s) /\ cmds[x].node = m /\ row[s].node = m
<1>1. PICK x : x = ctr[m][AppOf[s]].cid
  OBVIOUS
<1>2. s \in Sandbox /\ AppOf[s] \in App
  BY NamedHasNode, ConstantsAssumption DEF Calm
<1>3. MadeBy(x, m, AppOf[s])
  BY <1>1, <1>2 DEF Calm, CtrCalm
<1>4. x \in 1..Len(cmds) /\ cmds[x].sb \in Refs
  BY <1>3 DEF MadeBy, Refs
<1>5. cmds[x].sb = s
  BY <1>2, <1>3, <1>4, NamedHasNode, OneNamed DEF MadeBy, Calm
<1>6. CmdCalm(x)
  BY <1>4 DEF Calm, CmdsCalm
<1> QED
  BY <1>1, <1>3, <1>4, <1>5, <1>6 DEF MadeBy, CmdCalm, Executed, StartOf

LEMMA EventsOn ==
    ASSUME IndInv, EvqCalm, TableOn, RowsOn, NEW n \in Node, NEW a \in App,
           NEW types \in Seq(EventType), Events(n, a, types),
           \A l \in 1..Len(types) : EventCalm([type |-> types[l], app |-> a])'
    PROVE  EvqCalm'
<1> DEFINE new == [l \in 1..Len(types) |-> [type |-> types[l], app |-> a]]
<1>1. Len(types) \in Nat /\ evq \in [Node -> EventSeq]
  <2>1. Len(types) \in Nat
    OBVIOUS
  <2>2. evq \in [Node -> EventSeq]
    BY DEF IndInv, TypeOK, EventSeq
  <2> QED
    BY <2>1, <2>2
<1>2. new \in EventSeq
  BY DEF EventSeq
<1>3. Len(new) = Len(types) /\ \A l \in 1..Len(types) : new[l] = [type |-> types[l], app |-> a]
  <2>1. DOMAIN new = 1..Len(types) /\ DOMAIN new = 1..Len(new) /\ Len(new) \in Nat
    BY <1>2 DEF EventSeq
  <2> QED
    BY <1>1, <2>1
<1>0. evq' = [evq EXCEPT ![n] = evq[n] \o new]
  BY DEF Events
<1> HIDE DEF new
<1>4. /\ evq'[n] = evq[n] \o new /\ Len(evq'[n]) = Len(evq[n]) + Len(types)
      /\ \A m \in Node \ {n} : evq'[m] = evq[m]
  <2>1. evq'[n] = evq[n] \o new /\ \A m \in Node \ {n} : evq'[m] = evq[m]
    BY <1>0, <1>1
  <2>2. evq[n] \in EventSeq
    BY <1>1
  <2>3. Len(evq[n] \o new) = Len(evq[n]) + Len(new)
    BY <1>2, <2>2 DEF EventSeq
  <2> QED
    BY <1>3, <2>1, <2>3
<1>5. ASSUME NEW j \in 1..Len(evq'[n])
      PROVE  \/ \E l \in 1..Len(evq[n]) : evq'[n][j] = evq[n][l]
             \/ EventCalm(evq[n][j])'
  <2>1. CASE j <= Len(evq[n])
    BY <1>1, <1>2, <1>4, <2>1 DEF EventSeq
  <2>2. CASE j > Len(evq[n])
    <3>1. PICK l \in 1..Len(types) : j = Len(evq[n]) + l
      <4>1. j - Len(evq[n]) \in 1..Len(types) /\ j = Len(evq[n]) + (j - Len(evq[n]))
        BY <1>1, <1>4, <2>2 DEF EventSeq
      <4> QED
        BY <4>1
    <3>2. evq'[n][j] = new[l]
      BY <1>1, <1>2, <1>3, <1>4, <3>1 DEF EventSeq
    <3>3. PICK e : e = evq'[n][j] /\ e = [type |-> types[l], app |-> a]
      BY <1>3, <3>2
    <3>4. EventCalm(e)'
      BY <3>3 DEF EventCalm
    <3> QED
      BY <3>3, <3>4 DEF EventCalm
  <2> QED
    BY <1>1, <1>4, <2>1, <2>2 DEF EventSeq
<1> QED
  BY <1>4, <1>5, EvqOn

LEMMA AgentStopCalm ==
    ASSUME QueueInv, Calm, NEW n \in Node, NEW i \in inbox[n], AgentStop(n, i)
    PROVE  Calm'
<1> DEFINE a == AppOf[cmds[i].sb]
<1>1. /\ IndInv /\ UNCHANGED <<row, cmds, batch>> /\ cmds[i].type = "stop_sandbox"
  BY DEF AgentStop, db, QueueInv
<1>2. PICK pc \in {"stopped", "send"}, ok \in BOOLEAN : Begin(n, i, pc, ok)
  BY DEF AgentStop
<1>3. /\ i \in 1..Len(cmds) /\ cmds[i] \in Command
      /\ call[Ack(n)].pc = "idle" /\ Moved(Ack(n))
      /\ call'[Ack(n)].pc = pc /\ call'[Ack(n)].cmd = i
      /\ call'[Ack(n)].sb = cmds[i].sb /\ call'[Ack(n)].ok = ok
      /\ \A j \in 1..Len(cmds) : j # i => (Taken(j)' <=> Taken(j))
  BY <1>1, <1>2, BeginFacts
<1>4. Len(cmds) \in Nat
  BY <1>1 DEF IndInv, TypeOK
<1>5. TableOn
  BY <1>1, <1>3, <1>4 DEF TableOn
<1>6. TableSame
  BY <1>1, <1>3, <1>4, <1>5, TableSameOn
<1>7. CASE Begin(n, i, "send", FALSE) /\ UNCHANGED <<ctr, evq>>
  <2>1. call'[Ack(n)].pc = "send" /\ call'[Ack(n)].ok = FALSE
    BY <1>1, <1>7, BeginFacts
  <2>2. AckCalm(call[Ack(n)])'
    BY <1>1, <1>3, <2>1 DEF AckCalm, StartAck
  <2> QED
    BY <1>1, <1>3, <1>5, <1>6, <1>7, <2>2, UnchangedRows, LoopCalm DEF UnstoredPc
<1>8. CASE /\ HasContainer(n, i) /\ Begin(n, i, "stopped", TRUE)
           /\ ctr' = [ctr EXCEPT ![n][a] = NoContainer] /\ Events(n, a, DieIfUp(n, a))
  <2>1. PICK s \in Sandbox : s = cmds[i].sb /\ s \in Refs
    BY <1>3 DEF Command, Refs
  <2>2. row[s].node \in Node /\ row[s].state \in Gone /\ AppOf[s] \in App
    BY <1>1, <1>3, <2>1, ConstantsAssumption DEF Calm, CmdsCalm, CmdCalm
  <2>3. ctr[n][AppOf[s]].cid # 0
    BY <1>8, <2>1 DEF HasContainer
  <2>4. Made(s) /\ row[s].node = n
    BY <1>1, <2>1, <2>3, ContainerOf DEF Made, Executed, StartOf
  <2>5. \A m \in Node : m # n => ctr[m][AppOf[s]].cid = 0
    BY <1>1, <2>1, <2>4, ContainerOf
  <2>6. /\ ctr'[n][AppOf[s]] = NoContainer
        /\ \A m \in Node, b \in App : m # n \/ b # AppOf[s] => ctr'[m][b] = ctr[m][b]
    BY <1>1, <1>8, <2>1, <2>2 DEF IndInv, TypeOK
  <2>7. RowsOn /\ RowsCalm' /\ RowsSame
    BY <1>1, UnchangedRows, RowsSameOn DEF Calm
  <2>8. \A m \in Node, b \in App : ctr[m][b].cid = 0 => ctr'[m][b].cid = 0
    BY <2>6 DEF NoContainer
  <2>9. ASSUME NEW t, Removed(t) PROVE Removed(t)'
    <3>1. t \in Sandbox /\ AppOf[t] \in App
      BY <1>1, <2>9, MadeIsNamed, NamedHasNode, ConstantsAssumption DEF Removed, Calm
    <3> QED
      BY <1>5, <2>8, <2>9, <3>1, MadeOn DEF Removed
  <2>10. Removed(s)'
    BY <1>5, <2>2, <2>4, <2>5, <2>6, MadeOn DEF Removed, NoContainer
  <2>11. CtrCalm'
    <3> SUFFICES ASSUME NEW m \in Node, NEW b \in App
                 PROVE  /\ ctr'[m][b].cid = 0 => ~ctr'[m][b].up
                        /\ ctr'[m][b].cid # 0 => ctr'[m][b].up /\ MadeBy(ctr[m][b].cid, m, b)'
      BY DEF CtrCalm
    <3>1. CASE m = n /\ b = AppOf[s]
      BY <2>6, <3>1 DEF NoContainer
    <3>2. CASE m # n \/ b # AppOf[s]
      <4>1. PICK x : x = ctr[m][b] /\ x = ctr'[m][b]
        BY <2>6, <3>2
      <4>2. /\ x.cid = 0 => ~x.up
            /\ x.cid # 0 => x.up /\ MadeBy(x.cid, m, b)
        BY <4>1 DEF Calm, CtrCalm
      <4>3. x.cid # 0 => MadeBy(x.cid, m, b)'
        BY <1>5, <4>2, MadeByOn
      <4> QED
        BY <4>1, <4>2, <4>3 DEF MadeBy
    <3> QED
      BY <3>1, <3>2
  <2>12. EvqCalm'
    <3>1. DieIfUp(n, a) \in Seq(EventType)
      BY DieIfUpType
    <3>2. \A l \in 1..Len(DieIfUp(n, a)) : DieIfUp(n, a)[l] = "container_exited"
      BY DEF DieIfUp
    <3>3. PICK types \in Seq(EventType) :
            /\ Events(n, AppOf[s], types)
            /\ \A l \in 1..Len(types) : types[l] = "container_exited"
      BY <1>8, <2>1, <3>1, <3>2
    <3>4. ASSUME NEW l \in 1..Len(types)
          PROVE  EventCalm([type |-> types[l], app |-> AppOf[s]])'
      BY <1>1, <2>2, <3>3 DEF EventCalm
    <3> QED
      BY <1>1, <1>5, <2>2, <2>7, <3>3, <3>4, EventsOn DEF Calm
  <2>13. AckCalm(call[Ack(n)])'
    <3>0. Begin(n, i, "stopped", TRUE) /\ UNCHANGED cmds
      BY <1>1, <1>8
    <3>1. call'[Ack(n)].pc = "stopped" /\ call'[Ack(n)].sb = cmds[i].sb
      BY <3>0, BeginFacts
    <3> QED
      BY <1>1, <1>3, <2>1, <2>10, <3>1 DEF AckCalm, StartAck
  <2>14. ASSUME NEW t \in Sandbox PROVE LiveCalm(t)'
    <3>1. LiveCalm(t) /\ row'[t] = row[t] /\ RowCalm(row[t]) /\ AppOf[t] \in App
      BY <1>1, ConstantsAssumption DEF Calm, LivesCalm, RowsCalm
    <3>2. row[t].state = "running" => Made(t)'
      BY <1>5, <3>1, MadeOn DEF LiveCalm
    <3>3. row[t].state = "destroyed" /\ row[t].node \in Node => Removed(t)'
      BY <2>9, <3>1 DEF LiveCalm
    <3>4. ASSUME row[t].state \in {"starting", "running"}, NEW j, Executed(j, t)'
          PROVE  ctr'[row[t].node][AppOf[t]] = [cid |-> j, up |-> TRUE] /\ Stored(j, t)'
      <4>1. t # s /\ Exists(t) /\ row[t].node \in Node
        BY <1>1, <2>2, <3>4 DEF Gone, Exists, IndInv, RowInv, RowOK, Placed
      <4>2. AppOf[t] # AppOf[s]
        BY <1>1, <2>1, <4>1, OneNamed
      <4>3. Executed(j, t) /\ j \in 1..Len(cmds)
        BY <1>6, <3>4 DEF TableSame, Executed, StartOf
      <4>4. ctr[row[t].node][AppOf[t]] = [cid |-> j, up |-> TRUE] /\ Stored(j, t)
        BY <3>1, <3>4, <4>3 DEF LiveCalm
      <4>5. Stored(j, t)'
        BY <1>1, <1>3, <3>1, <4>3, <4>4, StoredOn DEF UnstoredPc
      <4> QED
        BY <2>6, <3>1, <4>1, <4>2, <4>4, <4>5
    <3> QED
      BY <3>1, <3>2, <3>3, <3>4 DEF LiveCalm
  <2> QED
    BY <1>1, <1>3, <1>5, <2>7, <2>9, <2>11, <2>12, <2>13, <2>14, NodeFrame, ProcFacts
       DEF LivesCalm, RowsSame
<1> QED
  BY <1>7, <1>8 DEF AgentStop

\* The container a start command makes is the first of its app.
LEMMA AgentStartCalm ==
    ASSUME QueueInv, Calm, NEW n \in Node, NEW i \in inbox[n], AgentStart(n, i)
    PROVE  Calm'
<1> DEFINE a == AppOf[cmds[i].sb]
<1>1. /\ IndInv /\ UNCHANGED <<row, cmds, batch>> /\ cmds[i].type = "start_sandbox"
      /\ Begin(n, i, "created", TRUE) /\ ctr' = [ctr EXCEPT ![n][a] = [cid |-> i, up |-> TRUE]]
      /\ Events(n, a, DieIfUp(n, a) \o <<"container_started">>)
  BY DEF AgentStart, db, QueueInv
<1>2. /\ i \in 1..Len(cmds) /\ cmds[i] \in Command /\ cmds[i].node = n
      /\ call[Ack(n)].pc = "idle" /\ Moved(Ack(n))
      /\ call'[Ack(n)].pc = "created" /\ call'[Ack(n)].cmd = i
      /\ call'[Ack(n)].sb = cmds[i].sb /\ call'[Ack(n)].ok = TRUE
      /\ ~Taken(i) /\ Taken(i)'
      /\ \A j \in 1..Len(cmds) : j # i => (Taken(j)' <=> Taken(j))
  BY <1>1, BeginFacts
<1>3. Len(cmds) \in Nat
  BY <1>1 DEF IndInv, TypeOK
<1>4. TableOn
  BY <1>1, <1>2, <1>3 DEF TableOn
<1>5. PICK s \in Sandbox : s = cmds[i].sb /\ s \in Refs
  BY <1>2 DEF Command, Refs
<1>6. /\ row[s].node = n /\ AppOf[s] \in App
      /\ \A j : StartOf(j, s) => j = i
  BY <1>1, <1>2, <1>5, ConstantsAssumption DEF Calm, CmdsCalm, CmdCalm, StartOf
<1>7. ~Made(s) /\ \A j : ~Executed(j, s)
  BY <1>2, <1>6 DEF Made, Executed
<1>8. \A m \in Node : ctr[m][AppOf[s]].cid = 0 /\ ~ctr[m][AppOf[s]].up
  BY <1>1, <1>5, <1>6, <1>7, ContainerOf DEF Calm, CtrCalm
<1>9. /\ ctr'[n][AppOf[s]] = [cid |-> i, up |-> TRUE]
      /\ \A m \in Node, b \in App : m # n \/ b # AppOf[s] => ctr'[m][b] = ctr[m][b]
  BY <1>1, <1>5, <1>6 DEF IndInv, TypeOK
<1>10. RowsOn /\ RowsCalm' /\ RowsSame
  BY <1>1, UnchangedRows, RowsSameOn DEF Calm
<1>11. Executed(i, s)' /\ Made(s)'
  BY <1>1, <1>2, <1>5 DEF Made, Executed, StartOf
<1>12. \A j, t : t # s => (Executed(j, t)' <=> Executed(j, t))
  BY <1>1, <1>2, <1>5 DEF Executed, StartOf
<1>13. \A t \in Sandbox : t # s /\ (Exists(t) \/ row[t].node \in Node) => AppOf[t] # AppOf[s]
  BY <1>1, <1>5, OneNamed DEF Calm
<1>14. ASSUME NEW t, Removed(t) PROVE Removed(t)'
  <2>1. t \in Sandbox /\ AppOf[t] \in App /\ row[t].node \in Node
    BY <1>1, <1>14, MadeIsNamed, NamedHasNode, ConstantsAssumption DEF Removed, Calm
  <2>2. t # s
    BY <1>7, <1>14 DEF Removed
  <2>3. AppOf[t] # AppOf[s]
    BY <1>13, <2>1, <2>2
  <2> QED
    BY <1>4, <1>9, <1>14, <2>1, <2>3, MadeOn DEF Removed
<1>15. CtrCalm'
  <2> SUFFICES ASSUME NEW m \in Node, NEW b \in App
               PROVE  /\ ctr'[m][b].cid = 0 => ~ctr'[m][b].up
                      /\ ctr'[m][b].cid # 0 => ctr'[m][b].up /\ MadeBy(ctr[m][b].cid, m, b)'
    BY DEF CtrCalm
  <2>1. CASE m = n /\ b = AppOf[s]
    <3>1. MadeBy(i, n, AppOf[s])'
      BY <1>1, <1>2, <1>5 DEF MadeBy
    <3>2. ctr'[m][b].cid = i /\ ctr'[m][b].up /\ i # 0
      BY <1>2, <1>9, <2>1
    <3> QED
      BY <2>1, <3>1, <3>2 DEF MadeBy
  <2>2. CASE m # n \/ b # AppOf[s]
    <3>1. PICK x : x = ctr[m][b] /\ x = ctr'[m][b]
      BY <1>9, <2>2
    <3>2. /\ x.cid = 0 => ~x.up
          /\ x.cid # 0 => x.up /\ MadeBy(x.cid, m, b)
      BY <3>1 DEF Calm, CtrCalm
    <3>3. x.cid # 0 => MadeBy(x.cid, m, b)'
      BY <1>4, <3>2, MadeByOn
    <3> QED
      BY <3>1, <3>2, <3>3 DEF MadeBy
  <2> QED
    BY <2>1, <2>2
<1>16. EvqCalm'
  <2>1. DieIfUp(n, a) = <<>>
    BY <1>5, <1>8 DEF DieIfUp
  <2>2. <<>> \o <<"container_started">> = <<"container_started">>
    OBVIOUS
  <2>3. Events(n, AppOf[s], <<"container_started">>)
    BY <1>1, <1>5, <2>1, <2>2
  <2>4. <<"container_started">> \in Seq(EventType) /\ Len(<<"container_started">>) = 1
    BY DEF EventType
  <2>5. EventCalm([type |-> "container_started", app |-> AppOf[s]])'
    BY <1>11 DEF EventCalm
  <2>6. ASSUME NEW l \in 1..Len(<<"container_started">>)
        PROVE  EventCalm([type |-> <<"container_started">>[l], app |-> AppOf[s]])'
    <3>1. <<"container_started">>[l] = "container_started"
      BY <2>4
    <3> QED
      BY <2>5, <3>1 DEF EventCalm
  <2> QED
    BY <1>1, <1>4, <1>6, <1>10, <2>3, <2>4, <2>6, EventsOn DEF Calm
<1>17. AckCalm(call[Ack(n)])'
  BY <1>1, <1>2 DEF AckCalm, StartAck
<1>18. ASSUME NEW t \in Sandbox PROVE LiveCalm(t)'
  <2>1. LiveCalm(t) /\ row'[t] = row[t] /\ RowCalm(row[t]) /\ AppOf[t] \in App
    BY <1>1, ConstantsAssumption DEF Calm, LivesCalm, RowsCalm
  <2>2. row[t].state = "running" => Made(t)'
    BY <1>4, <2>1, MadeOn DEF LiveCalm
  <2>3. row[t].state = "destroyed" /\ row[t].node \in Node => Removed(t)'
    BY <1>14, <2>1 DEF LiveCalm
  <2>4. ASSUME row[t].state \in {"starting", "running"}, NEW j, Executed(j, t)'
        PROVE  ctr'[row[t].node][AppOf[t]] = [cid |-> j, up |-> TRUE] /\ Stored(j, t)'
    <3>1. Exists(t) /\ row[t].node \in Node
      BY <1>1, <2>4 DEF Exists, IndInv, RowInv, RowOK, Placed
    <3>2. CASE t = s
      <4>1. j = i
        BY <1>1, <1>6, <2>4, <3>2 DEF Executed, StartOf
      <4>2. Stored(i, s)'
        BY <1>2 DEF Stored, UnstoredPc
      <4> QED
        BY <1>6, <1>9, <3>2, <4>1, <4>2
    <3>3. CASE t # s
      <4>1. Executed(j, t) /\ j \in 1..Len(cmds) /\ AppOf[t] # AppOf[s]
        BY <1>12, <1>13, <2>4, <3>1, <3>3 DEF Executed, StartOf
      <4>2. ctr[row[t].node][AppOf[t]] = [cid |-> j, up |-> TRUE] /\ Stored(j, t)
        BY <2>1, <2>4, <4>1 DEF LiveCalm
      <4>3. Stored(j, t)'
        BY <1>1, <1>2, <2>1, <4>1, <4>2, StoredOn DEF UnstoredPc
      <4> QED
        BY <1>9, <2>1, <3>1, <4>1, <4>2, <4>3
    <3> QED
      BY <3>2, <3>3
  <2> QED
    BY <2>1, <2>2, <2>3, <2>4 DEF LiveCalm
<1> QED
  BY <1>1, <1>2, <1>4, <1>10, <1>14, <1>15, <1>16, <1>17, <1>18, NodeFrame, ProcFacts
     DEF LivesCalm, RowsSame

LEMMA AgentCalmStep ==
    ASSUME QueueInv, Calm, NEW n \in Node, AgentStep(n)
    PROVE  Calm'
<1>1. IndInv
  BY DEF QueueInv
<1>2. ASSUME NEW i \in inbox[n], AgentRestart(n, i) PROVE FALSE
  <2>1. i \in 1..Len(cmds) /\ cmds[i].type = "restart_sandbox"
    BY <1>1, <1>2 DEF AgentRestart, IndInv, AgentInv
  <2> QED
    BY <2>1 DEF Calm, CmdsCalm, CmdCalm
<1> QED
  BY <1>1, <1>2, AgentPollCalm, TrackCalm, AgentStartCalm, AgentStopCalm DEF AgentStep

LEMMA AckCalmStep ==
    ASSUME QueueInv, Calm, NEW n \in Node, HandleAck(n)
    PROVE  Calm'
<1>1. IndInv
  BY DEF QueueInv
<1> QED
  BY <1>1, AckReadCalm, AckCasCalm, AckRereadCalm, AckPersistCalm, AckRefetchCalm,
     AckRouteCalm, AckResetCalm, AckDoneCalm DEF HandleAck

-----------------------------------------------------------------------------
(* The event handlers, the background passes and the environment. *)

\* What an event does while nothing is disturbed: it takes a starting sandbox to
\* running.
LEMMA EventMoves ==
    /\ \A st : \A to \in NextState(st, "started") : to = "running"
    /\ \A st \in Gone : NextState(st, "container_exited") = {}
  BY DEF NextState, ValidTransitions, Gone

LEMMA EventReadCalm ==
    ASSUME IndInv, Calm, NEW n \in Node, EventRead(n)
    PROVE  Calm'
<1>1. PICK e : e = Head(evq[n])
  OBVIOUS
<1>2. /\ UNCHANGED <<row, cmds, inbox, tracked, ctr, batch>> /\ evq[n] # <<>>
      /\ evq' = [evq EXCEPT ![n] = Tail(evq[n])] /\ call[Evt(n)].pc = "idle"
  BY DEF EventRead, At, db
<1>3. TableOn /\ TableSame /\ RowsOn /\ RowsCalm' /\ RowsSame /\ Evt(n) \in Proc
  BY <1>2, SameTableOn, UnchangedRows, RowsSameOn, ProcFacts DEF Calm
<1>4. CtrCalm' /\ \A s : Removed(s) => Removed(s)'
  BY <1>2, <1>3, CtrOn DEF Calm
<1>5. evq \in [Node -> EventSeq] /\ evq[n] \in EventSeq
  BY DEF IndInv, TypeOK, EventSeq
<1>6. /\ \A m \in Node \ {n} : evq'[m] = evq[m]
      /\ evq'[n] = Tail(evq[n])
  BY <1>2, <1>5
<1>7. /\ Len(evq[n]) \in Nat /\ Len(evq[n]) > 0 /\ e = evq[n][1]
      /\ Len(evq'[n]) = Len(evq[n]) - 1
      /\ \A j \in 1..Len(evq'[n]) : evq'[n][j] = evq[n][j + 1]
  BY <1>1, <1>2, <1>5, <1>6 DEF EventSeq
<1>8. EvqCalm'
  <2>1. ASSUME NEW j \in 1..Len(evq'[n])
        PROVE  \E l \in 1..Len(evq[n]) : evq'[n][j] = evq[n][l]
    BY <1>7
  <2> QED
    BY <1>3, <1>6, <2>1, EvqOn DEF Calm
<1>9. EventCalm(e) /\ e.type \in EventType
  <2>1. EventCalm(evq[n][1])
    BY <1>7 DEF Calm, EvqCalm
  <2>2. evq[n][1] \in [type : EventType, app : App]
    <3>1. 1 \in 1..Len(evq[n])
      BY <1>7
    <3>2. PICK E : E = [type : EventType, app : App]
      OBVIOUS
    <3>3. evq[n] \in Seq(E)
      BY <1>5, <3>2 DEF EventSeq
    <3>4. evq[n][1] \in E
      BY <3>1, <3>3
    <3> QED
      BY <3>2, <3>4
  <2> QED
    BY <1>7, <2>1, <2>2
<1>10. ASSUME NEW s \in tracked[n], AppOf[s] = e.app, Exists(s),
              NEW to \in NextState(row[s].state, MachineEvent(e.type))
       PROVE  s \in Sandbox /\ to = "running" /\ Made(s)
  <2>1. s \in Refs /\ s \in Sandbox
    BY DEF IndInv, AgentInv, TypeOK
  <2>2. CASE e.type = "container_started"
    <3>1. PICK t \in Sandbox : AppOf[t] = e.app /\ Made(t)
      BY <1>9, <2>2 DEF EventCalm
    <3>2. s = t
      BY <1>10, <2>1, <3>1, OneNamed, MadeIsNamed
    <3>3. to = "running"
      BY <1>10, <2>2, EventMoves DEF MachineEvent
    <3> QED
      BY <2>1, <3>1, <3>2, <3>3
  <2>3. CASE e.type # "container_started"
    <3>1. PICK t \in Sandbox : AppOf[t] = e.app /\ row[t].node \in Node /\ row[t].state \in Gone
      BY <1>9, <2>3 DEF EventCalm
    <3>2. s = t
      BY <1>10, <2>1, <3>1, OneNamed
    <3> QED
      BY <1>10, <2>3, <3>1, <3>2, EventMoves DEF MachineEvent
  <2> QED
    BY <2>2, <2>3
<1>11. \/ UNCHANGED call
       \/ \E s \in tracked[n] :
            /\ AppOf[s] = e.app /\ Exists(s)
            /\ \E to \in NextState(row[s].state, MachineEvent(e.type)) :
                 Become(Evt(n), ReadRow("event_cas", s, to))
  BY <1>1 DEF EventRead
<1>12. Moved(Evt(n)) /\ EvtCalm(call[Evt(n)])'
  <2>1. CASE UNCHANGED call
    BY <1>2, <2>1 DEF Moved, EvtCalm
  <2>2. ASSUME NEW s \in tracked[n], AppOf[s] = e.app, Exists(s),
               NEW to \in NextState(row[s].state, MachineEvent(e.type)),
               Become(Evt(n), ReadRow("event_cas", s, to))
        PROVE  Moved(Evt(n)) /\ EvtCalm(call[Evt(n)])'
    <3>1. s \in Sandbox /\ to = "running" /\ Made(s)
      BY <1>10, <2>2
    <3>2. /\ Moved(Evt(n)) /\ call'[Evt(n)].pc = "event_cas"
          /\ call'[Evt(n)].sb = s /\ call'[Evt(n)].nxt = to
      BY <1>3, <2>2, <3>1, ReadRowFacts DEF State
    <3>3. Made(s)'
      BY <1>3, <3>1, MadeOn
    <3> QED
      BY <3>1, <3>2, <3>3 DEF EvtCalm
  <2> QED
    BY <1>11, <2>1, <2>2
<1>13. LivesCalm'
  BY <1>2, <1>3, <1>12, LiveSame, SameCalls, ProcFacts DEF Calm, LivesCalm, RowsSame, Moved
<1> QED
  BY <1>2, <1>3, <1>4, <1>8, <1>12, <1>13, NodeFrame, ProcFacts DEF RowsSame

LEMMA EventCasCalm ==
    ASSUME IndInv, Calm, NEW n \in Node, EventCas(n)
    PROVE  Calm'
<1>1. PICK k : k = call[Evt(n)]
  OBVIOUS
<1>2. /\ UNCHANGED <<cmds, batch, inbox, tracked, ctr, evq>> /\ k.pc = "event_cas"
      /\ Evt(n) \in Proc /\ \A m \in Node : Evt(n) # Ack(m)
  BY <1>1, ProcFacts DEF EventCas, At, agents
<1>3. /\ k.nxt = "running" /\ Made(k.sb) /\ k.sb \in Sandbox /\ <<k.st, k.nxt>> \in EventEdge
  BY <1>1, <1>2 DEF Calm, EvtsCalm, EvtCalm, IndInv, EvtInv, EvtOK
<1>4. PICK s \in Sandbox : s = k.sb /\ Made(s) /\ s \in Refs
  BY <1>3, MadeIsNamed
<1>5. row[s].node \in Node /\ RowCalm(row[s]) /\ ~row[s].idle
  BY <1>4, NamedHasNode DEF Calm, RowsCalm, PassesCalm
<1>6. Return(Evt(n)) /\ (UNCHANGED row \/ (StateIs(s, k.st) /\ SetState(s, "running")))
  BY <1>1, <1>3, <1>4 DEF EventCas
<1>7. Moved(Evt(n)) /\ call'[Evt(n)].pc = "idle"
  BY <1>2, <1>6, ReturnFacts
<1>8. EvtCalm(call[Evt(n)])' /\ \A m \in Node : call'[Ack(m)] = call[Ack(m)]
  BY <1>2, <1>7, ProcFacts DEF EvtCalm, Moved
<1>9. row \in [Sandbox -> Row]
  BY DEF IndInv, TypeOK
<1>10. /\ \A t \in Sandbox : t # s => row'[t] = row[t]
       /\ row'[s].node = row[s].node /\ row'[s].cid = row[s].cid /\ row'[s].idle = row[s].idle
       /\ \/ row'[s].state = row[s].state
          \/ row[s].state = k.st /\ row'[s].state = "running"
  BY <1>6, <1>9 DEF SetState, StateIs, Row
<1>11. \/ row'[s].state = row[s].state
       \/ row[s].state = "starting" /\ row'[s].state = "running"
  BY <1>3, <1>5, <1>10 DEF EventEdge, RowCalm
<1>12. \A t \in Sandbox : \A i : Executed(i, t) /\ Stored(i, t) => Stored(i, t)'
  BY <1>8, <1>10, SameCalls
<1> QED
  BY <1>2, <1>4, <1>5, <1>7, <1>8, <1>10, <1>11, <1>12, NodeSets, ProcFacts

LEMMA EventCalmStep ==
    ASSUME IndInv, Calm, NEW n \in Node, HandleEvent(n)
    PROVE  Calm'
<1>1. call[Evt(n)].pc \in {"idle", "event_cas"}
  BY DEF Calm, EvtsCalm, EvtCalm
<1>2. ~(EventRoute(n) \/ CrashInc(n) \/ CrashFail(n) \/ CrashCas(n) \/ CrashCmd(n))
  BY <1>1 DEF EventRoute, CrashInc, CrashFail, CrashCas, CrashCmd, At
<1> QED
  BY <1>2, EventReadCalm, EventCasCalm DEF HandleEvent

\* The reaper and the rescheduler have nothing to list and nothing to visit.
LEMMA PassesIdle ==
    ASSUME Calm
    PROVE  ~ReaperStep /\ ~Reschedule
<1>1. /\ call[Reaper].pc = "idle" /\ call[Monitor].pc = "idle"
      /\ batch[Reaper] = {} /\ batch[Monitor] = {} /\ \A s \in Sandbox : ~row[s].idle
  BY DEF Calm, PassesCalm
<1>2. ~ReapList
  BY <1>1 DEF ReapList
<1>3. ~ReapCmd /\ ~ReapRoute
  BY <1>1 DEF ReapCmd, ReapRoute, At
<1>4. ~MoveList /\ ~MoveRoute /\ ~MoveReset /\ ~MoveSchedule /\ ~MoveFail /\ ~MoveAssign /\ ~MoveCmd
  BY <1>1 DEF MoveList, MoveRoute, MoveReset, MoveSchedule, MoveFail, MoveAssign, MoveCmd, At
<1> QED
  BY <1>1, <1>2, <1>3, <1>4 DEF ReaperStep, Reschedule

LEMMA FilePushCalm ==
    ASSUME IndInv, Calm, NEW s \in Sandbox, FilePush(s)
    PROVE  Calm'
<1>1. /\ UNCHANGED <<cmds, inbox, call, ctr, evq, batch>> /\ row' = [row EXCEPT ![s].idle = FALSE]
  BY DEF FilePush, agents
<1>2. row \in [Sandbox -> Row]
  BY DEF IndInv, TypeOK
<1>3. RowsSame
  BY <1>1, <1>2 DEF RowsSame, Calm, PassesCalm, Row
<1> QED
  BY <1>1, <1>3, SameTableOn, NobodyCalm

LEMMA NothingCalm ==
    ASSUME IndInv, Calm, UNCHANGED <<row, cmds, inbox, call, ctr, evq, batch>>
    PROVE  Calm'
  BY SameTableOn, UnchangedRows, NobodyCalm

-----------------------------------------------------------------------------
(* What holds while nothing is disturbed. *)

CalmInv == QueueInv /\ (Undisturbed => Calm)

Counted == UNCHANGED <<crashes, timeouts, faults>>

\* What has happened once is not forgotten.
LEMMA StaysDisturbed ==
    ASSUME IndInv, [Next]_vars, Undisturbed'
    PROVE  /\ Undisturbed
           /\ ~Fault
           /\ ~\E n \in Node, a \in App : ContainerExits(n, a)
           /\ ~\E s \in Sandbox : GoesIdle(s)
           /\ ~\E n \in Node : MonitorMark(n)
<1>1. crashes \in Nat /\ timeouts \in Nat /\ faults \in Nat
  BY ConstantsAssumption DEF IndInv, TypeOK
<1>2. ~Fault
  BY FaultCounts DEF Undisturbed
<1>3. ASSUME NEW n \in Node, NEW a \in App, ContainerExits(n, a) PROVE FALSE
  <2>1. crashes' = crashes + 1
    BY <1>3 DEF ContainerExits
  <2> QED
    BY <1>1, <2>1 DEF Undisturbed
<1>4. ASSUME NEW s \in Sandbox, GoesIdle(s) PROVE FALSE
  <2>1. timeouts' = timeouts + 1
    BY <1>4 DEF GoesIdle
  <2> QED
    BY <1>1, <2>1 DEF Undisturbed
<1>5. ASSUME NEW n \in Node, MonitorMark(n) PROVE FALSE
  <2>1. timeouts' = timeouts + 1
    BY <1>5 DEF MonitorMark
  <2> QED
    BY <1>1, <2>1 DEF Undisturbed
<1>6. ASSUME NEW c \in Client, ApiStep(c) \/ \E s \in Sandbox : ApiRequest(c, s) PROVE Counted
  BY <1>6 DEF Counted, counts, ApiStep, ApiRequest, CreateRecycle, CreateInsert, CreateSchedule,
              CreateAssign, StartCmd, DestroyCas, StopCmd, WakeCas, RestartCmd, CreateLookup,
              DestroyRead, WakeRead, RestartRead
<1>7. ASSUME NEW n \in Node, AgentStep(n) PROVE Counted
  BY <1>7 DEF Counted, counts, AgentStep, AgentPoll, AgentTrack, AgentUntrack, AgentStart,
              AgentStop, AgentRestart
<1>8. ASSUME NEW n \in Node, HandleAck(n) PROVE Counted
  BY <1>8 DEF Counted, counts, HandleAck, AckRead, AckCas, AckReread, AckPersist, AckRefetch,
              AckRoute, AckReset, AckDone
<1>9. ASSUME NEW n \in Node, HandleEvent(n) PROVE Counted
  BY <1>9 DEF Counted, counts, HandleEvent, EventRead, EventCas, EventRoute, CrashInc, CrashFail,
              CrashCas, CrashCmd
<1>10. ASSUME ReaperStep PROVE Counted
  BY <1>10 DEF Counted, counts, ReaperStep, ReapList, ReapCas, ReapCmd, ReapRoute
<1>11. ASSUME Reschedule PROVE Counted
  BY <1>11 DEF Counted, counts, Reschedule, MoveList, MoveCas, MoveRoute, MoveReset, MoveSchedule,
               MoveFail, MoveAssign, MoveCmd
<1>12. ASSUME NEW n \in Node, Heartbeat(n) PROVE Counted
  BY <1>12 DEF Counted, counts, Heartbeat
<1>13. ASSUME NEW s \in Sandbox, FilePush(s) PROVE Counted
  BY <1>13 DEF Counted, counts, FilePush
<1>14. ASSUME UNCHANGED vars PROVE Counted
  BY <1>14 DEF Counted, vars
<1>15. Counted
  BY <1>2, <1>3, <1>4, <1>5, <1>6, <1>7, <1>8, <1>9, <1>10, <1>11, <1>12, <1>13, <1>14
     DEF Next, Environment
<1> QED
  BY <1>2, <1>3, <1>4, <1>5, <1>15 DEF Counted, Undisturbed

LEMMA CalmInit == Init => CalmInv
<1> SUFFICES ASSUME Init PROVE Calm
  BY QueueInit DEF CalmInv
<1>1. /\ \A s \in Sandbox : row[s].state = "absent" /\ row[s].node = NoNode /\ ~row[s].idle
      /\ Len(cmds) = 0 /\ 1..Len(cmds) = {}
  BY DEF Init
<1>2. \A p \in Proc : call[p].pc = "idle"
  BY DEF Init, Idle, Begun
<1>3. /\ batch[Reaper] = {} /\ batch[Monitor] = {}
      /\ \A n \in Node : evq[n] = <<>> /\ \A a \in App : ctr[n][a].cid = 0 /\ ~ctr[n][a].up
  BY DEF Init, NoContainer
<1>4. PassesCalm
  BY <1>1, <1>2, <1>3, ProcFacts DEF PassesCalm
<1>5. RowsCalm
  BY <1>1, ConstantsAssumption DEF RowsCalm, OneOfApp, RowCalm, Exists
<1>6. CmdsCalm
  BY <1>1 DEF CmdsCalm
<1>7. ApisCalm
  BY <1>2, ProcFacts DEF ApisCalm, OneCreate, ApiCalm, CreatePc
<1>8. CtrCalm /\ EvqCalm
  BY <1>3 DEF CtrCalm, EvqCalm
<1>9. EvtsCalm /\ AcksCalm
  BY <1>2, ProcFacts DEF EvtsCalm, EvtCalm, AcksCalm, AckCalm
<1>10. LivesCalm
  BY <1>1 DEF LivesCalm, LiveCalm
<1> QED
  BY <1>4, <1>5, <1>6, <1>7, <1>8, <1>9, <1>10 DEF Calm

LEMMA CalmStep ==
    ASSUME "restart" \notin ApiOps, CalmInv, [Next]_vars
    PROVE  CalmInv'
<1>1. QueueInv /\ IndInv /\ QueueInv'
  BY QueueStep DEF CalmInv, QueueInv
<1> SUFFICES ASSUME Undisturbed' PROVE Calm'
  BY <1>1 DEF CalmInv
<1>2. Calm /\ ~Fault
  BY <1>1, StaysDisturbed DEF CalmInv
<1>3. ASSUME NEW c \in Client, ApiStep(c) \/ \E s \in Sandbox : ApiRequest(c, s) PROVE Calm'
  BY <1>1, <1>2, <1>3, ApiCalmStep
<1>4. ASSUME NEW n \in Node, AgentStep(n) \/ HandleAck(n) \/ HandleEvent(n) PROVE Calm'
  BY <1>1, <1>2, <1>4, AgentCalmStep, AckCalmStep, EventCalmStep
<1>5. ~ReaperStep /\ ~Reschedule
  BY <1>2, PassesIdle
<1>6. ASSUME Environment PROVE Calm'
  <2>1. (\E n \in Node : Heartbeat(n)) \/ (\E s \in Sandbox : FilePush(s))
    BY <1>1, <1>6, StaysDisturbed DEF Environment
  <2>2. ASSUME NEW n \in Node, Heartbeat(n) PROVE Calm'
    BY <1>1, <1>2, <2>2, NothingCalm DEF Heartbeat, agents
  <2> QED
    BY <1>1, <1>2, <2>1, <2>2, FilePushCalm
<1>7. ASSUME UNCHANGED vars PROVE Calm'
  BY <1>1, <1>2, <1>7, NothingCalm DEF vars
<1> QED
  BY <1>2, <1>3, <1>4, <1>5, <1>6, <1>7 DEF Next

LEMMA CalmInvariant ==
    ASSUME "restart" \notin ApiOps
    PROVE  Spec => []CalmInv
<1>1. CalmInv /\ [Next]_vars => CalmInv'
  BY CalmStep
<1> QED
  BY CalmInit, <1>1, PTL DEF Spec

\* While nothing is disturbed, and for clients that use no RestartSandbox: once
\* all is quiet, the container of a running sandbox is up on the node of its row,
\* under the id HandleAck stored, however its create, the agent's ack and the
\* container's own start event overlapped.
THEOREM RunningSandboxIsUp ==
    ASSUME "restart" \notin ApiOps
    PROVE  Spec => []RunningIsUp
<1>1. ASSUME CalmInv PROVE RunningIsUp
  <2> SUFFICES ASSUME Quiet, Undisturbed, NEW s \in Sandbox, row[s].state = "running"
               PROVE  ctr[row[s].node][AppOf[s]] = [cid |-> row[s].cid, up |-> TRUE]
    BY DEF RunningIsUp
  <2>1. LiveCalm(s)
    BY <1>1 DEF CalmInv, Calm, LivesCalm
  <2>2. PICK i \in 1..Len(cmds) : Executed(i, s)
    BY <2>1 DEF LiveCalm, Made
  <2>3. ctr[row[s].node][AppOf[s]] = [cid |-> i, up |-> TRUE] /\ Stored(i, s)
    BY <2>1, <2>2 DEF LiveCalm
  <2>4. \A n \in Node : call[Ack(n)].pc \notin UnstoredPc
    BY ProcFacts DEF Quiet, UnstoredPc
  <2> QED
    BY <2>3, <2>4 DEF Stored
<1> QED
  BY <1>1, CalmInvariant, PTL

\* Under the same conditions no container runs, on any node, for an app whose row
\* is destroyed: DestroySandbox cannot be overtaken by the start it undoes.
THEOREM DestroyedSandboxIsGone ==
    ASSUME "restart" \notin ApiOps
    PROVE  Spec => []DestroyedIsGone
<1>1. ASSUME CalmInv PROVE DestroyedIsGone
  <2> SUFFICES ASSUME Undisturbed, NEW s \in Sandbox, NEW n \in Node,
                      row[s].state = "destroyed", RowsOf(AppOf[s]) = {s}, ctr[n][AppOf[s]].up
               PROVE  FALSE
    BY DEF DestroyedIsGone
  <2>1. Calm /\ IndInv /\ AppOf[s] \in App
    BY <1>1, ConstantsAssumption DEF CalmInv, QueueInv
  <2>2. PICK x : x = ctr[n][AppOf[s]].cid
    OBVIOUS
  <2>3. x # 0 /\ MadeBy(x, n, AppOf[s])
    BY <2>1, <2>2 DEF Calm, CtrCalm
  <2>4. PICK t \in Refs : t = cmds[x].sb /\ AppOf[t] = AppOf[s]
    BY <2>3 DEF MadeBy, Refs
  <2>5. t \in Sandbox /\ row[t].node \in Node
    BY <2>1, NamedHasNode DEF Calm
  <2>6. Exists(t)
    BY <2>1, <2>5 DEF Calm, RowsCalm, RowCalm, Gone, Exists
  <2>7. t = s
    BY <2>4, <2>5, <2>6 DEF RowsOf
  <2>8. Removed(s)
    BY <2>1, <2>5, <2>7 DEF Calm, LivesCalm, LiveCalm
  <2> QED
    BY <2>2, <2>3, <2>8 DEF Removed
<1> QED
  BY <1>1, CalmInvariant, PTL

-----------------------------------------------------------------------------
(* Without timeouts and faults a sandbox stays on its node: the inductive    *)
(* invariant.                                                                *)

Steady == timeouts = 0 /\ faults = 0

\* A row that has a node is never pending again, and once it has left 'starting'
\* or 'destroying' a command names it.
RowHome(s) ==
    /\ row[s].state = "pending" => row[s].node = NoNode
    /\ row[s].state # "stopped"
    /\ row[s].node \in Node /\ row[s].state \notin {"starting", "destroying"} => s \in Refs
RowsHome == OneOfApp /\ \A s \in Sandbox : RowHome(s)

\* Commands are for the node of their sandbox; a stop follows a destroy.
CmdHome(i) ==
    /\ Exists(cmds[i].sb) /\ cmds[i].node = row[cmds[i].sb].node
    /\ cmds[i].type = "stop_sandbox" => row[cmds[i].sb].state \in Gone
CmdsHome == \A i \in 1..Len(cmds) : CmdHome(i)

\* The node a handler has read is the one the row still has.
ApiHome(k) ==
    /\ k.pc # "wake_cas"
    /\ k.pc \in {"start_cmd", "restart_cmd"} => row[k.sb].node = k.node
    /\ k.pc \in {"destroy_cas", "stop_cmd"} /\ k.node # NoNode => row[k.sb].node = k.node
    /\ k.pc = "stop_cmd" /\ k.node # NoNode => row[k.sb].state \in Gone
EvtHome(k) == k.pc # "idle" => k.node = row[k.sb].node

\* So is the container, from the moment HandleAck has stored it.
AckHome(k) ==
    /\ k.pc \in {"ack_persist", "ack_refetch"} => k.nxt = "running"
    /\ k.pc = "ack_refetch" => row[k.sb].cid # 0
    /\ k.pc = "ack_route" /\ k.nxt = "running" =>
         k.node = row[k.sb].node /\ k.cid = row[k.sb].cid /\ k.cid # 0
CallsHome ==
    /\ \A c \in Client : ApiHome(call[Api(c)])
    /\ \A n \in Node : EvtHome(call[Evt(n)]) /\ AckHome(call[Ack(n)])

\* A route is the one of the row, or an ack is about to make it so.
Storing(s) == \E n \in Node : /\ call[Ack(n)].sb = s /\ call[Ack(n)].nxt = "running"
                              /\ call[Ack(n)].pc \in {"ack_refetch", "ack_route"}
Routed(s) == route[AppOf[s]] = [node |-> row[s].node, cid |-> row[s].cid] \/ Storing(s)
RoutesHome == \A a \in App : route[a] # NoRoute => \E s \in Refs : AppOf[s] = a /\ Routed(s)

Home == PassesCalm /\ RowsHome /\ CmdsHome /\ CallsHome /\ RoutesHome

-----------------------------------------------------------------------------
(* What a step leaves as it is. *)

\* The commands that are there keep what they say.
Logged ==
    /\ Len(cmds) \in Nat /\ Len(cmds') \in Nat /\ Len(cmds) <= Len(cmds')
    /\ \A i \in 1..Len(cmds) : /\ cmds'[i].sb = cmds[i].sb /\ cmds'[i].node = cmds[i].node
                               /\ cmds'[i].type = cmds[i].type

\* A row that has a node keeps it, and is not deleted.
RowsStay ==
    \A s \in Sandbox : row[s].node \in Node =>
        /\ row'[s].node = row[s].node
        /\ Exists(s) => Exists(s)'
        /\ row[s].state \in Gone => row'[s].state \in Gone

\* Only the loop of a sandbox's node stores its container.
CidStays(p) ==
    \A s \in Sandbox : row[s].node \in Node => row'[s].cid = row[s].cid \/ p = Ack(row[s].node)

LEMMA SameLog == ASSUME IndInv, UNCHANGED cmds PROVE Logged
  BY DEF IndInv, TypeOK, Logged

LEMMA SameStay == ASSUME UNCHANGED row, NEW p PROVE RowsStay /\ CidStays(p)
  BY DEF RowsStay, CidStays, Exists

LEMMA NamedStay == ASSUME Logged PROVE Refs \subseteq Refs'
<1>1. ASSUME NEW i \in 1..Len(cmds) PROVE i \in 1..Len(cmds') /\ cmds'[i].sb = cmds[i].sb
  BY DEF Logged
<1> QED
  BY <1>1 DEF Refs

\* The sandbox of a command has the command's node, and is the only one of its app.
LEMMA NamedHome ==
    ASSUME IndInv, Home, NEW s \in Refs
    PROVE  /\ s \in Sandbox /\ AppOf[s] \in App /\ row[s].node \in Node /\ Exists(s)
           /\ \A t \in Sandbox : AppOf[t] = AppOf[s] /\ Exists(t) => s = t
<1>1. PICK i \in 1..Len(cmds) : s = cmds[i].sb
  BY DEF Refs
<1>2. cmds[i] \in Command
  BY DEF IndInv, TypeOK
<1>3. s \in Sandbox /\ row[s].node \in Node /\ Exists(s)
  BY <1>1, <1>2 DEF Home, CmdsHome, CmdHome, Command
<1> QED
  BY <1>3, ConstantsAssumption DEF Home, RowsHome, OneOfApp

\* A row that has a node is there.
LEMMA NodeExists ==
    ASSUME IndInv, Home, NEW s \in Sandbox, row[s].node \in Node
    PROVE  Exists(s)
<1>1. row[s].state \in {"starting", "destroying"} \/ s \in Refs
  BY DEF Home, RowsHome, RowHome
<1> QED
  BY <1>1, NamedHome DEF Exists

LEMMA CmdsStay ==
    ASSUME IndInv, Home, Logged, Len(cmds') = Len(cmds), RowsStay
    PROVE  CmdsHome'
<1> SUFFICES ASSUME NEW i \in 1..Len(cmds) PROVE CmdHome(i)'
  BY DEF CmdsHome
<1>1. PICK s : s = cmds[i].sb /\ s = cmds'[i].sb
  BY DEF Logged
<1>2. s \in Refs
  BY <1>1 DEF Refs
<1>3. s \in Sandbox /\ row[s].node \in Node /\ Exists(s)
  BY <1>2, NamedHome
<1>4. CmdHome(i)
  BY DEF Home, CmdsHome
<1> QED
  BY <1>1, <1>3, <1>4 DEF CmdHome, RowsStay, Logged, Exists

LEMMA ApiStays ==
    ASSUME IndInv, Home, RowsStay, NEW c \in Client, call'[Api(c)] = call[Api(c)]
    PROVE  ApiHome(call[Api(c)])'
<1>1. PICK k : k = call[Api(c)] /\ k = call'[Api(c)]
  OBVIOUS
<1>2. k \in Call /\ ApiOK(c, k) /\ ApiHome(k)
  BY <1>1, ProcFacts DEF IndInv, TypeOK, ApiInv, Home, CallsHome
<1>3. k.node \in Node \cup {NoNode}
  BY <1>2 DEF Call
<1>4. ApiHome(k)'
  BY <1>2, <1>3 DEF ApiHome, ApiOK, RowsStay
<1> QED
  BY <1>1, <1>4 DEF ApiHome

LEMMA EvtStays ==
    ASSUME IndInv, Home, RowsStay, NEW n \in Node, call'[Evt(n)] = call[Evt(n)]
    PROVE  EvtHome(call[Evt(n)])'
<1>1. PICK k : k = call[Evt(n)] /\ k = call'[Evt(n)]
  OBVIOUS
<1>2. EvtOK(n, k) /\ EvtHome(k)
  BY <1>1 DEF IndInv, EvtInv, Home, CallsHome
<1>3. EvtHome(k)'
  BY <1>2 DEF EvtHome, EvtOK, RowsStay
<1> QED
  BY <1>1, <1>3 DEF EvtHome

LEMMA LoopHome ==
    ASSUME QueueInv, Home, NEW n \in Node, call[Ack(n)].pc # "idle"
    PROVE  /\ call[Ack(n)].sb \in Sandbox /\ call[Ack(n)].sb \in Refs
           /\ row[call[Ack(n)].sb].node = n /\ call[Ack(n)].cmd \in 1..Len(cmds)
           /\ cmds[call[Ack(n)].cmd].sb = call[Ack(n)].sb
<1>1. IndInv /\ cmds[call[Ack(n)].cmd].node = n
  BY DEF QueueInv, SpentInv
<1>2. /\ call[Ack(n)].cmd \in 1..Len(cmds) /\ cmds[call[Ack(n)].cmd].sb = call[Ack(n)].sb
      /\ call[Ack(n)].sb \in Sandbox /\ call[Ack(n)].sb \in Refs
  BY <1>1, AckFacts
<1>3. CmdHome(call[Ack(n)].cmd)
  BY <1>2 DEF Home, CmdsHome
<1> QED
  BY <1>1, <1>2, <1>3 DEF CmdHome

LEMMA AckStays ==
    ASSUME QueueInv, Home, RowsStay, NEW p, CidStays(p), NEW n \in Node, p # Ack(n),
           call'[Ack(n)] = call[Ack(n)]
    PROVE  AckHome(call[Ack(n)])'
<1>1. PICK k : k = call[Ack(n)] /\ k = call'[Ack(n)]
  OBVIOUS
<1>2. AckHome(k)
  BY <1>1 DEF Home, CallsHome
<1>3. CASE k.pc = "idle"
  BY <1>1, <1>3 DEF AckHome
<1>4. CASE k.pc # "idle"
  <2>1. k.sb \in Sandbox /\ row[k.sb].node = n
    BY <1>1, <1>4, LoopHome
  <2>2. row'[k.sb].node = row[k.sb].node /\ row'[k.sb].cid = row[k.sb].cid
    BY <2>1 DEF RowsStay, CidStays
  <2>3. AckHome(k)'
    BY <1>2, <2>2 DEF AckHome
  <2> QED
    BY <1>1, <2>3 DEF AckHome
<1> QED
  BY <1>3, <1>4

\* What is left to show of a step of process p.
LEMMA HomeFrame ==
    ASSUME QueueInv, Home, NEW p \in Proc, Moved(p),
           call'[Reaper].pc = "idle", call'[Monitor].pc = "idle", UNCHANGED batch,
           \A s \in Sandbox : ~row'[s].idle,
           RowsStay, CidStays(p), RowsHome', CmdsHome', RoutesHome',
           \A c \in Client : p = Api(c) => ApiHome(call[Api(c)])',
           \A n \in Node : p = Evt(n) => EvtHome(call[Evt(n)])',
           \A n \in Node : p = Ack(n) => AckHome(call[Ack(n)])'
    PROVE  Home'
<1>1. IndInv
  BY DEF QueueInv
<1>2. PassesCalm'
  BY DEF Home, PassesCalm
<1>3. CallsHome'
  BY <1>1, ApiStays, EvtStays, AckStays, ProcFacts DEF CallsHome, Moved
<1> QED
  BY <1>2, <1>3 DEF Home

LEMMA RowsKept ==
    ASSUME RowsHome, Refs \subseteq Refs', UNCHANGED row
    PROVE  RowsHome'
  BY DEF RowsHome, RowHome, OneOfApp, Exists

LEMMA RoutesStay ==
    ASSUME QueueInv, Home, Refs \subseteq Refs', RowsStay,
           \A s \in Refs : row'[s].cid = row[s].cid,
           \A a \in App : route'[a] \in {route[a], NoRoute},
           \A s \in Refs : Storing(s) => Storing(s)'
    PROVE  RoutesHome'
<1> SUFFICES ASSUME NEW a \in App, route'[a] # NoRoute
             PROVE  \E s \in Refs' : AppOf[s] = a /\ Routed(s)'
  BY DEF RoutesHome
<1>1. PICK s \in Refs : AppOf[s] = a /\ Routed(s)
  BY DEF Home, RoutesHome
<1>2. s \in Sandbox /\ row[s].node \in Node
  BY NamedHome DEF QueueInv
<1>3. row'[s].node = row[s].node /\ row'[s].cid = row[s].cid /\ route'[a] = route[a]
  BY <1>2 DEF RowsStay
<1> QED
  BY <1>1, <1>3 DEF Routed

\* An ack that is not about to store a container.
LEMMA OthersStoring ==
    ASSUME NEW p \in Proc, Moved(p),
           \A n \in Node : p = Ack(n) =>
               \/ call[Ack(n)].pc \notin {"ack_refetch", "ack_route"} \/ call[Ack(n)].nxt # "running"
               \/ /\ call'[Ack(n)].pc \in {"ack_refetch", "ack_route"}
                  /\ call'[Ack(n)].sb = call[Ack(n)].sb /\ call'[Ack(n)].nxt = call[Ack(n)].nxt
    PROVE  \A s : Storing(s) => Storing(s)'
<1> SUFFICES ASSUME NEW s, NEW n \in Node, call[Ack(n)].sb = s, call[Ack(n)].nxt = "running",
                    call[Ack(n)].pc \in {"ack_refetch", "ack_route"}
             PROVE  /\ call'[Ack(n)].sb = s /\ call'[Ack(n)].nxt = "running"
                    /\ call'[Ack(n)].pc \in {"ack_refetch", "ack_route"}
  BY DEF Storing
<1> QED
  BY ProcFacts DEF Moved

\* A handler reads, or goes on.
LEMMA CallHome ==
    ASSUME QueueInv, Home, NEW p \in Proc, Moved(p), p # Reaper, p # Monitor,
           UNCHANGED <<row, cmds, batch>>,
           \A a \in App : route'[a] \in {route[a], NoRoute},
           \A n \in Node : p = Ack(n) =>
               \/ call[Ack(n)].pc \notin {"ack_refetch", "ack_route"} \/ call[Ack(n)].nxt # "running"
               \/ /\ call'[Ack(n)].pc \in {"ack_refetch", "ack_route"}
                  /\ call'[Ack(n)].sb = call[Ack(n)].sb /\ call'[Ack(n)].nxt = call[Ack(n)].nxt,
           \A c \in Client : p = Api(c) => ApiHome(call[Api(c)])',
           \A n \in Node : p = Evt(n) => EvtHome(call[Evt(n)])',
           \A n \in Node : p = Ack(n) => AckHome(call[Ack(n)])'
    PROVE  Home'
<1>1. IndInv /\ Logged /\ RowsStay /\ CidStays(p) /\ Refs \subseteq Refs'
  BY SameLog, SameStay, NamedStay DEF QueueInv
<1>2. RowsHome' /\ CmdsHome'
  BY <1>1, RowsKept, CmdsStay DEF Home
<1>3. RoutesHome'
  BY <1>1, RoutesStay, OthersStoring
<1> QED
  BY <1>1, <1>2, <1>3, HomeFrame, ProcFacts DEF Home, PassesCalm, Moved

\* Row s is written.
LEMMA SetHome ==
    ASSUME QueueInv, Home, NEW p \in Proc, Moved(p), p # Reaper, p # Monitor,
           UNCHANGED <<cmds, batch, route>>, NEW s \in Sandbox,
           \A t \in Sandbox : t # s => row'[t] = row[t],
           row[s].node \in Node =>
               /\ row'[s].node = row[s].node /\ row'[s].cid = row[s].cid /\ Exists(s)'
               /\ row[s].state \in Gone => row'[s].state \in Gone,
           Exists(s)' => Exists(s) \/ RowsOf(AppOf[s]) = {},
           ~row'[s].idle, RowHome(s)',
           \A n \in Node : p = Ack(n) =>
               call[Ack(n)].pc \notin {"ack_refetch", "ack_route"} \/ call[Ack(n)].nxt # "running",
           \A c \in Client : p = Api(c) => ApiHome(call[Api(c)])',
           \A n \in Node : p = Evt(n) => EvtHome(call[Evt(n)])',
           \A n \in Node : p = Ack(n) => AckHome(call[Ack(n)])'
    PROVE  Home'
<1>1. IndInv /\ Logged /\ Refs \subseteq Refs' /\ Refs' = Refs
  BY SameLog, NamedStay DEF QueueInv, Refs
<1>2. RowsStay /\ CidStays(p)
  BY DEF RowsStay, CidStays, Exists
<1>3. CmdsHome'
  BY <1>1, <1>2, CmdsStay
<1>4. \A t \in Refs : row'[t].cid = row[t].cid
  BY <1>1, NamedHome
<1>5. RoutesHome'
  BY <1>1, <1>2, <1>4, RoutesStay, OthersStoring
<1>6. RowsHome'
  <2>1. \A t \in Sandbox : RowHome(t)'
    BY <1>1 DEF Home, RowsHome, RowHome
  <2>2. \A t \in Sandbox : t # s => (Exists(t)' <=> Exists(t))
    BY DEF Exists
  <2>3. RowsOf(AppOf[s]) = {} => \A t \in Sandbox : AppOf[t] = AppOf[s] => ~Exists(t)
    BY DEF RowsOf
  <2>4. OneOfApp'
    BY <2>2, <2>3 DEF Home, RowsHome, OneOfApp
  <2> QED
    BY <2>1, <2>4 DEF RowsHome
<1> QED
  BY <1>1, <1>2, <1>3, <1>5, <1>6, HomeFrame, ProcFacts DEF Home, PassesCalm, Moved

\* A command is issued.
LEMMA IssueHome ==
    ASSUME QueueInv, Home, NEW p \in Proc, Return(p), p # Reaper, p # Monitor,
           \A n \in Node : p # Ack(n),
           UNCHANGED <<row, inbox, batch, route>>, NEW type, NEW s \in Sandbox, NEW n, NEW x,
           InsertCommand(type, s, n, x), n \in Node, row[s].node = n,
           type = "stop_sandbox" => row[s].state \in Gone
    PROVE  Home'
<1>1. IndInv /\ Moved(p) /\ call'[p].pc = "idle" /\ call'[p].sb = NoSandbox
  BY ReturnFacts DEF QueueInv
<1>2. /\ TableOn /\ Len(cmds') = Len(cmds) + 1 /\ \A i \in 1..Len(cmds) : cmds'[i] = cmds[i]
      /\ cmds'[Len(cmds) + 1].sb = s /\ cmds'[Len(cmds) + 1].type = type
      /\ cmds'[Len(cmds) + 1].node = n
  BY <1>1, AppendOn
<1>3. Logged /\ Refs \subseteq Refs' /\ RowsStay /\ CidStays(p)
  BY <1>2, NamedStay, SameStay DEF Logged, TableOn
<1>4. RowsHome'
  BY <1>3, RowsKept DEF Home
<1>5. CmdsHome'
  <2> SUFFICES ASSUME NEW i \in 1..Len(cmds') PROVE CmdHome(i)'
    BY DEF CmdsHome
  <2>1. CASE i \in 1..Len(cmds)
    <3>1. CmdHome(i) /\ cmds'[i] = cmds[i]
      BY <1>2, <2>1 DEF Home, CmdsHome
    <3> QED
      BY <3>1 DEF CmdHome, Exists
  <2>2. CASE i \notin 1..Len(cmds)
    <3>1. i = Len(cmds) + 1
      BY <1>2, <2>2 DEF TableOn
    <3>2. Exists(s)
      BY <1>1, NodeExists
    <3> QED
      BY <1>2, <3>1, <3>2 DEF CmdHome, Exists
  <2> QED
    BY <2>1, <2>2
<1>6. RoutesHome'
  BY <1>1, <1>3, RoutesStay, OthersStoring
<1>7. /\ \A c \in Client : p = Api(c) => ApiHome(call[Api(c)])'
      /\ \A m \in Node : p = Evt(m) => EvtHome(call[Evt(m)])'
  BY <1>1 DEF ApiHome, EvtHome
<1> QED
  BY <1>1, <1>3, <1>4, <1>5, <1>6, <1>7, HomeFrame, ProcFacts DEF Home, PassesCalm, Moved

\* No handler moves, and no row or command changes in what the invariant looks at.
LEMMA NobodyHome ==
    ASSUME QueueInv, Home, UNCHANGED <<call, batch, route>>, Logged, Len(cmds') = Len(cmds),
           \A s \in Sandbox : /\ row'[s].state = row[s].state /\ row'[s].node = row[s].node
                              /\ row'[s].cid = row[s].cid /\ ~row'[s].idle
    PROVE  Home'
<1>1. /\ IndInv /\ Refs \subseteq Refs' /\ RowsStay /\ CidStays(Reaper) /\ Moved(Reaper)
      /\ Reaper \in Proc
  BY NamedStay, ProcFacts DEF QueueInv, RowsStay, CidStays, Exists, Moved
<1>2. CmdsHome'
  BY <1>1, CmdsStay
<1>3. RowsHome'
  BY <1>1 DEF Home, RowsHome, RowHome, OneOfApp, Exists
<1>4. RoutesHome'
  BY <1>1, NamedHome, RoutesStay, OthersStoring, ProcFacts
<1> QED
  BY <1>1, <1>2, <1>3, <1>4, HomeFrame, ProcFacts DEF Home, PassesCalm

-----------------------------------------------------------------------------
(* The API's handlers. *)

\* A client's handler reads, or goes on.
LEMMA ApiReadsHome ==
    ASSUME QueueInv, Home, NEW c \in Client, Moved(Api(c)),
           UNCHANGED <<row, cmds, batch, route>>, ApiHome(call[Api(c)])'
    PROVE  Home'
<1>1. /\ Api(c) \in Proc /\ Api(c) # Reaper /\ Api(c) # Monitor
      /\ \A n \in Node : Api(c) # Ack(n) /\ Api(c) # Evt(n)
      /\ \A d \in Client : Api(c) = Api(d) => c = d
  BY ProcFacts
<1> QED
  BY <1>1, CallHome

LEMMA ApiReturnsHome ==
    ASSUME QueueInv, Home, NEW c \in Client, Return(Api(c)), UNCHANGED <<row, cmds, batch, route>>
    PROVE  Home'
<1>1. Moved(Api(c)) /\ call'[Api(c)].pc = "idle"
  BY ReturnFacts, ProcFacts DEF QueueInv
<1>2. ApiHome(call[Api(c)])'
  BY <1>1 DEF ApiHome
<1> QED
  BY <1>1, <1>2, ApiReadsHome

\* A client's handler writes row s.
LEMMA ApiSetsHome ==
    ASSUME QueueInv, Home, NEW c \in Client, Moved(Api(c)),
           UNCHANGED <<cmds, batch, route>>, NEW s \in Sandbox,
           \A t \in Sandbox : t # s => row'[t] = row[t],
           row[s].node \in Node =>
               /\ row'[s].node = row[s].node /\ row'[s].cid = row[s].cid /\ Exists(s)'
               /\ row[s].state \in Gone => row'[s].state \in Gone,
           Exists(s)' => Exists(s) \/ RowsOf(AppOf[s]) = {},
           ~row'[s].idle, RowHome(s)', ApiHome(call[Api(c)])'
    PROVE  Home'
<1>1. /\ Api(c) \in Proc /\ Api(c) # Reaper /\ Api(c) # Monitor
      /\ \A n \in Node : Api(c) # Ack(n) /\ Api(c) # Evt(n)
      /\ \A d \in Client : Api(c) = Api(d) => c = d
  BY ProcFacts
<1> QED
  BY <1>1, SetHome

LEMMA CreateLookupHome ==
    ASSUME QueueInv, Home, NEW c \in Client, NEW s \in Sandbox, CreateLookup(c, s)
    PROVE  Home'
<1>1. UNCHANGED <<row, cmds, batch, route>> /\ Api(c) \in Proc /\ IndInv
  BY ProcFacts DEF CreateLookup, db, QueueInv
<1>2. PICK x \in Sandbox \cup {NoSandbox}, pc \in {"insert", "recycle"} :
        Become(Api(c), Creating(pc, s, x))
  BY DEF CreateLookup, RowsOf
<1>3. Moved(Api(c)) /\ call'[Api(c)].pc = pc
  BY <1>1, <1>2, AnyMove DEF Become, Creating, Begun, IndInv, TypeOK
<1>4. ApiHome(call[Api(c)])'
  BY <1>3 DEF ApiHome
<1> QED
  BY <1>1, <1>3, <1>4, ApiReadsHome

LEMMA CreateScheduleHome ==
    ASSUME QueueInv, Home, NEW c \in Client, CreateSchedule(c)
    PROVE  Home'
<1>1. UNCHANGED <<row, cmds, batch, route>> /\ Api(c) \in Proc /\ IndInv
  BY ProcFacts DEF CreateSchedule, db, QueueInv
<1>2. CASE Return(Api(c))
  BY <1>1, <1>2, ApiReturnsHome
<1>3. ASSUME NEW n, Become(Api(c), Placing("assign", call[Api(c)].sb, n)) PROVE Home'
  <2>1. Moved(Api(c)) /\ call'[Api(c)].pc = "assign"
    BY <1>1, <1>3, AnyMove DEF Become, Placing, Begun, IndInv, TypeOK
  <2>2. ApiHome(call[Api(c)])'
    BY <2>1 DEF ApiHome
  <2> QED
    BY <1>1, <2>1, <2>2, ApiReadsHome
<1> QED
  BY <1>2, <1>3 DEF CreateSchedule

LEMMA CreateRecycleHome ==
    ASSUME QueueInv, Home, NEW c \in Client, CreateRecycle(c)
    PROVE  Home'
<1> DEFINE k == call[Api(c)]
<1>1. UNCHANGED <<cmds, batch, route>> /\ Api(c) \in Proc /\ k.pc = "recycle" /\ IndInv
  BY ProcFacts DEF CreateRecycle, At, QueueInv
<1>0. PICK x \in Sandbox : x = k.old
  BY <1>1 DEF IndInv, ApiInv, ApiOK
<1>2. CASE Return(Api(c)) /\ UNCHANGED row
  BY <1>1, <1>2, ApiReturnsHome
<1>3. CASE ~Referenced(x) /\ SetState(x, "deleted") /\ Step(Api(c), "insert")
  <2>1. x \notin Refs /\ row[x].state \in {"destroyed", "failed", "deleted"}
    BY <1>0, <1>1, <1>3 DEF IndInv, ApiInv, ApiOK, Referenced, Refs
  <2>2. row[x].node \notin Node
    BY <2>1 DEF Home, RowsHome, RowHome
  <2>3. /\ row'[x].state = "deleted" /\ row'[x].node = row[x].node /\ ~row'[x].idle
        /\ \A s \in Sandbox : s # x => row'[s] = row[s]
    BY <1>1, <1>3 DEF IndInv, TypeOK, SetState, Row, Home, PassesCalm
  <2>4. Moved(Api(c)) /\ call'[Api(c)].pc = "insert"
    BY <1>1, <1>3, StepFacts DEF Pc
  <2>5. RowHome(x)' /\ ~Exists(x)' /\ ApiHome(call[Api(c)])'
    BY <2>2, <2>3, <2>4 DEF RowHome, Exists, ApiHome
  <2> QED
    BY <1>1, <2>2, <2>3, <2>4, <2>5, ApiSetsHome
<1> QED
  BY <1>0, <1>2, <1>3 DEF CreateRecycle

LEMMA CreateInsertHome ==
    ASSUME QueueInv, Home, NEW c \in Client, CreateInsert(c)
    PROVE  Home'
<1> DEFINE k == call[Api(c)]
<1>1. UNCHANGED <<cmds, batch, route>> /\ Api(c) \in Proc /\ k.pc = "insert" /\ IndInv
  BY ProcFacts DEF CreateInsert, At, QueueInv
<1>0. PICK s \in Sandbox : s = k.sb
  BY <1>1 DEF IndInv, ApiInv, ApiOK
<1>2. CASE Return(Api(c)) /\ UNCHANGED row
  BY <1>1, <1>2, ApiReturnsHome
<1>3. CASE /\ RowsOf(AppOf[s]) = {} /\ Step(Api(c), "schedule")
           /\ row' = [row EXCEPT ![s] = [state |-> "pending", node |-> NoNode,
                                         cid |-> 0, fails |-> 0, idle |-> FALSE]]
  <2>1. row[s].node \notin Node
    BY <1>0, <1>1, ConstantsAssumption DEF IndInv, ApiInv, ApiOK, RowInv, RowOK
  <2>2. /\ row'[s].state = "pending" /\ row'[s].node = NoNode /\ ~row'[s].idle
        /\ \A t \in Sandbox : t # s => row'[t] = row[t]
    BY <1>1, <1>3 DEF IndInv, TypeOK
  <2>3. Moved(Api(c)) /\ call'[Api(c)].pc = "schedule"
    BY <1>1, <1>3, StepFacts DEF Pc
  <2>4. RowHome(s)' /\ ApiHome(call[Api(c)])'
    BY <2>2, <2>3, ConstantsAssumption DEF RowHome, ApiHome
  <2> QED
    BY <1>1, <1>3, <2>1, <2>2, <2>3, <2>4, ApiSetsHome
<1> QED
  BY <1>0, <1>2, <1>3 DEF CreateInsert

LEMMA CreateAssignHome ==
    ASSUME QueueInv, Home, NEW c \in Client, CreateAssign(c)
    PROVE  Home'
<1> DEFINE k == call[Api(c)]
<1>1. UNCHANGED <<cmds, batch, route>> /\ Api(c) \in Proc /\ k.pc = "assign" /\ IndInv
  BY ProcFacts DEF CreateAssign, At, QueueInv
<1>0. PICK s \in Sandbox : s = k.sb
  BY <1>1 DEF IndInv, ApiInv, ApiOK
<1>2. CASE Return(Api(c)) /\ UNCHANGED row
  BY <1>1, <1>2, ApiReturnsHome
<1>3. CASE StateIs(s, "pending") /\ AssignSandboxToNode(s, k.node) /\ Step(Api(c), "start_cmd")
  <2>1. k.node \in Node /\ row[s].state = "pending"
    BY <1>0, <1>1, <1>3 DEF IndInv, ApiInv, ApiOK, StateIs
  <2>2. row[s].node \notin Node
    BY <2>1, ConstantsAssumption DEF Home, RowsHome, RowHome
  <2>3. /\ row'[s].state = "starting" /\ row'[s].node = k.node /\ ~row'[s].idle
        /\ \A t \in Sandbox : t # s => row'[t] = row[t]
    BY <1>1, <1>3 DEF IndInv, TypeOK, AssignSandboxToNode, Home, PassesCalm
  <2>4. /\ Moved(Api(c)) /\ call'[Api(c)].pc = "start_cmd" /\ call'[Api(c)].sb = s
        /\ call'[Api(c)].node = k.node
    BY <1>0, <1>1, <1>3, StepFacts DEF Pc
  <2>5. RowHome(s)' /\ Exists(s)
    BY <2>1, <2>3 DEF RowHome, Exists
  <2>6. ApiHome(call[Api(c)])'
    BY <2>3, <2>4 DEF ApiHome
  <2> QED
    BY <1>1, <2>2, <2>3, <2>4, <2>5, <2>6, ApiSetsHome
<1> QED
  BY <1>0, <1>2, <1>3 DEF CreateAssign

LEMMA DestroyReadHome ==
    ASSUME QueueInv, Home, NEW c \in Client, NEW s \in Sandbox, DestroyRead(c, s)
    PROVE  Home'
<1>1. UNCHANGED <<row, cmds, batch, route>> /\ Api(c) \in Proc /\ IndInv
  BY ProcFacts DEF DestroyRead, db, QueueInv
<1>2. PICK to \in State \cup {"none"} : Become(Api(c), ReadRow("destroy_cas", s, to))
  BY DEF DestroyRead, NextState
<1>3. /\ Moved(Api(c)) /\ call'[Api(c)].pc = "destroy_cas" /\ call'[Api(c)].sb = s
      /\ call'[Api(c)].node = row[s].node
  BY <1>1, <1>2, ReadRowFacts
<1>4. ApiHome(call[Api(c)])'
  BY <1>1, <1>3 DEF ApiHome
<1> QED
  BY <1>1, <1>3, <1>4, ApiReadsHome

LEMMA RestartReadHome ==
    ASSUME QueueInv, Home, NEW c \in Client, NEW s \in Sandbox, RestartRead(c, s)
    PROVE  Home'
<1>1. /\ UNCHANGED <<row, cmds, batch, route>> /\ Api(c) \in Proc /\ IndInv
      /\ Become(Api(c), ReadRow("restart_cmd", s, "none"))
  BY ProcFacts DEF RestartRead, db, QueueInv
<1>2. /\ Moved(Api(c)) /\ call'[Api(c)].pc = "restart_cmd" /\ call'[Api(c)].sb = s
      /\ call'[Api(c)].node = row[s].node
  BY <1>1, ReadRowFacts
<1>3. ApiHome(call[Api(c)])'
  BY <1>1, <1>2 DEF ApiHome
<1> QED
  BY <1>1, <1>2, <1>3, ApiReadsHome

LEMMA DestroyCasHome ==
    ASSUME QueueInv, Home, NEW c \in Client, DestroyCas(c)
    PROVE  Home'
<1> DEFINE k == call[Api(c)]
<1>1. UNCHANGED <<cmds, batch, route>> /\ Api(c) \in Proc /\ k.pc = "destroy_cas" /\ IndInv
  BY ProcFacts DEF DestroyCas, At, QueueInv
<1>0. PICK s \in Sandbox : s = k.sb
  BY <1>1 DEF IndInv, ApiInv, ApiOK
<1>2. CASE Return(Api(c)) /\ UNCHANGED row
  BY <1>1, <1>2, ApiReturnsHome
<1>3. CASE StateIs(s, k.st) /\ SetState(s, k.nxt) /\ Step(Api(c), "stop_cmd")
  <2>1. <<row[s].state, k.nxt>> \in DestroyEdge /\ ApiHome(k) /\ RowHome(s)
    BY <1>0, <1>1, <1>3 DEF IndInv, ApiInv, ApiOK, StateIs, Home, CallsHome, RowsHome
  <2>2. /\ row'[s].state = k.nxt /\ row'[s].node = row[s].node /\ ~row'[s].idle
        /\ row'[s].cid = row[s].cid /\ \A t \in Sandbox : t # s => row'[t] = row[t]
    BY <1>1, <1>3 DEF IndInv, TypeOK, SetState, Row, Home, PassesCalm
  <2>3. k.nxt \in Gone /\ Exists(s) /\ Exists(s)' /\ row[s].state \notin Gone
    BY <2>1, <2>2 DEF DestroyEdge, Gone, Exists
  <2>4. /\ Moved(Api(c)) /\ call'[Api(c)].pc = "stop_cmd" /\ call'[Api(c)].sb = s
        /\ call'[Api(c)].node = k.node
    BY <1>0, <1>1, <1>3, StepFacts DEF Pc
  <2>5. ApiHome(call[Api(c)])'
    BY <1>0, <1>1, <2>1, <2>2, <2>3, <2>4 DEF ApiHome
  <2>6. RowHome(s)'
    <3>1. CASE s \in Refs
      <4>1. s \in Refs'
        BY <1>1, <3>1 DEF Refs
      <4> QED
        BY <2>2, <2>3, <4>1 DEF RowHome, Gone
    <3>2. CASE s \notin Refs
      BY <2>1, <2>2, <3>2, ConstantsAssumption DEF RowHome, DestroyEdge
    <3> QED
      BY <3>1, <3>2
  <2> QED
    BY <1>1, <2>2, <2>3, <2>4, <2>5, <2>6, ApiSetsHome
<1> QED
  BY <1>0, <1>2, <1>3 DEF DestroyCas

LEMMA CmdHomeOf ==
    ASSUME QueueInv, Home, NEW c \in Client,
           StartCmd(c) \/ StopCmd(c) \/ RestartCmd(c)
    PROVE  Home'
<1> DEFINE k == call[Api(c)]
<1>1. /\ UNCHANGED <<row, inbox, batch, route>> /\ Return(Api(c)) /\ IndInv
      /\ k.pc \in {"start_cmd", "stop_cmd", "restart_cmd"}
      /\ Api(c) \in Proc /\ Api(c) # Reaper /\ Api(c) # Monitor /\ \A n \in Node : Api(c) # Ack(n)
  BY ProcFacts DEF StartCmd, StopCmd, RestartCmd, At, agents, QueueInv
<1>2. k \in Call /\ ApiOK(c, k) /\ ApiHome(k)
  BY <1>1 DEF IndInv, TypeOK, ApiInv, Home, CallsHome
<1>3. CASE UNCHANGED cmds
  BY <1>1, <1>3, ApiReturnsHome
<1>4. CASE ~UNCHANGED cmds
  <2>1. PICK type, x : /\ InsertCommand(type, k.sb, k.node, x)
                       /\ k.pc = "stop_cmd" => k.node # NoNode
                       /\ type = "stop_sandbox" => k.pc = "stop_cmd"
    <3>1. CASE StartCmd(c)
      BY <1>4, <3>1 DEF StartCmd, At, CreateCommand
    <3>2. CASE RestartCmd(c)
      BY <1>4, <3>2 DEF RestartCmd, At, CreateCommand
    <3>3. CASE StopCmd(c)
      BY <1>4, <3>3 DEF StopCmd, At, CreateCommand
    <3> QED
      BY <3>1, <3>2, <3>3
  <2>2. PICK s \in Sandbox, n \in Node : s = k.sb /\ n = k.node
    BY <1>1, <1>2, <2>1 DEF ApiOK, Call
  <2>3. row[s].node = n /\ (type = "stop_sandbox" => row[s].state \in Gone)
    BY <1>1, <1>2, <2>1, <2>2, ConstantsAssumption DEF ApiHome
  <2> QED
    BY <1>1, <2>1, <2>2, <2>3, IssueHome
<1> QED
  BY <1>3, <1>4

LEMMA ApiHomeStep ==
    ASSUME QueueInv, Home, NEW c \in Client, ApiStep(c) \/ \E s \in Sandbox : ApiRequest(c, s)
    PROVE  Home'
<1>1. ~WakeCas(c)
  BY DEF WakeCas, At, Home, CallsHome, ApiHome
<1>2. \A s \in Sandbox : ~WakeRead(c, s)
  BY DEF WakeRead, Home, RowsHome, RowHome
<1> QED
  BY <1>1, <1>2, CreateLookupHome, CreateRecycleHome, CreateInsertHome, CreateScheduleHome,
     CreateAssignHome, CmdHomeOf, DestroyReadHome, DestroyCasHome, RestartReadHome
     DEF ApiStep, ApiRequest

-----------------------------------------------------------------------------
(* The agents, and HandleAck. *)

\* Command loop n goes on.
LEMMA LoopOnHome ==
    ASSUME QueueInv, Home, NEW n \in Node, Moved(Ack(n)), UNCHANGED <<row, cmds, batch>>,
           \A a \in App : route'[a] \in {route[a], NoRoute},
           \/ call[Ack(n)].pc \notin {"ack_refetch", "ack_route"} \/ call[Ack(n)].nxt # "running"
           \/ /\ call'[Ack(n)].pc \in {"ack_refetch", "ack_route"}
              /\ call'[Ack(n)].sb = call[Ack(n)].sb /\ call'[Ack(n)].nxt = call[Ack(n)].nxt,
           AckHome(call[Ack(n)])'
    PROVE  Home'
<1>1. /\ Ack(n) \in Proc /\ Ack(n) # Reaper /\ Ack(n) # Monitor
      /\ \A c \in Client : Ack(n) # Api(c)
      /\ \A m \in Node : Ack(n) # Evt(m) /\ (Ack(n) = Ack(m) => n = m)
  BY ProcFacts
<1> QED
  BY <1>1, CallHome

LEMMA AgentPollHome ==
    ASSUME QueueInv, Home, NEW n \in Node, AgentPoll(n)
    PROVE  Home'
<1>1. UNCHANGED <<row, call, batch, route>> /\ Dispatch(n) /\ IndInv
  BY DEF AgentPoll, QueueInv
<1>2. Len(cmds) \in Nat /\ Len(cmds') = Len(cmds)
  BY <1>1 DEF Dispatch, IndInv, TypeOK
<1>3. ASSUME NEW i \in 1..Len(cmds)
      PROVE  /\ cmds'[i].sb = cmds[i].sb /\ cmds'[i].node = cmds[i].node
             /\ cmds'[i].type = cmds[i].type
  <2>1. cmds[i] \in Command
    BY <1>1 DEF IndInv, TypeOK
  <2>2. cmds'[i] = [cmds[i] EXCEPT !.status = "dispatched"] \/ cmds'[i] = cmds[i]
    BY <1>1 DEF Dispatch
  <2> QED
    BY <2>1, <2>2 DEF Command
<1>4. Logged
  BY <1>2, <1>3 DEF Logged
<1> QED
  BY <1>1, <1>2, <1>4, NobodyHome DEF Home, PassesCalm

LEMMA AgentHomeStep ==
    ASSUME QueueInv, Home, NEW n \in Node, AgentStep(n)
    PROVE  Home'
<1> DEFINE k == call[Ack(n)]
<1>1. CASE AgentPoll(n)
  BY <1>1, AgentPollHome
<1>2. CASE AgentTrack(n) \/ AgentUntrack(n)
  <2>1. /\ UNCHANGED <<row, cmds, batch, route>> /\ Step(Ack(n), "send") /\ IndInv
        /\ k.pc \in {"created", "stopped"}
    BY <1>2 DEF AgentTrack, AgentUntrack, At, db, QueueInv
  <2>2. Moved(Ack(n)) /\ call'[Ack(n)].pc = "send"
    BY <2>1, LoopSteps DEF Pc
  <2>3. AckHome(call[Ack(n)])'
    BY <2>2 DEF AckHome
  <2> QED
    BY <2>1, <2>2, <2>3, LoopOnHome
<1>3. ASSUME NEW i \in inbox[n], AgentStart(n, i) \/ AgentStop(n, i) \/ AgentRestart(n, i)
      PROVE  Home'
  <2>1. PICK pc \in {"created", "stopped", "send"}, ok \in BOOLEAN : Begin(n, i, pc, ok)
    BY <1>3 DEF AgentStart, AgentStop, AgentRestart
  <2>2. UNCHANGED <<row, cmds, batch, route>>
    BY <1>3 DEF AgentStart, AgentStop, AgentRestart, db
  <2>3. Moved(Ack(n)) /\ call'[Ack(n)].pc = pc /\ k.pc = "idle"
    BY <2>1, <2>2, BeginFacts
  <2>4. AckHome(call[Ack(n)])'
    BY <2>3 DEF AckHome
  <2> QED
    BY <2>2, <2>3, <2>4, LoopOnHome
<1> QED
  BY <1>1, <1>2, <1>3 DEF AgentStep

LEMMA LoopReturnsHome ==
    ASSUME QueueInv, Home, NEW n \in Node, Return(Ack(n)), UNCHANGED <<row, cmds, batch, route>>,
           call[Ack(n)].pc \notin {"ack_refetch", "ack_route"}
    PROVE  Home'
<1>1. Moved(Ack(n)) /\ call'[Ack(n)].pc = "idle"
  BY ReturnFacts, ProcFacts DEF QueueInv
<1>2. AckHome(call[Ack(n)])'
  BY <1>1 DEF AckHome
<1> QED
  BY <1>1, <1>2, LoopOnHome

\* The row of the sandbox, read by HandleAck.
LEMMA LoopRereads ==
    ASSUME IndInv, NEW n \in Node, NEW pc, NEW nxt,
           Become(Ack(n), Reading(pc, call[Ack(n)].sb, nxt, call[Ack(n)].cmd, call[Ack(n)].ok))
    PROVE  /\ call'[Ack(n)].node = row[call[Ack(n)].sb].node
           /\ call'[Ack(n)].cid = row[call[Ack(n)].sb].cid
<1>1. Ack(n) \in Proc /\ call \in [Proc -> Call]
  BY ProcFacts DEF IndInv, TypeOK
<1>2. PICK r : /\ r = Reading(pc, call[Ack(n)].sb, nxt, call[Ack(n)].cmd, call[Ack(n)].ok)
               /\ Become(Ack(n), r)
  OBVIOUS
<1>3. r.node = row[call[Ack(n)].sb].node /\ r.cid = row[call[Ack(n)].sb].cid
  BY <1>2 DEF Reading
<1>4. call'[Ack(n)] = r
  BY <1>1, <1>2 DEF Become
<1> QED
  BY <1>3, <1>4

LEMMA AckReadHome ==
    ASSUME QueueInv, Home, NEW n \in Node, AckRead(n) \/ AckReread(n)
    PROVE  Home'
<1> DEFINE k == call[Ack(n)]
<1>1. UNCHANGED <<row, cmds, batch, route>> /\ IndInv /\ k.pc \in {"send", "ack_reread"}
  BY DEF AckRead, AckReread, At, db, QueueInv
<1>2. CASE Return(Ack(n))
  BY <1>1, <1>2, LoopReturnsHome
<1>3. CASE Step(Ack(n), "ack_done")
  <2>1. Moved(Ack(n)) /\ call'[Ack(n)].pc = "ack_done"
    BY <1>1, <1>3, LoopSteps DEF Pc
  <2>2. AckHome(call[Ack(n)])'
    BY <2>1 DEF AckHome
  <2> QED
    BY <1>1, <2>1, <2>2, LoopOnHome
<1>4. ASSUME NEW nxt, NEW pc \in {"ack_cas", AfterTransition(nxt)},
             Become(Ack(n), Reading(pc, k.sb, nxt, k.cmd, k.ok))
      PROVE  Home'
  <2>1. Moved(Ack(n)) /\ call'[Ack(n)].pc = pc /\ call'[Ack(n)].nxt = nxt
    BY <1>1, <1>4, LoopReads
  <2>2. pc = "ack_cas" \/ (pc = "ack_persist" /\ nxt = "running") \/ (pc = "ack_route" /\ nxt # "running")
    BY <1>4 DEF AfterTransition
  <2>3. AckHome(call[Ack(n)])'
    BY <2>1, <2>2 DEF AckHome
  <2> QED
    BY <1>1, <2>1, <2>3, LoopOnHome
<1>5. CASE AckRead(n)
  <2>1. PICK ev, st :
           \/ Step(Ack(n), "ack_done") \/ Return(Ack(n))
           \/ \E to \in NextState(st, ev) :
                Become(Ack(n), Reading("ack_cas", k.sb, to, k.cmd, k.ok))
           \/ Become(Ack(n), Reading(AfterTransition(st), k.sb, st, k.cmd, k.ok))
    BY <1>5 DEF AckRead
  <2> QED
    BY <1>2, <1>3, <1>4, <2>1
<1>6. CASE AckReread(n)
  BY <1>2, <1>4, <1>6 DEF AckReread
<1> QED
  BY <1>5, <1>6

\* Command loop n writes the row of its sandbox.
LEMMA LoopSetsHome ==
    ASSUME QueueInv, Home, NEW n \in Node, Moved(Ack(n)), UNCHANGED <<cmds, batch, route>>,
           NEW s \in Sandbox, s = call[Ack(n)].sb, call[Ack(n)].pc \in {"ack_cas", "ack_reset"},
           \A t \in Sandbox : t # s => row'[t] = row[t],
           row'[s].node = row[s].node, row'[s].cid = row[s].cid, ~row'[s].idle,
           row'[s].state = row[s].state \/ row'[s].state \in {"running", "failed", "destroyed"},
           row[s].state \in Gone => row'[s].state \in Gone,
           AckHome(call[Ack(n)])'
    PROVE  Home'
<1>1. /\ Ack(n) \in Proc /\ Ack(n) # Reaper /\ Ack(n) # Monitor
      /\ \A c \in Client : Ack(n) # Api(c)
      /\ \A m \in Node : Ack(n) # Evt(m) /\ (Ack(n) = Ack(m) => n = m)
  BY ProcFacts
<1>2. s \in Refs /\ s \in Refs' /\ row[s].node = n
  BY LoopHome DEF Refs
<1>3. Exists(s) /\ Exists(s)' /\ RowHome(s)
  BY <1>2, NamedHome DEF Exists, QueueInv, Home, RowsHome
<1>4. RowHome(s)'
  BY <1>2, <1>3 DEF RowHome
<1> QED
  BY <1>1, <1>3, <1>4, SetHome

LEMMA AckCasHome ==
    ASSUME QueueInv, Home, NEW n \in Node, AckCas(n)
    PROVE  Home'
<1> DEFINE k == call[Ack(n)]
<1>1. UNCHANGED <<cmds, batch, route>> /\ IndInv /\ k.pc = "ack_cas"
  BY DEF AckCas, At, QueueInv
<1>2. PICK s \in Sandbox : s = k.sb
  BY <1>1, LoopHome
<1>3. <<k.st, k.nxt>> \in AckEdge
  BY <1>1 DEF IndInv, AckInv, AckOK
<1>4. CASE Step(Ack(n), "ack_reread") /\ UNCHANGED row
  <2>1. Moved(Ack(n)) /\ call'[Ack(n)].pc = "ack_reread"
    BY <1>1, <1>4, LoopSteps DEF Pc
  <2>2. AckHome(call[Ack(n)])'
    BY <2>1 DEF AckHome
  <2> QED
    BY <1>1, <1>4, <2>1, <2>2, LoopOnHome
<1>5. CASE StateIs(k.sb, k.st) /\ SetState(k.sb, k.nxt) /\ Step(Ack(n), AfterTransition(k.nxt))
  <2>1. PICK pc \in {"ack_persist", "ack_route"} : pc = AfterTransition(k.nxt)
    BY DEF AfterTransition
  <2>2. Moved(Ack(n)) /\ call'[Ack(n)].pc = pc /\ call'[Ack(n)].nxt = k.nxt
    BY <1>1, <1>5, <2>1, LoopSteps DEF Pc
  <2>3. AckHome(call[Ack(n)])'
    BY <2>1, <2>2 DEF AckHome, AfterTransition
  <2>4. /\ row'[s].state = k.nxt /\ row'[s].node = row[s].node /\ row'[s].cid = row[s].cid
        /\ ~row'[s].idle /\ row[s].state = k.st /\ \A t \in Sandbox : t # s => row'[t] = row[t]
    BY <1>1, <1>2, <1>5 DEF IndInv, TypeOK, SetState, StateIs, Row, Home, PassesCalm
  <2>5. k.nxt \in {"running", "failed", "destroyed"} /\ (k.st \in Gone => k.nxt \in Gone)
    BY <1>3 DEF AckEdge, Gone
  <2> QED
    BY <1>1, <1>2, <2>2, <2>3, <2>4, <2>5, LoopSetsHome
<1> QED
  BY <1>4, <1>5 DEF AckCas

LEMMA AckResetHome ==
    ASSUME QueueInv, Home, NEW n \in Node, AckReset(n)
    PROVE  Home'
<1> DEFINE k == call[Ack(n)]
<1>1. /\ UNCHANGED <<cmds, batch, route>> /\ IndInv /\ k.pc = "ack_reset"
      /\ row' = [row EXCEPT ![k.sb].fails = 0] /\ Step(Ack(n), "ack_done")
  BY DEF AckReset, At, QueueInv
<1>2. PICK s \in Sandbox : s = k.sb
  BY <1>1, LoopHome
<1>3. Moved(Ack(n)) /\ call'[Ack(n)].pc = "ack_done"
  BY <1>1, LoopSteps DEF Pc
<1>4. AckHome(call[Ack(n)])'
  BY <1>3 DEF AckHome
<1>5. /\ row'[s].state = row[s].state /\ row'[s].node = row[s].node /\ row'[s].cid = row[s].cid
      /\ ~row'[s].idle /\ \A t \in Sandbox : t # s => row'[t] = row[t]
  BY <1>1, <1>2 DEF IndInv, TypeOK, Row, Home, PassesCalm
<1> QED
  BY <1>1, <1>2, <1>3, <1>4, <1>5, LoopSetsHome

\* The container is stored: until the route follows, the ack is Storing.
LEMMA AckPersistHome ==
    ASSUME QueueInv, Home, NEW n \in Node, AckPersist(n)
    PROVE  Home'
<1> DEFINE k == call[Ack(n)]
<1>1. /\ UNCHANGED <<cmds, batch, route>> /\ IndInv /\ k.pc = "ack_persist"
      /\ row' = [row EXCEPT ![k.sb].cid = k.cmd] /\ Step(Ack(n), "ack_refetch")
  BY DEF AckPersist, At, QueueInv
<1>2. PICK s \in Sandbox : /\ s = k.sb /\ s \in Refs /\ row[s].node = n /\ k.cmd \in 1..Len(cmds)
                           /\ k.nxt = "running"
  BY <1>1, LoopHome DEF Home, CallsHome, AckHome
<1>3. /\ Moved(Ack(n)) /\ call'[Ack(n)].pc = "ack_refetch" /\ call'[Ack(n)].nxt = "running"
      /\ call'[Ack(n)].sb = s
  BY <1>1, <1>2, LoopSteps DEF Pc
<1>4. /\ row'[s].state = row[s].state /\ row'[s].node = row[s].node /\ row'[s].cid = k.cmd
      /\ ~row'[s].idle /\ \A t \in Sandbox : t # s => row'[t] = row[t]
  BY <1>1, <1>2 DEF IndInv, TypeOK, Row, Home, PassesCalm
<1>5. k.cmd # 0
  BY <1>1, <1>2 DEF IndInv, TypeOK
<1>6. AckHome(call[Ack(n)])' /\ Storing(s)'
  BY <1>3, <1>4, <1>5 DEF AckHome, Storing
<1>7. Logged /\ Refs \subseteq Refs' /\ RowsStay /\ CidStays(Ack(n))
  <2>1. RowsStay /\ CidStays(Ack(n))
    BY <1>2, <1>4 DEF RowsStay, CidStays, Exists
  <2> QED
    BY <1>1, <2>1, SameLog, NamedStay
<1>8. CmdsHome'
  BY <1>1, <1>7, CmdsStay
<1>9. RowsHome'
  BY <1>4, <1>7 DEF Home, RowsHome, RowHome, OneOfApp, Exists
<1>10. RoutesHome'
  <2> SUFFICES ASSUME NEW a \in App, route'[a] # NoRoute
               PROVE  \E t \in Refs' : AppOf[t] = a /\ Routed(t)'
    BY DEF RoutesHome
  <2>1. PICK t \in Refs : AppOf[t] = a /\ Routed(t)
    BY <1>1 DEF Home, RoutesHome
  <2>2. t \in Sandbox
    BY <1>1, NamedHome
  <2>3. CASE t = s
    BY <1>6, <1>7, <2>1, <2>3 DEF Routed
  <2>4. CASE t # s
    <3>1. row'[t] = row[t] /\ (Storing(t) => Storing(t)')
      <4>1. \A m \in Node : Ack(n) = Ack(m) => n = m
        BY ProcFacts
      <4> QED
        BY <1>1, <1>3, <1>4, <2>2, <2>4, <4>1, OthersStoring, ProcFacts
    <3> QED
      BY <1>1, <1>7, <2>1, <3>1 DEF Routed
  <2> QED
    BY <2>3, <2>4
<1>11. \A t \in Sandbox : ~row'[t].idle
  BY <1>4 DEF Home, PassesCalm
<1>12. call'[Reaper].pc = "idle" /\ call'[Monitor].pc = "idle"
  BY <1>3, ProcFacts DEF Home, PassesCalm, Moved
<1> QED
  BY <1>1, <1>3, <1>6, <1>7, <1>8, <1>9, <1>10, <1>11, <1>12, HomeFrame, ProcFacts

LEMMA AckRefetchHome ==
    ASSUME QueueInv, Home, NEW n \in Node, AckRefetch(n)
    PROVE  Home'
<1> DEFINE k == call[Ack(n)]
<1>1. /\ UNCHANGED <<row, cmds, batch, route>> /\ IndInv /\ k.pc = "ack_refetch"
      /\ Become(Ack(n), Reading("ack_route", k.sb, k.nxt, k.cmd, k.ok))
  BY DEF AckRefetch, At, db, QueueInv
<1>2. AckHome(k)
  BY DEF Home, CallsHome
<1>3. PICK s : s = k.sb
  OBVIOUS
<1>4. /\ Moved(Ack(n)) /\ call'[Ack(n)].pc = "ack_route" /\ call'[Ack(n)].nxt = k.nxt
      /\ call'[Ack(n)].sb = s /\ call'[Ack(n)].node = row[s].node /\ call'[Ack(n)].cid = row[s].cid
  <2>1. /\ Moved(Ack(n)) /\ call'[Ack(n)].pc = "ack_route" /\ call'[Ack(n)].nxt = k.nxt
        /\ call'[Ack(n)].sb = k.sb
    BY <1>1, LoopReads
  <2>2. call'[Ack(n)].node = row[k.sb].node /\ call'[Ack(n)].cid = row[k.sb].cid
    BY <1>1, LoopRereads
  <2> QED
    BY <1>3, <2>1, <2>2
<1>5. AckHome(call[Ack(n)])'
  BY <1>1, <1>2, <1>3, <1>4 DEF AckHome
<1> QED
  BY <1>1, <1>3, <1>4, <1>5, LoopOnHome

\* The route of the app becomes what the row says.
LEMMA AckRouteHome ==
    ASSUME QueueInv, Home, NEW n \in Node, AckRoute(n)
    PROVE  Home'
<1> DEFINE k == call[Ack(n)]
<1>1. UNCHANGED <<row, cmds, batch>> /\ IndInv /\ k.pc = "ack_route"
  BY DEF AckRoute, At, db, QueueInv
<1>2. PICK pc \in {"ack_reset", "ack_done"} : Step(Ack(n), pc)
  BY DEF AckRoute
<1>3. Moved(Ack(n)) /\ call'[Ack(n)].pc = pc
  BY <1>1, <1>2, LoopSteps DEF Pc
<1>4. AckHome(call[Ack(n)])' /\ AckHome(k)
  BY <1>3 DEF AckHome, Home, CallsHome
<1>5. PICK s \in Sandbox : s = k.sb /\ s \in Refs /\ row[s].node = n
  BY <1>1, LoopHome
<1>6. route \in [App -> [node : Node \cup {NoNode}, cid : Cid]] /\ AppOf[s] \in App
  BY <1>1, ConstantsAssumption DEF IndInv, TypeOK
<1>7. CASE k.nxt # "running"
  <2>1. route' = [route EXCEPT ![AppOf[s]] = NoRoute] \/ route' = route
    BY <1>5, <1>7 DEF AckRoute
  <2>2. \A a \in App : route'[a] \in {route[a], NoRoute}
    BY <1>6, <2>1
  <2> QED
    BY <1>1, <1>3, <1>4, <1>7, <2>2, LoopOnHome
<1>8. CASE k.nxt = "running"
  <2>1. k.node = row[s].node /\ k.cid = row[s].cid /\ k.cid # 0 /\ k.node # NoNode
    BY <1>1, <1>4, <1>5, <1>8, ConstantsAssumption DEF AckHome
  <2>2. route' = [route EXCEPT ![AppOf[s]] = [node |-> k.node, cid |-> k.cid]]
    BY <1>5, <1>8, <2>1 DEF AckRoute
  <2>3. /\ route'[AppOf[s]] = [node |-> row[s].node, cid |-> row[s].cid]
        /\ \A a \in App : a # AppOf[s] => route'[a] = route[a]
    BY <1>6, <2>1, <2>2
  <2>4. Logged /\ Refs \subseteq Refs' /\ RowsStay /\ CidStays(Ack(n))
    BY <1>1, SameLog, SameStay, NamedStay
  <2>5. RowsHome' /\ CmdsHome'
    BY <1>1, <2>4, RowsKept, CmdsStay DEF Home
  <2>6. RoutesHome'
    <3> SUFFICES ASSUME NEW a \in App, route'[a] # NoRoute
                 PROVE  \E t \in Refs' : AppOf[t] = a /\ Routed(t)'
      BY DEF RoutesHome
    <3>1. CASE a = AppOf[s]
      BY <1>1, <1>5, <2>3, <2>4, <3>1 DEF Routed
    <3>2. CASE a # AppOf[s]
      <4>1. PICK t \in Refs : AppOf[t] = a /\ Routed(t)
        BY <2>3, <3>2 DEF Home, RoutesHome
      <4>2. Storing(t) => Storing(t)'
        <5>1. \A m \in Node : m # n => call'[Ack(m)] = call[Ack(m)]
          BY <1>3, ProcFacts DEF Moved
        <5> QED
          BY <1>5, <3>2, <4>1, <5>1 DEF Storing
      <4> QED
        BY <1>1, <2>3, <2>4, <3>2, <4>1, <4>2 DEF Routed
    <3> QED
      BY <3>1, <3>2
  <2>7. call'[Reaper].pc = "idle" /\ call'[Monitor].pc = "idle" /\ \A t \in Sandbox : ~row'[t].idle
    BY <1>1, <1>3, ProcFacts DEF Home, PassesCalm, Moved
  <2> QED
    BY <1>1, <1>3, <1>4, <2>4, <2>5, <2>6, <2>7, HomeFrame, ProcFacts
<1> QED
  BY <1>7, <1>8

LEMMA AckDoneHome ==
    ASSUME QueueInv, Home, NEW n \in Node, AckDone(n)
    PROVE  Home'
<1> DEFINE k == call[Ack(n)]
<1>1. UNCHANGED <<row, batch, route>> /\ k.pc = "ack_done" /\ Return(Ack(n)) /\ IndInv
  BY DEF AckDone, At, QueueInv
<1>2. PICK st \in {"completed", "failed"} : cmds' = [cmds EXCEPT ![k.cmd].status = st]
  BY DEF AckDone
<1>3. k.cmd \in 1..Len(cmds) /\ cmds[k.cmd] \in Command
  BY <1>1, AckFacts
<1>4. Len(cmds) \in Nat /\ Len(cmds') = Len(cmds)
  BY <1>1, <1>2, <1>3 DEF IndInv, TypeOK
<1>5. ASSUME NEW i \in 1..Len(cmds)
      PROVE  /\ cmds'[i].sb = cmds[i].sb /\ cmds'[i].node = cmds[i].node
             /\ cmds'[i].type = cmds[i].type
  <2>1. CASE i # k.cmd
    <3>1. cmds'[i] = cmds[i]
      BY <1>1, <1>2, <1>3, <2>1 DEF IndInv, TypeOK
    <3> QED
      BY <3>1
  <2>2. CASE i = k.cmd
    <3>1. cmds'[i] = [cmds[i] EXCEPT !.status = st]
      BY <1>1, <1>2, <1>3, <2>2 DEF IndInv, TypeOK
    <3> QED
      BY <1>3, <2>2, <3>1 DEF Command
  <2> QED
    BY <2>1, <2>2
<1>6. Logged
  BY <1>4, <1>5 DEF Logged
<1>7. Refs \subseteq Refs' /\ RowsStay /\ CidStays(Ack(n))
  BY <1>1, <1>6, SameStay, NamedStay
<1>8. RowsHome' /\ CmdsHome'
  BY <1>1, <1>4, <1>6, <1>7, RowsKept, CmdsStay DEF Home
<1>9. Moved(Ack(n)) /\ call'[Ack(n)].pc = "idle"
  BY <1>1, ReturnFacts, ProcFacts
<1>10. AckHome(call[Ack(n)])'
  BY <1>9 DEF AckHome
<1>11. \A m \in Node : Ack(n) = Ack(m) => n = m
  BY ProcFacts
<1>12. RoutesHome'
  BY <1>1, <1>7, <1>9, <1>11, RoutesStay, OthersStoring, ProcFacts
<1>13. call'[Reaper].pc = "idle" /\ call'[Monitor].pc = "idle" /\ \A t \in Sandbox : ~row'[t].idle
  BY <1>1, <1>9, ProcFacts DEF Home, PassesCalm, Moved
<1> QED
  BY <1>1, <1>7, <1>8, <1>9, <1>10, <1>12, <1>13, HomeFrame, ProcFacts

LEMMA AckHomeStep ==
    ASSUME QueueInv, Home, NEW n \in Node, HandleAck(n)
    PROVE  Home'
  BY AckReadHome, AckCasHome, AckPersistHome, AckRefetchHome, AckRouteHome, AckResetHome,
     AckDoneHome DEF HandleAck

-----------------------------------------------------------------------------
(* The event handlers, the background passes and the environment. *)

\* The event handler of n goes on.
LEMMA EvtOnHome ==
    ASSUME QueueInv, Home, NEW n \in Node, Moved(Evt(n)), UNCHANGED <<row, cmds, batch>>,
           \A a \in App : route'[a] \in {route[a], NoRoute}, EvtHome(call[Evt(n)])'
    PROVE  Home'
<1>1. /\ Evt(n) \in Proc /\ Evt(n) # Reaper /\ Evt(n) # Monitor
      /\ \A c \in Client : Evt(n) # Api(c)
      /\ \A m \in Node : Evt(n) # Ack(m) /\ (Evt(n) = Evt(m) => n = m)
  BY ProcFacts
<1> QED
  BY <1>1, CallHome

\* The event handler of n writes the row of its sandbox.
LEMMA EvtSetsHome ==
    ASSUME QueueInv, Home, NEW n \in Node, Moved(Evt(n)), UNCHANGED <<cmds, batch, route>>,
           NEW s \in Sandbox, s = call[Evt(n)].sb, call[Evt(n)].pc # "idle",
           \A t \in Sandbox : t # s => row'[t] = row[t],
           row'[s].node = row[s].node, row'[s].cid = row[s].cid, ~row'[s].idle,
           \/ row'[s].state = row[s].state
           \/ /\ row[s].state \notin Gone
              /\ row'[s].state \in {"running", "failed", "restarting", "starting"},
           call'[Evt(n)].pc = "idle"
               \/ (call'[Evt(n)].sb = s /\ call'[Evt(n)].node = call[Evt(n)].node)
    PROVE  Home'
<1>1. /\ Evt(n) \in Proc /\ Evt(n) # Reaper /\ Evt(n) # Monitor
      /\ \A c \in Client : Evt(n) # Api(c)
      /\ \A m \in Node : Evt(n) # Ack(m) /\ (Evt(n) = Evt(m) => n = m)
  BY ProcFacts
<1>2. s \in Refs /\ s \in Refs' /\ IndInv
  BY DEF QueueInv, IndInv, EvtInv, EvtOK, Refs
<1>3. Exists(s) /\ Exists(s)' /\ RowHome(s) /\ EvtHome(call[Evt(n)])
  BY <1>2, NamedHome DEF Exists, Home, RowsHome, CallsHome
<1>4. RowHome(s)'
  BY <1>2, <1>3 DEF RowHome
<1>5. EvtHome(call[Evt(n)])'
  BY <1>3 DEF EvtHome
<1> QED
  BY <1>1, <1>3, <1>4, <1>5, SetHome

LEMMA EvtReturnsHome ==
    ASSUME QueueInv, Home, NEW n \in Node, Return(Evt(n)), UNCHANGED <<row, cmds, batch, route>>
    PROVE  Home'
<1>1. Moved(Evt(n)) /\ call'[Evt(n)].pc = "idle"
  BY ReturnFacts, ProcFacts DEF QueueInv
<1>2. EvtHome(call[Evt(n)])'
  BY <1>1 DEF EvtHome
<1> QED
  BY <1>1, <1>2, EvtOnHome

LEMMA NothingHome ==
    ASSUME QueueInv, Home, UNCHANGED <<row, cmds, call, batch, route>>
    PROVE  Home'
  BY SameLog, NobodyHome DEF QueueInv, Home, PassesCalm

LEMMA EventReadHome ==
    ASSUME QueueInv, Home, NEW n \in Node, EventRead(n)
    PROVE  Home'
<1>1. UNCHANGED <<row, cmds, batch, route>> /\ IndInv /\ Evt(n) \in Proc
  BY ProcFacts DEF EventRead, db, QueueInv
<1>2. CASE UNCHANGED call
  BY <1>1, <1>2, NothingHome
<1>3. ASSUME NEW s \in tracked[n], NEW to \in State, Become(Evt(n), ReadRow("event_cas", s, to))
      PROVE  Home'
  <2>1. s \in Sandbox
    BY <1>1 DEF IndInv, TypeOK
  <2>2. Moved(Evt(n)) /\ call'[Evt(n)].sb = s /\ call'[Evt(n)].node = row[s].node
    BY <1>1, <1>3, <2>1, ReadRowFacts
  <2>3. EvtHome(call[Evt(n)])'
    BY <1>1, <2>2 DEF EvtHome
  <2> QED
    BY <1>1, <2>2, <2>3, EvtOnHome
<1>4. \/ UNCHANGED call
      \/ \E s \in tracked[n], to \in State : Become(Evt(n), ReadRow("event_cas", s, to))
  BY DEF EventRead, NextState
<1> QED
  BY <1>2, <1>3, <1>4

\* The three compare-and-sets of HandleEvent and HandleCrash, and the count.
LEMMA EventSetsHome ==
    ASSUME QueueInv, Home, NEW n \in Node,
           EventCas(n) \/ CrashInc(n) \/ CrashFail(n) \/ CrashCas(n)
    PROVE  Home'
<1> DEFINE k == call[Evt(n)]
<1>1. /\ UNCHANGED <<cmds, batch, route>> /\ IndInv /\ Evt(n) \in Proc
      /\ k.pc \in {"event_cas", "crash_inc", "crash_fail", "crash_cas"}
  BY ProcFacts DEF EventCas, CrashInc, CrashFail, CrashCas, At, QueueInv
<1>2. PICK s \in Sandbox : s = k.sb
  BY <1>1 DEF IndInv, EvtInv, EvtOK
<1>3. EvtOK(n, k)
  BY <1>1 DEF IndInv, EvtInv
<1>4. CASE UNCHANGED row /\ Return(Evt(n))
  BY <1>1, <1>4, EvtReturnsHome
<1>5. (\E pc \in Pc : Step(Evt(n), pc)) \/ Return(Evt(n))
  BY DEF EventCas, CrashInc, CrashFail, CrashCas, Pc
<1>6. /\ Moved(Evt(n))
      /\ \/ call'[Evt(n)].pc = "idle"
         \/ call'[Evt(n)].sb = s /\ call'[Evt(n)].node = k.node
  BY <1>1, <1>2, <1>5, StepFacts, ReturnFacts
<1>7. row \in [Sandbox -> Row] /\ ~row[s].idle
  BY <1>1 DEF IndInv, TypeOK, Home, PassesCalm
<1>8. CASE CrashInc(n)
  <2>1. row' = [row EXCEPT ![s].fails = @ + 1]
    BY <1>2, <1>8 DEF CrashInc
  <2>2. /\ row'[s].state = row[s].state /\ row'[s].node = row[s].node /\ row'[s].cid = row[s].cid
        /\ ~row'[s].idle /\ \A t \in Sandbox : t # s => row'[t] = row[t]
    BY <1>7, <2>1 DEF Row
  <2> QED
    BY <1>1, <1>2, <1>6, <2>2, EvtSetsHome
<1>9. ASSUME NEW to \in {"running", "failed", "restarting", "starting"}, SetState(s, to),
             row[s].state \notin Gone
      PROVE  Home'
  <2>1. /\ row'[s].state = to /\ row'[s].node = row[s].node /\ row'[s].cid = row[s].cid
        /\ ~row'[s].idle /\ \A t \in Sandbox : t # s => row'[t] = row[t]
    BY <1>7, <1>9 DEF Row, SetState
  <2> QED
    BY <1>1, <1>2, <1>6, <1>9, <2>1, EvtSetsHome
<1>10. CASE EventCas(n) /\ ~UNCHANGED row
  <2>1. SetState(s, k.nxt) /\ row[s].state = k.st /\ k.pc = "event_cas"
    BY <1>2, <1>10 DEF EventCas, StateIs, At
  <2>2. k.nxt \in {"running", "failed", "restarting", "starting"} /\ k.st \notin Gone
    BY <1>3, <2>1 DEF EvtOK, EventEdge, Gone
  <2> QED
    BY <1>9, <2>1, <2>2
<1>11. CASE CrashFail(n) /\ ~UNCHANGED row
  <2>1. SetState(s, "failed") /\ row[s].state = k.st /\ k.pc = "crash_fail"
    BY <1>2, <1>11 DEF CrashFail, StateIs, SetState, At
  <2>2. k.st \notin Gone
    BY <1>3, <2>1 DEF EvtOK, CrashPc, Gone
  <2> QED
    BY <1>9, <2>1, <2>2
<1>12. CASE CrashCas(n) /\ ~UNCHANGED row
  <2>1. SetState(s, "starting") /\ row[s].state = "restarting"
    BY <1>2, <1>12 DEF CrashCas, StateIs
  <2> QED
    BY <1>9, <2>1 DEF Gone
<1>13. CASE UNCHANGED row /\ ~CrashInc(n)
  <2>1. CASE Return(Evt(n))
    BY <1>4, <1>13, <2>1
  <2>2. CASE ~Return(Evt(n))
    <3>1. /\ row'[s].state = row[s].state /\ row'[s].node = row[s].node
          /\ row'[s].cid = row[s].cid /\ ~row'[s].idle
      BY <1>7, <1>13
    <3> QED
      BY <1>1, <1>2, <1>6, <1>13, <3>1, EvtSetsHome
  <2> QED
    BY <2>1, <2>2
<1> QED
  BY <1>8, <1>10, <1>11, <1>12, <1>13

LEMMA EventHomeStep ==
    ASSUME QueueInv, Home, NEW n \in Node, HandleEvent(n)
    PROVE  Home'
<1> DEFINE k == call[Evt(n)]
<1>1. IndInv /\ Evt(n) \in Proc /\ EvtOK(n, k) /\ EvtHome(k)
  BY ProcFacts DEF QueueInv, IndInv, EvtInv, Home, CallsHome
<1>2. CASE EventRoute(n)
  <2>1. /\ UNCHANGED <<row, cmds, batch>> /\ Step(Evt(n), "crash_inc") /\ k.pc = "event_route"
        /\ route' = [route EXCEPT ![AppOf[k.sb]] = NoRoute]
    BY <1>2 DEF EventRoute, At, db
  <2>2. PICK s \in Sandbox : s = k.sb
    BY <1>1, <2>1 DEF EvtOK
  <2>3. Moved(Evt(n)) /\ call'[Evt(n)].sb = s /\ call'[Evt(n)].node = k.node
    BY <1>1, <2>1, <2>2, StepFacts DEF Pc
  <2>4. EvtHome(call[Evt(n)])'
    BY <1>1, <2>1, <2>2, <2>3 DEF EvtHome
  <2>5. \A a \in App : route'[a] \in {route[a], NoRoute}
    BY <1>1, <2>1 DEF IndInv, TypeOK
  <2> QED
    BY <2>1, <2>3, <2>4, <2>5, EvtOnHome
<1>3. CASE CrashCmd(n)
  <2>1. /\ UNCHANGED <<row, inbox, batch, route>> /\ Return(Evt(n)) /\ k.pc = "crash_cmd"
        /\ CreateCommand("start_sandbox", k.sb, k.node, 0)
    BY <1>3 DEF CrashCmd, At, agents
  <2>2. PICK s \in Sandbox, m \in Node : s = k.sb /\ m = k.node /\ row[s].node = m
    BY <1>1, <2>1 DEF EvtOK, EvtHome
  <2>3. InsertCommand("start_sandbox", s, m, 0)
    BY <1>1, <2>1, <2>2, NodeExists, Inserts
  <2> QED
    BY <1>1, <2>1, <2>2, <2>3, IssueHome, ProcFacts
<1> QED
  BY <1>2, <1>3, EventReadHome, EventSetsHome DEF HandleEvent

\* The reaper and the rescheduler have nothing to list and nothing to visit.
LEMMA PassesRest ==
    ASSUME Home
    PROVE  ~ReaperStep /\ ~Reschedule
<1>1. /\ call[Reaper].pc = "idle" /\ call[Monitor].pc = "idle"
      /\ batch[Reaper] = {} /\ batch[Monitor] = {} /\ \A s \in Sandbox : ~row[s].idle
  BY DEF Home, PassesCalm
<1>2. ~ReapList
  BY <1>1 DEF ReapList
<1>3. ~ReapCmd /\ ~ReapRoute
  BY <1>1 DEF ReapCmd, ReapRoute, At
<1>4. ~MoveList /\ ~MoveRoute /\ ~MoveReset /\ ~MoveSchedule /\ ~MoveFail /\ ~MoveAssign /\ ~MoveCmd
  BY <1>1 DEF MoveList, MoveRoute, MoveReset, MoveSchedule, MoveFail, MoveAssign, MoveCmd, At
<1> QED
  BY <1>1, <1>2, <1>3, <1>4 DEF ReaperStep, Reschedule

LEMMA FilePushHome ==
    ASSUME QueueInv, Home, NEW s \in Sandbox, FilePush(s)
    PROVE  Home'
<1>1. UNCHANGED <<cmds, call, batch, route>> /\ row' = [row EXCEPT ![s].idle = FALSE] /\ IndInv
  BY DEF FilePush, QueueInv
<1>2. row \in [Sandbox -> Row]
  BY <1>1 DEF IndInv, TypeOK
<1>3. \A t \in Sandbox : /\ row'[t].state = row[t].state /\ row'[t].node = row[t].node
                         /\ row'[t].cid = row[t].cid /\ ~row'[t].idle
  BY <1>1, <1>2 DEF Home, PassesCalm, Row
<1> QED
  BY <1>1, <1>3, SameLog, NobodyHome

-----------------------------------------------------------------------------
(* What holds without timeouts and faults. *)

HomeInv == QueueInv /\ (Steady => Home)

LEMMA StaysUnsteady ==
    ASSUME IndInv, [Next]_vars, Steady'
    PROVE  /\ Steady /\ ~Fault
           /\ ~\E s \in Sandbox : GoesIdle(s)
           /\ ~\E n \in Node : MonitorMark(n)
<1> DEFINE Same == UNCHANGED <<timeouts, faults>>
<1>1. timeouts \in Nat /\ faults \in Nat
  BY ConstantsAssumption DEF IndInv, TypeOK
<1>2. ~Fault
  BY FaultCounts DEF Steady
<1>3. ASSUME NEW n \in Node, NEW a \in App, ContainerExits(n, a) PROVE Same
  BY <1>3 DEF ContainerExits
<1>4. ASSUME NEW s \in Sandbox, GoesIdle(s) PROVE FALSE
  <2>1. timeouts' = timeouts + 1
    BY <1>4 DEF GoesIdle
  <2> QED
    BY <1>1, <2>1 DEF Steady
<1>5. ASSUME NEW n \in Node, MonitorMark(n) PROVE FALSE
  <2>1. timeouts' = timeouts + 1
    BY <1>5 DEF MonitorMark
  <2> QED
    BY <1>1, <2>1 DEF Steady
<1>6. ASSUME NEW c \in Client, ApiStep(c) \/ \E s \in Sandbox : ApiRequest(c, s) PROVE Same
  BY <1>6 DEF counts, ApiStep, ApiRequest, CreateRecycle, CreateInsert, CreateSchedule,
              CreateAssign, StartCmd, DestroyCas, StopCmd, WakeCas, RestartCmd, CreateLookup,
              DestroyRead, WakeRead, RestartRead
<1>7. ASSUME NEW n \in Node, AgentStep(n) PROVE Same
  BY <1>7 DEF counts, AgentStep, AgentPoll, AgentTrack, AgentUntrack, AgentStart,
              AgentStop, AgentRestart
<1>8. ASSUME NEW n \in Node, HandleAck(n) PROVE Same
  BY <1>8 DEF counts, HandleAck, AckRead, AckCas, AckReread, AckPersist, AckRefetch,
              AckRoute, AckReset, AckDone
<1>9. ASSUME NEW n \in Node, HandleEvent(n) PROVE Same
  BY <1>9 DEF counts, HandleEvent, EventRead, EventCas, EventRoute, CrashInc, CrashFail,
              CrashCas, CrashCmd
<1>10. ASSUME ReaperStep PROVE Same
  BY <1>10 DEF counts, ReaperStep, ReapList, ReapCas, ReapCmd, ReapRoute
<1>11. ASSUME Reschedule PROVE Same
  BY <1>11 DEF counts, Reschedule, MoveList, MoveCas, MoveRoute, MoveReset, MoveSchedule,
               MoveFail, MoveAssign, MoveCmd
<1>12. ASSUME NEW n \in Node, Heartbeat(n) PROVE Same
  BY <1>12 DEF counts, Heartbeat
<1>13. ASSUME NEW s \in Sandbox, FilePush(s) PROVE Same
  BY <1>13 DEF counts, FilePush
<1>14. ASSUME UNCHANGED vars PROVE Same
  BY <1>14 DEF vars
<1>15. Same
  BY <1>2, <1>3, <1>4, <1>5, <1>6, <1>7, <1>8, <1>9, <1>10, <1>11, <1>12, <1>13, <1>14
     DEF Next, Environment
<1> QED
  BY <1>2, <1>4, <1>5, <1>15 DEF Steady

LEMMA HomeInit == Init => HomeInv
<1> SUFFICES ASSUME Init PROVE Home
  BY QueueInit DEF HomeInv
<1>1. /\ \A s \in Sandbox : row[s].state = "absent" /\ row[s].node = NoNode /\ ~row[s].idle
      /\ Len(cmds) = 0 /\ 1..Len(cmds) = {}
  BY DEF Init
<1>2. \A p \in Proc : call[p].pc = "idle"
  BY DEF Init, Idle, Begun
<1>3. batch[Reaper] = {} /\ batch[Monitor] = {} /\ \A a \in App : route[a] = NoRoute
  BY DEF Init
<1>4. PassesCalm
  BY <1>1, <1>2, <1>3, ProcFacts DEF PassesCalm
<1>5. RowsHome
  BY <1>1, ConstantsAssumption DEF RowsHome, OneOfApp, RowHome, Exists
<1>6. CmdsHome /\ RoutesHome
  BY <1>1, <1>3 DEF CmdsHome, RoutesHome
<1>7. CallsHome
  BY <1>2, ProcFacts DEF CallsHome, ApiHome, EvtHome, AckHome
<1> QED
  BY <1>4, <1>5, <1>6, <1>7 DEF Home

LEMMA HomeStep ==
    ASSUME HomeInv, [Next]_vars
    PROVE  HomeInv'
<1>1. QueueInv /\ IndInv /\ QueueInv'
  BY QueueStep DEF HomeInv, QueueInv
<1> SUFFICES ASSUME Steady' PROVE Home'
  BY <1>1 DEF HomeInv
<1>2. Home /\ ~Fault
  BY <1>1, StaysUnsteady DEF HomeInv
<1>3. ASSUME NEW c \in Client, ApiStep(c) \/ \E s \in Sandbox : ApiRequest(c, s) PROVE Home'
  BY <1>1, <1>2, <1>3, ApiHomeStep
<1>4. ASSUME NEW n \in Node, AgentStep(n) \/ HandleAck(n) \/ HandleEvent(n) PROVE Home'
  BY <1>1, <1>2, <1>4, AgentHomeStep, AckHomeStep, EventHomeStep
<1>5. ~ReaperStep /\ ~Reschedule
  BY <1>2, PassesRest
<1>6. ASSUME Environment PROVE Home'
  <2>1. \/ \E n \in Node : Heartbeat(n)
        \/ \E n \in Node, a \in App : ContainerExits(n, a)
        \/ \E s \in Sandbox : FilePush(s)
    BY <1>1, <1>6, StaysUnsteady DEF Environment
  <2>2. ASSUME NEW n \in Node, Heartbeat(n) PROVE Home'
    BY <1>1, <1>2, <2>2, NothingHome DEF Heartbeat
  <2>3. ASSUME NEW n \in Node, NEW a \in App, ContainerExits(n, a) PROVE Home'
    BY <1>1, <1>2, <2>3, NothingHome DEF ContainerExits, db
  <2> QED
    BY <1>1, <1>2, <2>1, <2>2, <2>3, FilePushHome
<1>7. ASSUME UNCHANGED vars PROVE Home'
  BY <1>1, <1>2, <1>7, NothingHome DEF vars
<1> QED
  BY <1>2, <1>3, <1>4, <1>5, <1>6, <1>7 DEF Next

LEMMA HomeSuffices ==
    ASSUME HomeInv
    PROVE  Steady => UpstreamIsCurrent
<1> SUFFICES ASSUME Steady, Quiet, NEW s \in Sandbox, row[s].state = "running",
                    route[AppOf[s]] # NoRoute
             PROVE  route[AppOf[s]] = [node |-> row[s].node, cid |-> row[s].cid]
  BY DEF UpstreamIsCurrent
<1>1. Home /\ IndInv /\ AppOf[s] \in App
  BY ConstantsAssumption DEF HomeInv, QueueInv
<1>2. PICK t \in Refs : AppOf[t] = AppOf[s] /\ Routed(t)
  BY <1>1 DEF Home, RoutesHome
<1>3. t = s
  BY <1>1, <1>2, NamedHome DEF Exists
<1>4. ~Storing(s)
  BY ProcFacts DEF Storing, Quiet
<1> QED
  BY <1>2, <1>3, <1>4 DEF Routed

\* Without timeouts and faults, whatever containers crash and restart and however
\* the acks overlap: once all is quiet, the route of a running sandbox is the node
\* and the port HandleAck stored in its row.
THEOREM RouteIsCurrent == Spec => [](Steady => UpstreamIsCurrent)
<1>1. HomeInv /\ [Next]_vars => HomeInv'
  BY HomeStep
<1>2. HomeInv => (Steady => UpstreamIsCurrent)
  BY HomeSuffices
<1> QED
  BY HomeInit, <1>1, <1>2, PTL DEF Spec

-----------------------------------------------------------------------------
(* A failed sandbox whose container is up is on its way back: the inductive  *)
(* invariant.                                                                *)

\* The events of node n that HandleEvent may still be given.
Seen(n) == {evq[n][j] : j \in 1..Len(evq[n])} \cup late[n]

\* No event can take s to 'failed'.
NoExit(s, n) ==
    /\ \A e \in Seen(n) : e.app = AppOf[s] => e.type = "container_started"
    /\ ~(call[Evt(n)].pc = "event_cas" /\ call[Evt(n)].sb = s /\ call[Evt(n)].nxt = "failed")

\* A start of s is still to be executed.
OwesPc == {"start_cmd", "crash_cmd"}
Due(s) ==
    \/ \E i \in 1..Len(cmds) : StartOf(i, s) /\ ~Taken(i)
    \/ Working(Proc, s, OwesPc)

\* A start of s, or the news of one, will take it to 'running'.
Recovers(s, n) ==
    \/ Due(s)
    \/ \E e \in Seen(n) : e.app = AppOf[s] /\ e.type = "container_started"
    \/ /\ call[Evt(n)].pc = "event_cas" /\ call[Evt(n)].sb = s
       /\ call[Evt(n)].nxt = "running" /\ call[Evt(n)].st = row[s].state

\* The agent of n has made a container of s and not noted it yet.
Making(s, n) == call[Ack(n)].pc = "created" /\ call[Ack(n)].sb = s

\* A sandbox fails only by an event, which its agent can tell is the sandbox's.
Failing(s, n) ==
    row[s].state = "failed" => s \in tracked[n] /\ (ctr[n][AppOf[s]].up => Recovers(s, n))

\* One that is starting with a container up does not end as failed.
Rising(s, n) ==
    row[s].state = "starting" /\ ctr[n][AppOf[s]].up => Recovers(s, n) \/ NoExit(s, n)

\* The agent does not know a sandbox before its first container is up.
Fresh(s, n) ==
    row[s].state \notin Gone /\ s \notin tracked[n] =>
        /\ ctr[n][AppOf[s]].up => NoExit(s, n)
        /\ call[Evt(n)].pc # "idle" => call[Evt(n)].sb # s
        /\ ~Making(s, n) => /\ ctr[n][AppOf[s]] = NoContainer
                            /\ \A e \in Seen(n) : e.app # AppOf[s]

Mend(s, n) == Failing(s, n) /\ Rising(s, n) /\ Fresh(s, n)
Mends == \A s \in Refs, n \in Node : row[s].node = n => Mend(s, n)

\* What an agent knows, reports and runs is of sandboxes on its node; it starts
\* what it is told to.
LoopMends(k) ==
    /\ k.pc # "idle" /\ StartAck(k) => k.ok
    /\ k.pc = "created" => StartAck(k)
    /\ k.pc = "stopped" => cmds[k.cmd].type = "stop_sandbox"
    /\ k.pc = "ack_cas" => k.nxt # "failed"
EvtAt(k, n) == k.pc # "idle" => row[k.sb].node = n
NodeHome(n) ==
    /\ \A s \in tracked[n] : row[s].node = n
    /\ \A e \in Seen(n) : \E s \in Refs : AppOf[s] = e.app
    /\ \A a \in App : ctr[n][a] # NoContainer => \E s \in Refs : AppOf[s] = a
NodesHome ==
    \A n \in Node : EvtAt(call[Evt(n)], n) /\ NodeHome(n) /\ LoopMends(call[Ack(n)])

Mended == NodesHome /\ Mends

-----------------------------------------------------------------------------
(* What a step leaves as it is. *)

\* The event handler of n has nothing to do with s, or does nothing.
EvtSame(s, n) ==
    \/ call'[Evt(n)] = call[Evt(n)]
    \/ /\ call[Evt(n)].pc = "event_cas" => call[Evt(n)].sb # s
       /\ call'[Evt(n)].pc = "event_cas" => call'[Evt(n)].sb # s
       /\ call'[Evt(n)].pc # "idle" /\ call'[Evt(n)].sb = s
            => call[Evt(n)].pc # "idle" /\ call[Evt(n)].sb = s

\* What node n has to do with s, apart from its row.
SameOn(s, n) ==
    /\ s \in tracked'[n] <=> s \in tracked[n]
    /\ ctr'[n][AppOf[s]] = ctr[n][AppOf[s]]
    /\ \A e : e.app = AppOf[s] => (e \in Seen(n)' <=> e \in Seen(n))
    /\ EvtSame(s, n)
    /\ Making(s, n)' <=> Making(s, n)

LEMMA SameSeen == ASSUME UNCHANGED <<evq, late>> PROVE \A n : Seen(n)' = Seen(n)
  BY DEF Seen

LEMMA MendStays ==
    ASSUME NEW s, NEW n, Mend(s, n), SameOn(s, n), Due(s) => Due(s)',
           row'[s].state = row[s].state
    PROVE  Mend(s, n)'
<1>1. Recovers(s, n) => Recovers(s, n)'
  BY DEF SameOn, Recovers, EvtSame
<1>2. NoExit(s, n) => NoExit(s, n)'
  BY DEF SameOn, NoExit, EvtSame
<1>3. Fresh(s, n)'
  BY <1>2 DEF Mend, Fresh, SameOn, EvtSame
<1>4. Failing(s, n)' /\ Rising(s, n)'
  BY <1>1, <1>2 DEF Mend, Failing, Rising, SameOn
<1> QED
  BY <1>3, <1>4 DEF Mend

\* A sandbox that gets past starting and failing.
LEMMA MendLeaves ==
    ASSUME NEW s, NEW n, Mend(s, n), SameOn(s, n),
           row[s].state \notin Gone, row'[s].state \notin {"starting", "failed"}
    PROVE  Mend(s, n)'
<1>1. NoExit(s, n) => NoExit(s, n)'
  BY DEF SameOn, NoExit, EvtSame
<1>2. Fresh(s, n)'
  BY <1>1 DEF Mend, Fresh, SameOn, EvtSame
<1> QED
  BY <1>2 DEF Mend, Failing, Rising

LEMMA MendGone ==
    ASSUME NEW s, NEW n, row'[s].state \in Gone
    PROVE  Mend(s, n)'
  BY DEF Mend, Failing, Rising, Fresh, Gone

\* A sandbox that is named has the node it had.
LEMMA NamedKept ==
    ASSUME QueueInv, Home, Home', Logged, NEW s \in Refs
    PROVE  s \in Refs' /\ s \in Sandbox /\ row'[s].node = row[s].node /\ row[s].node \in Node
<1>1. PICK i \in 1..Len(cmds) : s = cmds[i].sb
  BY DEF Refs
<1>2. i \in 1..Len(cmds') /\ s = cmds'[i].sb /\ cmds'[i].node = cmds[i].node
  BY <1>1 DEF Logged
<1>3. CmdHome(i) /\ CmdHome(i)'
  BY <1>1, <1>2 DEF Home, CmdsHome
<1>4. s \in Refs'
  BY <1>2 DEF Refs
<1> QED
  BY <1>1, <1>2, <1>3, <1>4, NamedHome DEF CmdHome, QueueInv

LEMMA SameRefs == ASSUME Logged, Len(cmds') = Len(cmds) PROVE Refs' = Refs
  BY DEF Logged, Refs

\* What is left to show of a step that issues no command.
LEMMA MendFrame ==
    ASSUME QueueInv, Home, Home', Mended, Logged, Len(cmds') = Len(cmds), NodesHome',
           \A s \in Refs, n \in Node : row[s].node = n /\ Mend(s, n) => Mend(s, n)'
    PROVE  Mended'
<1>1. Refs' = Refs
  BY SameRefs
<1>2. Mends'
  <2> SUFFICES ASSUME NEW s \in Refs, NEW n \in Node, row'[s].node = n PROVE Mend(s, n)'
    BY <1>1 DEF Mends
  <2>1. row[s].node = n
    BY NamedKept
  <2> QED
    BY <2>1 DEF Mended, Mends
<1> QED
  BY <1>2 DEF Mended

\* Nothing happens on the nodes, but in process p.
LEMMA NodesStay ==
    ASSUME QueueInv, Home, Home', NodesHome, Logged, NEW p \in Proc, Moved(p),
           UNCHANGED <<tracked, ctr, evq, late>>,
           \A n \in Node : p = Evt(n) => EvtAt(call[Evt(n)], n)',
           \A n \in Node : p = Ack(n) => LoopMends(call[Ack(n)])'
    PROVE  NodesHome'
<1>1. IndInv
  BY DEF QueueInv
<1> SUFFICES ASSUME NEW n \in Node
             PROVE  EvtAt(call[Evt(n)], n)' /\ NodeHome(n)' /\ LoopMends(call[Ack(n)])'
  BY DEF NodesHome
<1>2. EvtAt(call[Evt(n)], n) /\ NodeHome(n) /\ LoopMends(call[Ack(n)])
  BY DEF NodesHome
<1>3. \A s \in tracked[n] : s \in Refs
  BY <1>1 DEF IndInv, AgentInv
<1>4. Seen(n)' = Seen(n) /\ \A s \in Refs : s \in Refs' /\ row'[s].node = row[s].node
  BY SameSeen, NamedKept
<1>5. NodeHome(n)'
  BY <1>2, <1>3, <1>4 DEF NodeHome
<1>6. ASSUME p # Evt(n) PROVE EvtAt(call[Evt(n)], n)'
  <2>1. PICK k : k = call[Evt(n)] /\ k = call'[Evt(n)]
    BY <1>6, ProcFacts DEF Moved
  <2>2. k.pc # "idle" => k.sb \in Refs
    BY <1>1, <2>1 DEF IndInv, EvtInv, EvtOK
  <2>3. EvtAt(k, n)'
    BY <1>2, <1>4, <2>1, <2>2 DEF EvtAt
  <2> QED
    BY <2>1, <2>3 DEF EvtAt
<1>7. ASSUME p # Ack(n) PROVE LoopMends(call[Ack(n)])'
  <2>1. PICK k : k = call[Ack(n)] /\ k = call'[Ack(n)]
    BY <1>7, ProcFacts DEF Moved
  <2>2. k.pc # "idle" => k.cmd \in 1..Len(cmds)
    BY <1>1, <2>1 DEF IndInv, AckInv, AckOK
  <2>3. LoopMends(k)'
    BY <1>2, <2>1, <2>2 DEF LoopMends, StartAck, Logged
  <2> QED
    BY <2>1, <2>3 DEF LoopMends, StartAck
<1> QED
  BY <1>5, <1>6, <1>7, ProcFacts

\* The starts that are due stay due.
LEMMA DueStays ==
    ASSUME IndInv, NEW p \in Proc, Moved(p), UNCHANGED <<cmds, inbox>>,
           call[p].pc \notin OwesPc, NEW s
    PROVE  Due(s) => Due(s)'
<1>1. \A i : StartOf(i, s) /\ ~Taken(i) => StartOf(i, s)' /\ ~Taken(i)'
  BY DEF StartOf, Taken
<1>2. Working(Proc, s, OwesPc) => Working(Proc, s, OwesPc)'
  BY DEF Working, Moved
<1> QED
  BY <1>1, <1>2 DEF Due

\* A step of a process that is not on a node.
LEMMA SameNodes ==
    ASSUME NEW p \in Proc, Moved(p), UNCHANGED <<tracked, ctr, evq, late>>, NEW s, NEW n \in Node,
           p = Evt(n) => EvtSame(s, n),
           p = Ack(n) => call[p].pc # "created" /\ call'[p].pc # "created"
    PROVE  SameOn(s, n)
<1>1. Seen(n)' = Seen(n)
  BY SameSeen
<1>2. EvtSame(s, n)
  BY ProcFacts DEF EvtSame, Moved
<1>3. Making(s, n)' <=> Making(s, n)
  BY ProcFacts DEF Making, Moved
<1> QED
  BY <1>1, <1>2, <1>3 DEF SameOn

-----------------------------------------------------------------------------
(* The API's handlers. *)

\* A client's handler makes a named sandbox no worse.
LEMMA ApiMends ==
    ASSUME QueueInv, Home, Home', Mended, NEW c \in Client, Moved(Api(c)),
           UNCHANGED <<cmds, inbox, tracked, ctr, evq, late>>, call[Api(c)].pc \notin OwesPc,
           \A s \in Refs : row'[s].state = row[s].state \/ row'[s].state \in Gone
    PROVE  Mended'
<1>1. IndInv /\ Logged /\ Api(c) \in Proc /\ \A n \in Node : Api(c) # Ack(n) /\ Api(c) # Evt(n)
  BY SameLog, ProcFacts DEF QueueInv
<1>2. NodesHome'
  BY <1>1, NodesStay DEF Mended
<1>3. ASSUME NEW s \in Refs, NEW n \in Node, row[s].node = n, Mend(s, n) PROVE Mend(s, n)'
  <2>1. SameOn(s, n)
    BY <1>1, SameNodes
  <2>2. Due(s) => Due(s)'
    BY <1>1, DueStays
  <2> QED
    BY <1>3, <2>1, <2>2, MendStays, MendGone
<1> QED
  BY <1>1, <1>2, <1>3, MendFrame

LEMMA ApiStates ==
    ASSUME QueueInv, Home, NEW c \in Client, NEW s \in Refs,
           ApiStep(c) \/ \E t \in Sandbox : ApiRequest(c, t)
    PROVE  row'[s].state = row[s].state \/ row'[s].state \in Gone
<1> DEFINE k == call[Api(c)]
<1>1. IndInv /\ s \in Sandbox /\ row[s].node \in Node /\ Exists(s) /\ row \in [Sandbox -> Row]
  BY NamedHome DEF QueueInv, IndInv, TypeOK
<1>2. ApiOK(c, k) /\ RowHome(s)
  BY <1>1 DEF IndInv, ApiInv, Home, RowsHome
<1>3. CASE UNCHANGED row
  BY <1>3
<1>4. CASE CreateRecycle(c) /\ ~UNCHANGED row
  <2>1. SetState(k.old, "deleted") /\ ~Referenced(k.old)
    BY <1>4 DEF CreateRecycle
  <2>2. k.old # s
    BY <2>1 DEF Referenced, Refs
  <2> QED
    BY <1>1, <2>1, <2>2 DEF SetState
<1>5. CASE CreateInsert(c) /\ ~UNCHANGED row
  <2>1. k.pc = "insert" /\ \E r : row' = [row EXCEPT ![k.sb] = r]
    BY <1>5 DEF CreateInsert, At
  <2>2. k.sb # s
    BY <1>1, <1>2, <2>1 DEF ApiOK, Exists
  <2> QED
    BY <1>1, <2>1, <2>2
<1>6. CASE CreateAssign(c) /\ ~UNCHANGED row
  <2>1. row[k.sb].state = "pending" /\ AssignSandboxToNode(k.sb, k.node)
    BY <1>6 DEF CreateAssign, StateIs
  <2>2. k.sb # s
    BY <1>1, <1>2, <2>1, ConstantsAssumption DEF RowHome
  <2> QED
    BY <1>1, <2>1, <2>2 DEF AssignSandboxToNode
<1>7. CASE DestroyCas(c) /\ ~UNCHANGED row
  <2>1. SetState(k.sb, k.nxt) /\ k.pc = "destroy_cas"
    BY <1>7 DEF DestroyCas, At
  <2>2. k.nxt \in Gone
    BY <1>2, <2>1 DEF ApiOK, DestroyEdge, Gone
  <2> QED
    BY <1>1, <1>2, <2>1, <2>2 DEF SetState, Row, ApiOK
<1>8. ~WakeCas(c)
  BY DEF WakeCas, At, Home, CallsHome, ApiHome
<1>9. CASE StartCmd(c) \/ StopCmd(c) \/ RestartCmd(c) \/ CreateSchedule(c)
  BY <1>9 DEF StartCmd, StopCmd, RestartCmd, CreateSchedule, db
<1>10. ASSUME NEW t \in Sandbox, ApiRequest(c, t) PROVE UNCHANGED row
  BY <1>10 DEF ApiRequest, CreateLookup, DestroyRead, WakeRead, RestartRead, db
<1> QED
  BY <1>3, <1>4, <1>5, <1>6, <1>7, <1>8, <1>9, <1>10 DEF ApiStep

\* A command is issued: a start that was owed is due as a command.
LEMMA IssueMends ==
    ASSUME QueueInv, Home, Home', Mended, NEW p \in Proc, Return(p),
           \A n \in Node : p # Ack(n), \A n \in Node : p = Evt(n) => call[p].pc # "event_cas",
           UNCHANGED <<row, inbox, tracked, ctr, evq, late>>,
           NEW type, NEW s \in Sandbox, NEW m \in Node, NEW x, InsertCommand(type, s, m, x),
           row[s].node = m,
           call[p].pc \in OwesPc => call[p].sb = s /\ type = "start_sandbox"
    PROVE  Mended'
<1>1. IndInv /\ Moved(p) /\ call'[p].pc = "idle"
  BY ReturnFacts DEF QueueInv
<1>2. /\ TableOn /\ Len(cmds) \in Nat /\ Len(cmds') = Len(cmds) + 1
      /\ \A i \in 1..Len(cmds) : cmds'[i] = cmds[i]
      /\ cmds'[Len(cmds) + 1].sb = s /\ cmds'[Len(cmds) + 1].type = type
  BY <1>1, AppendOn DEF TableOn
<1>3. cmds'[Len(cmds) + 1].status = "pending"
  BY <1>1 DEF IndInv, TypeOK, InsertCommand
<1>4. Logged
  BY <1>2 DEF Logged
<1>5. NodesHome'
  BY <1>1, <1>4, NodesStay DEF Mended, EvtAt
<1>6. ASSUME NEW t, Due(t) PROVE Due(t)'
  <2>1. \A i \in 1..Len(cmds) : StartOf(i, t) /\ ~Taken(i) => StartOf(i, t)' /\ ~Taken(i)'
    BY <1>2 DEF StartOf, Taken
  <2>2. \A q \in Proc : q # p /\ call[q].sb = t /\ call[q].pc \in OwesPc => Working(Proc, t, OwesPc)'
    BY <1>1 DEF Working, Moved
  <2>3. CASE call[p].sb = t /\ call[p].pc \in OwesPc
    <3>1. PICK N \in 1..Len(cmds') :
            cmds'[N].sb = t /\ cmds'[N].type = "start_sandbox" /\ cmds'[N].status = "pending"
      BY <1>2, <1>3, <2>3
    <3>2. StartOf(N, t)' /\ ~Taken(N)'
      BY <3>1 DEF StartOf, Taken
    <3> QED
      BY <3>1, <3>2 DEF Due
  <2> QED
    BY <1>2, <1>6, <2>1, <2>2, <2>3 DEF Due, Working
<1>7. ASSUME NEW t \in Refs, NEW n \in Node, row[t].node = n PROVE Mend(t, n)'
  <2>1. SameOn(t, n)
    BY <1>1, SameNodes DEF EvtSame
  <2> QED
    BY <1>6, <1>7, <2>1, MendStays DEF Mended, Mends
<1>8. ASSUME s \notin Refs PROVE Mend(s, m)'
  <2>1. Exists(s) /\ RowHome(s) /\ AppOf[s] \in App
    BY <1>1, NodeExists, ConstantsAssumption DEF Home, RowsHome
  <2>2. row'[s].state \in {"starting", "destroying"}
    BY <1>8, <2>1 DEF RowHome
  <2>3. \A u \in Refs : AppOf[u] # AppOf[s]
    BY <1>1, <1>8, <2>1, NamedHome
  <2>4. ctr[m][AppOf[s]] = NoContainer /\ \A e \in Seen(m) : e.app # AppOf[s]
    BY <2>1, <2>3 DEF Mended, NodesHome, NodeHome
  <2>5. Seen(m)' = Seen(m) /\ ~ctr'[m][AppOf[s]].up
    BY <2>4, SameSeen DEF NoContainer
  <2>6. call'[Evt(m)].pc # "idle" => call'[Evt(m)].sb # s
    <3>1. call[Evt(m)].pc # "idle" => call[Evt(m)].sb # s
      BY <1>1, <1>8 DEF IndInv, EvtInv, EvtOK
    <3> QED
      BY <1>1, <3>1, ProcFacts DEF Moved
  <2> QED
    BY <2>2, <2>4, <2>5, <2>6 DEF Mend, Failing, Rising, Fresh
<1>9. Mends'
  <2> SUFFICES ASSUME NEW t \in Refs', NEW n \in Node, row'[t].node = n PROVE Mend(t, n)'
    BY DEF Mends
  <2>1. PICK i \in 1..Len(cmds') : t = cmds'[i].sb
    BY DEF Refs
  <2>2. t \in Refs \/ t = s
    BY <1>2, <2>1 DEF Refs
  <2> QED
    BY <1>7, <1>8, <2>2
<1> QED
  BY <1>5, <1>9 DEF Mended

LEMMA ApiMendStep ==
    ASSUME QueueInv, Home, Home', Mended, UNCHANGED late, NEW c \in Client,
           ApiStep(c) \/ \E s \in Sandbox : ApiRequest(c, s)
    PROVE  Mended'
<1> DEFINE k == call[Api(c)]
<1>1. /\ IndInv /\ Api(c) \in Proc /\ \A n \in Node : Api(c) # Ack(n) /\ Api(c) # Evt(n)
  BY ProcFacts DEF QueueInv
<1>2. \A s \in Refs : row'[s].state = row[s].state \/ row'[s].state \in Gone
  BY ApiStates
<1>3. ~WakeCas(c)
  BY DEF WakeCas, At, Home, CallsHome, ApiHome
<1>4. UNCHANGED <<inbox, tracked, ctr, evq>>
  BY DEF ApiStep, ApiRequest, CreateRecycle, CreateInsert, CreateSchedule, CreateAssign, StartCmd,
         DestroyCas, StopCmd, WakeCas, RestartCmd, CreateLookup, DestroyRead, WakeRead, RestartRead,
         agents
<1>5. (\E pc : Step(Api(c), pc)) \/ (\E q : Become(Api(c), q))
  <2>1. CASE CreateRecycle(c) \/ CreateInsert(c)
    BY <2>1 DEF CreateRecycle, CreateInsert, Return
  <2>2. CASE CreateSchedule(c) \/ CreateAssign(c)
    BY <2>2 DEF CreateSchedule, CreateAssign, Return
  <2>3. CASE StartCmd(c) \/ StopCmd(c) \/ RestartCmd(c) \/ DestroyCas(c)
    BY <2>3 DEF StartCmd, StopCmd, RestartCmd, DestroyCas, Return
  <2>4. ASSUME NEW s \in Sandbox, ApiRequest(c, s)
        PROVE  (\E pc : Step(Api(c), pc)) \/ (\E q : Become(Api(c), q))
    BY <2>4 DEF ApiRequest, CreateLookup, DestroyRead, WakeRead, RestartRead
  <2> QED
    BY <1>3, <2>1, <2>2, <2>3, <2>4 DEF ApiStep
<1>6. Moved(Api(c))
  BY <1>1, <1>5, AnyMove
<1>7. CASE UNCHANGED cmds /\ k.pc \notin OwesPc
  BY <1>1, <1>2, <1>4, <1>6, <1>7, ApiMends
<1>8. CASE StartCmd(c) \/ StopCmd(c) \/ RestartCmd(c)
  <2>1. k \in Call /\ ApiOK(c, k) /\ ApiHome(k)
    BY <1>1 DEF IndInv, TypeOK, ApiInv, Home, CallsHome
  <2>2. Return(Api(c)) /\ UNCHANGED row /\ k.pc \in {"start_cmd", "stop_cmd", "restart_cmd"}
    BY <1>8 DEF StartCmd, StopCmd, RestartCmd, At
  <2>3. CASE UNCHANGED cmds
    <3>1. ASSUME StartCmd(c) PROVE FALSE
      <4>1. CreateCommand("start_sandbox", k.sb, k.node, 0) /\ k.pc = "start_cmd"
        BY <3>1 DEF StartCmd, At
      <4>2. k.sb \in Sandbox /\ k.node \in Node /\ row[k.sb].node = k.node
        BY <2>1, <4>1 DEF ApiOK, ApiHome
      <4>3. InsertCommand("start_sandbox", k.sb, k.node, 0)
        BY <1>1, <4>1, <4>2, NodeExists, Inserts
      <4> QED
        BY <1>1, <2>3, <4>3 DEF InsertCommand, IndInv, TypeOK
    <3>2. k.pc \notin OwesPc
      BY <1>8, <3>1 DEF StopCmd, RestartCmd, At, OwesPc
    <3> QED
      BY <1>7, <2>3, <3>2
  <2>4. CASE ~UNCHANGED cmds
    <3>1. PICK type, x : /\ InsertCommand(type, k.sb, k.node, x)
                         /\ k.pc = "stop_cmd" => k.node # NoNode
                         /\ k.pc = "start_cmd" => type = "start_sandbox"
      <4>1. CASE StartCmd(c)
        BY <2>4, <4>1 DEF StartCmd, At, CreateCommand
      <4>2. CASE RestartCmd(c)
        BY <2>4, <4>2 DEF RestartCmd, At, CreateCommand
      <4>3. CASE StopCmd(c)
        BY <2>4, <4>3 DEF StopCmd, At, CreateCommand
      <4> QED
        BY <1>8, <4>1, <4>2, <4>3
    <3>2. PICK s \in Sandbox, n \in Node : s = k.sb /\ n = k.node
      BY <2>1, <2>2, <3>1 DEF ApiOK, Call
    <3>3. row[s].node = n
      BY <2>1, <2>2, <3>1, <3>2, ConstantsAssumption DEF ApiHome
    <3>4. k.pc \in OwesPc => k.sb = s /\ type = "start_sandbox"
      BY <2>2, <3>1, <3>2 DEF OwesPc
    <3> QED
      BY <1>1, <1>4, <2>2, <3>1, <3>2, <3>3, <3>4, IssueMends
  <2> QED
    BY <2>3, <2>4
<1>9. CASE \/ CreateRecycle(c) \/ CreateInsert(c) \/ CreateSchedule(c) \/ CreateAssign(c)
           \/ DestroyCas(c) \/ \E s \in Sandbox : ApiRequest(c, s)
  <2>1. UNCHANGED cmds
    BY <1>9 DEF CreateRecycle, CreateInsert, CreateSchedule, CreateAssign, DestroyCas, ApiRequest,
                CreateLookup, DestroyRead, WakeRead, RestartRead, db
  <2>2. k.pc \notin OwesPc
    BY <1>9 DEF CreateRecycle, CreateInsert, CreateSchedule, CreateAssign, DestroyCas, ApiRequest,
                CreateLookup, DestroyRead, WakeRead, RestartRead, At, OwesPc
  <2> QED
    BY <1>7, <2>1, <2>2
<1> QED
  BY <1>3, <1>8, <1>9 DEF ApiStep

-----------------------------------------------------------------------------
(* The agents. *)

\* Docker reports the events of a container.
LEMMA EventsSeen ==
    ASSUME IndInv, UNCHANGED late, NEW n \in Node, NEW a \in App,
           NEW types \in Seq(EventType), Events(n, a, types)
    PROVE  /\ \A m \in Node \ {n} : Seen(m)' = Seen(m)
           /\ Seen(n) \subseteq Seen(n)'
           /\ \A e \in Seen(n)' :
                e \in Seen(n) \/ (e.app = a /\ \E l \in 1..Len(types) : e.type = types[l])
           /\ \A l \in 1..Len(types) : \E e \in Seen(n)' : e.app = a /\ e.type = types[l]
<1> DEFINE new == [l \in 1..Len(types) |-> [type |-> types[l], app |-> a]]
<1>1. Len(types) \in Nat /\ evq \in [Node -> EventSeq]
  <2>1. Len(types) \in Nat
    OBVIOUS
  <2>2. evq \in [Node -> EventSeq]
    BY DEF IndInv, TypeOK, EventSeq
  <2> QED
    BY <2>1, <2>2
<1>2. new \in EventSeq
  BY DEF EventSeq
<1>3. Len(new) = Len(types) /\ \A l \in 1..Len(types) : new[l] = [type |-> types[l], app |-> a]
  <2>1. DOMAIN new = 1..Len(types) /\ DOMAIN new = 1..Len(new) /\ Len(new) \in Nat
    BY <1>2 DEF EventSeq
  <2> QED
    BY <1>1, <2>1
<1>4. \A l \in 1..Len(types) : new[l].type = types[l] /\ new[l].app = a
  BY <1>3
<1>5. evq' = [evq EXCEPT ![n] = evq[n] \o new]
  BY DEF Events
<1> HIDE DEF new
<1>6. evq'[n] = evq[n] \o new /\ \A m \in Node \ {n} : evq'[m] = evq[m]
  BY <1>1, <1>5
<1>7. /\ Len(evq[n]) \in Nat /\ Len(evq'[n]) = Len(evq[n]) + Len(types)
      /\ \A j \in 1..Len(evq[n]) : evq'[n][j] = evq[n][j]
      /\ \A l \in 1..Len(types) : evq'[n][Len(evq[n]) + l] = new[l]
  <2>1. PICK q \in EventSeq : q = evq[n]
    BY <1>1
  <2>2. Len(q) \in Nat /\ Len(q \o new) = Len(q) + Len(new)
    BY <1>2 DEF EventSeq
  <2>3. \A j \in 1..Len(q) : (q \o new)[j] = q[j]
    BY <1>2 DEF EventSeq
  <2>4. \A l \in 1..Len(new) : (q \o new)[Len(q) + l] = new[l]
    BY <1>2 DEF EventSeq
  <2> QED
    BY <1>3, <1>6, <2>1, <2>2, <2>3, <2>4
<1>8. ASSUME NEW j \in 1..Len(evq'[n]), j \notin 1..Len(evq[n])
      PROVE  \E l \in 1..Len(types) : evq'[n][j] = new[l]
  <2>1. j - Len(evq[n]) \in 1..Len(types) /\ j = Len(evq[n]) + (j - Len(evq[n]))
    BY <1>1, <1>7, <1>8
  <2> QED
    BY <1>7, <2>1
<1>9. \A e \in Seen(n)' :
        e \in Seen(n) \/ (e.app = a /\ \E l \in 1..Len(types) : e.type = types[l])
  <2> SUFFICES ASSUME NEW e \in Seen(n)', e \notin Seen(n)
               PROVE  e.app = a /\ \E l \in 1..Len(types) : e.type = types[l]
    OBVIOUS
  <2>1. PICK j \in 1..Len(evq'[n]) : e = evq'[n][j]
    BY DEF Seen
  <2>2. j \notin 1..Len(evq[n])
    BY <1>7, <2>1 DEF Seen
  <2>3. PICK l \in 1..Len(types) : evq'[n][j] = new[l]
    BY <1>8, <2>2
  <2> QED
    BY <1>4, <2>1, <2>3
<1>10. \A j \in 1..Len(evq[n]) : j \in 1..Len(evq'[n])
  BY <1>1, <1>7
<1>11. Seen(n) \subseteq Seen(n)'
  BY <1>7, <1>10 DEF Seen
<1>12. ASSUME NEW l \in 1..Len(types) PROVE \E e \in Seen(n)' : e.app = a /\ e.type = types[l]
  <2>1. Len(evq[n]) + l \in 1..Len(evq'[n])
    BY <1>1, <1>7
  <2>2. evq'[n][Len(evq[n]) + l] \in Seen(n)'
    BY <2>1 DEF Seen
  <2> QED
    BY <1>4, <1>7, <2>2
<1>13. \A m \in Node \ {n} : Seen(m)' = Seen(m)
  BY <1>6 DEF Seen
<1> QED
  BY <1>9, <1>11, <1>12, <1>13

\* Something happens on node n that concerns sandbox t alone.
LEMMA NodeActs ==
    ASSUME QueueInv, Home, Home', Mended, Logged, Len(cmds') = Len(cmds), UNCHANGED row,
           NEW n \in Node, NEW t \in Refs, t \in tracked'[n] => row[t].node = n,
           NEW p \in Proc, Moved(p), \A m \in Node : p # Evt(m) /\ (p = Ack(m) => m = n),
           \A m \in Node \ {n} : /\ tracked'[m] = tracked[m] /\ ctr'[m] = ctr[m]
                                 /\ Seen(m)' = Seen(m),
           \A a \in App : a # AppOf[t] => ctr'[n][a] = ctr[n][a],
           \A e : e.app # AppOf[t] => (e \in Seen(n)' <=> e \in Seen(n)),
           \A s : s # t => (s \in tracked'[n] <=> s \in tracked[n]),
           \A s : s # t => (Making(s, n)' <=> Making(s, n)),
           \A s \in Refs : s # t \/ row[t].node # n => (Due(s) => Due(s)'),
           LoopMends(call[Ack(n)])', row[t].node = n => Mend(t, n)'
    PROVE  Mended'
<1>1. IndInv /\ Refs' = Refs
  BY SameRefs DEF QueueInv
<1>2. \A s \in Refs : s # t => AppOf[s] # AppOf[t] /\ AppOf[s] \in App
  BY <1>1, NamedHome
<1>3. \A m \in Node : call'[Evt(m)] = call[Evt(m)] /\ (m # n => call'[Ack(m)] = call[Ack(m)])
  BY ProcFacts DEF Moved
<1>4. ASSUME NEW m \in Node
      PROVE  EvtAt(call[Evt(m)], m)' /\ NodeHome(m)' /\ LoopMends(call[Ack(m)])'
  <2>1. EvtAt(call[Evt(m)], m) /\ NodeHome(m) /\ LoopMends(call[Ack(m)])
    BY DEF Mended, NodesHome
  <2>2. EvtAt(call[Evt(m)], m)'
    BY <1>3, <2>1 DEF EvtAt
  <2>3. NodeHome(m)'
    <3>1. CASE m # n
      BY <1>1, <2>1, <3>1 DEF NodeHome
    <3>2. CASE m = n
      BY <1>1, <2>1, <3>2 DEF NodeHome
    <3> QED
      BY <3>1, <3>2
  <2>4. ASSUME m # n PROVE LoopMends(call[Ack(m)])'
    <3>1. PICK k : k = call[Ack(m)] /\ k = call'[Ack(m)]
      BY <1>3, <2>4
    <3>2. k.pc # "idle" => k.cmd \in 1..Len(cmds)
      BY <1>1, <3>1 DEF IndInv, AckInv, AckOK
    <3>3. LoopMends(k)'
      BY <2>1, <3>1, <3>2 DEF LoopMends, StartAck, Logged
    <3> QED
      BY <3>1, <3>3 DEF LoopMends, StartAck
  <2> QED
    BY <2>2, <2>3, <2>4
<1>5. ASSUME NEW s \in Refs, NEW m \in Node, row[s].node = m, Mend(s, m) PROVE Mend(s, m)'
  <2>1. CASE s = t /\ m = n
    BY <1>5, <2>1
  <2>2. CASE s # t \/ m # n
    <3>1. SameOn(s, m)
      <4>1. CASE m = n
        BY <1>2, <1>3, <2>2, <4>1 DEF SameOn, EvtSame, Making
      <4>2. CASE m # n
        BY <1>3, <4>2 DEF SameOn, EvtSame, Making
      <4> QED
        BY <4>1, <4>2
    <3> QED
      BY <1>5, <2>2, <3>1, MendStays
  <2> QED
    BY <2>1, <2>2
<1>6. NodesHome'
  BY <1>4 DEF NodesHome
<1> QED
  BY <1>5, <1>6, MendFrame

LEMMA AgentPollMends ==
    ASSUME QueueInv, Home, Home', Mended, UNCHANGED late, NEW n \in Node, AgentPoll(n)
    PROVE  Mended'
<1>1. /\ UNCHANGED <<row, call, tracked, ctr, evq>> /\ Dispatch(n) /\ inbox[n] = {} /\ IndInv
      /\ inbox' = [inbox EXCEPT ![n] = Pending(n)] /\ Reaper \in Proc /\ Moved(Reaper)
  BY ProcFacts DEF AgentPoll, QueueInv, Moved
<1>2. Len(cmds) \in Nat /\ Len(cmds') = Len(cmds)
  BY <1>1 DEF Dispatch, IndInv, TypeOK
<1>3. ASSUME NEW i \in 1..Len(cmds)
      PROVE  /\ cmds'[i].sb = cmds[i].sb /\ cmds'[i].type = cmds[i].type
             /\ cmds'[i].node = cmds[i].node
             /\ Taken(i)' <=> Taken(i)
  <2>1. cmds[i] \in Command
    BY <1>1 DEF IndInv, TypeOK
  <2>2. \A m \in Node : inbox'[m] = IF m = n THEN Pending(n) ELSE inbox[m]
    BY <1>1 DEF IndInv, TypeOK
  <2>3. CASE i \in Pending(n)
    <3>1. cmds'[i] = [cmds[i] EXCEPT !.status = "dispatched"] /\ cmds[i].status = "pending"
      BY <1>1, <2>3 DEF Dispatch, Pending
    <3> QED
      BY <2>1, <2>2, <2>3, <3>1 DEF Taken, Command
  <2>4. CASE i \notin Pending(n)
    <3>1. cmds'[i] = cmds[i]
      BY <1>1, <2>4 DEF Dispatch
    <3> QED
      BY <1>1, <2>2, <2>4, <3>1 DEF Taken
  <2> QED
    BY <2>3, <2>4
<1>4. Logged
  BY <1>2, <1>3 DEF Logged
<1>5. \A s : Due(s) => Due(s)'
  BY <1>1, <1>2, <1>3 DEF Due, StartOf, Working
<1>6. NodesHome'
  BY <1>1, <1>4, NodesStay, ProcFacts DEF Mended
<1>7. ASSUME NEW s \in Refs, NEW m \in Node, Mend(s, m) PROVE Mend(s, m)'
  <2>1. SameOn(s, m)
    BY <1>1, SameNodes, ProcFacts
  <2> QED
    BY <1>1, <1>5, <1>7, <2>1, MendStays
<1> QED
  BY <1>2, <1>4, <1>6, <1>7, MendFrame

LEMMA TrackMends ==
    ASSUME QueueInv, Home, Home', Mended, UNCHANGED late, NEW n \in Node,
           AgentTrack(n) \/ AgentUntrack(n)
    PROVE  Mended'
<1> DEFINE k == call[Ack(n)]
<1>1. /\ UNCHANGED <<row, cmds, inbox, ctr, evq, late>> /\ Step(Ack(n), "send") /\ IndInv
      /\ k.pc \in {"created", "stopped"} /\ Ack(n) \in Proc
  BY ProcFacts DEF AgentTrack, AgentUntrack, At, db, QueueInv
<1>2. PICK t \in Refs : t = k.sb /\ row[t].node = n
  BY <1>1, LoopHome
<1>3. /\ Moved(Ack(n)) /\ call'[Ack(n)].pc = "send" /\ call'[Ack(n)].cmd = k.cmd
      /\ call'[Ack(n)].ok = k.ok
  BY <1>1, LoopSteps DEF Pc
<1>4. Logged /\ \A m : Seen(m)' = Seen(m)
  BY <1>1, SameLog, SameSeen
<1>5. \A m \in Node : m # n => tracked'[m] = tracked[m]
  BY <1>1 DEF AgentTrack, AgentUntrack, IndInv, TypeOK
<1>6. \A s : s # t => (s \in tracked'[n] <=> s \in tracked[n])
  BY <1>1, <1>2 DEF AgentTrack, AgentUntrack, IndInv, TypeOK
<1>7. LoopMends(k)
  BY DEF Mended, NodesHome
<1>8. LoopMends(call[Ack(n)])'
  BY <1>1, <1>3, <1>7 DEF LoopMends, StartAck
<1>9. \A s : Due(s) => Due(s)'
  BY <1>1, <1>3, DueStays DEF OwesPc
<1>10. Mend(t, n)'
  <2>1. CASE AgentTrack(n)
    <3>1. t \in tracked'[n]
      BY <1>1, <1>2, <2>1 DEF AgentTrack, IndInv, TypeOK
    <3>2. call'[Evt(n)] = call[Evt(n)]
      BY <1>3, ProcFacts DEF Moved
    <3>3. Recovers(t, n) => Recovers(t, n)'
      BY <1>1, <1>4, <1>9, <3>2 DEF Recovers
    <3>4. NoExit(t, n) => NoExit(t, n)'
      BY <1>4, <3>2 DEF NoExit
    <3>5. Mend(t, n)
      BY <1>2 DEF Mended, Mends
    <3> QED
      BY <1>1, <3>1, <3>3, <3>4, <3>5 DEF Mend, Failing, Rising, Fresh
  <2>2. CASE AgentUntrack(n)
    <3>1. cmds[k.cmd].type = "stop_sandbox" /\ k.cmd \in 1..Len(cmds) /\ cmds[k.cmd].sb = t
      BY <1>1, <1>2, <1>7, <2>2, LoopHome DEF LoopMends, AgentUntrack, At
    <3>2. row'[t].state \in Gone
      BY <1>1, <3>1 DEF Home, CmdsHome, CmdHome
    <3> QED
      BY <3>2, MendGone
  <2> QED
    BY <2>1, <2>2
<1>11. /\ \A s : s # t => (Making(s, n)' <=> Making(s, n))
       /\ \A m \in Node : Ack(n) # Evt(m) /\ (Ack(n) = Ack(m) => m = n)
  BY <1>2, <1>3, ProcFacts DEF Making
<1> QED
  BY <1>1, <1>2, <1>3, <1>4, <1>5, <1>6, <1>8, <1>9, <1>10, <1>11, NodeActs

\* What is known of sandbox t when the agent of n takes command i, which is for t.
LEMMA ExecuteFacts ==
    ASSUME QueueInv, Home, Mended, UNCHANGED cmds, NEW n \in Node, NEW i \in inbox[n],
           NEW pc, NEW ok, Begin(n, i, pc, ok)
    PROVE  /\ i \in 1..Len(cmds) /\ cmds[i].sb \in Refs /\ AppOf[cmds[i].sb] \in App
           /\ row[cmds[i].sb].node = n /\ Mend(cmds[i].sb, n) /\ ~Making(cmds[i].sb, n)
           /\ cmds[i].type = "stop_sandbox" => row[cmds[i].sb].state \in Gone
           /\ call'[Evt(n)] = call[Evt(n)]
<1>1. /\ IndInv /\ i \in 1..Len(cmds) /\ cmds[i].node = n /\ call[Ack(n)].pc = "idle"
      /\ Moved(Ack(n)) /\ call'[Ack(n)].pc = pc
  BY BeginFacts DEF QueueInv
<1>2. cmds[i].sb \in Refs /\ CmdHome(i)
  BY <1>1 DEF Refs, Home, CmdsHome
<1>3. AppOf[cmds[i].sb] \in App
  BY <1>1, <1>2, NamedHome
<1> QED
  BY <1>1, <1>2, <1>3, ProcFacts DEF CmdHome, Mended, Mends, Making, Moved

\* The agent of n executes command i, which is for t.
LEMMA ExecuteMends ==
    ASSUME QueueInv, Home, Home', Mended, UNCHANGED <<row, cmds, tracked, late>>,
           NEW n \in Node, NEW i \in inbox[n], NEW pc \in {"created", "stopped", "send"}, NEW ok,
           Begin(n, i, pc, ok), NEW t, t = cmds[i].sb,
           pc = "created" => cmds[i].type = "start_sandbox",
           cmds[i].type = "start_sandbox" => ok,
           pc = "stopped" => cmds[i].type = "stop_sandbox",
           \A m \in Node \ {n} : ctr'[m] = ctr[m],
           \A a \in App : a # AppOf[t] => ctr'[n][a] = ctr[n][a],
           UNCHANGED evq \/ \E types \in Seq(EventType) : Events(n, AppOf[t], types),
           Mend(t, n)'
    PROVE  Mended'
<1>1. /\ i \in 1..Len(cmds) /\ call[Ack(n)].pc = "idle" /\ Moved(Ack(n)) /\ IndInv
      /\ call'[Ack(n)].pc = pc /\ call'[Ack(n)].cmd = i
      /\ call'[Ack(n)].sb = t /\ call'[Ack(n)].ok = ok
      /\ \A j \in 1..Len(cmds) : j # i => (Taken(j)' <=> Taken(j))
  BY BeginFacts DEF QueueInv
<1>2. t \in Refs /\ AppOf[t] \in App /\ row[t].node = n /\ Logged
  BY <1>1, ExecuteFacts, SameLog
<1>3. /\ \A m \in Node \ {n} : Seen(m)' = Seen(m)
      /\ \A e : e.app # AppOf[t] => (e \in Seen(n)' <=> e \in Seen(n))
  <2>1. CASE UNCHANGED evq
    BY <2>1, SameSeen
  <2>2. ASSUME NEW types \in Seq(EventType), Events(n, AppOf[t], types)
        PROVE  /\ \A m \in Node \ {n} : Seen(m)' = Seen(m)
               /\ \A e : e.app # AppOf[t] => (e \in Seen(n)' <=> e \in Seen(n))
    BY <1>1, <1>2, <2>2, EventsSeen
  <2> QED
    BY <2>1, <2>2
<1>4. ASSUME NEW s, s # t PROVE Due(s) => Due(s)'
  <2>1. \A j \in 1..Len(cmds) : StartOf(j, s) /\ ~Taken(j) => StartOf(j, s)' /\ ~Taken(j)'
    BY <1>1, <1>4 DEF StartOf
  <2>2. Working(Proc, s, OwesPc) => Working(Proc, s, OwesPc)'
    BY <1>1 DEF Working, Moved, OwesPc
  <2> QED
    BY <2>1, <2>2 DEF Due
<1>5. LoopMends(call[Ack(n)])'
  BY <1>1 DEF LoopMends, StartAck
<1>6. /\ \A s : s # t => (Making(s, n)' <=> Making(s, n))
      /\ Ack(n) \in Proc /\ \A m \in Node : Ack(n) # Evt(m) /\ (Ack(n) = Ack(m) => m = n)
  BY <1>1, ProcFacts DEF Making
<1> QED
  BY <1>1, <1>2, <1>3, <1>4, <1>5, <1>6, NodeActs

LEMMA AgentStopMends ==
    ASSUME QueueInv, Home, Home', Mended, UNCHANGED late, NEW n \in Node, NEW i \in inbox[n],
           AgentStop(n, i)
    PROVE  Mended'
<1>1. UNCHANGED <<row, cmds, tracked>> /\ cmds[i].type = "stop_sandbox" /\ IndInv
  BY DEF AgentStop, db, QueueInv
<1>2. PICK pc \in {"created", "stopped", "send"}, ok \in BOOLEAN :
        Begin(n, i, pc, ok) /\ pc # "created"
  BY DEF AgentStop
<1>3. PICK t : t = cmds[i].sb
  OBVIOUS
<1>4. row'[t].state \in Gone /\ AppOf[t] \in App
  BY <1>1, <1>2, <1>3, ExecuteFacts
<1>5. Mend(t, n)'
  BY <1>4, MendGone
<1>6. DieIfUp(n, AppOf[t]) \in Seq(EventType)
  BY DieIfUpType
<1>7. UNCHANGED evq \/ \E types \in Seq(EventType) : Events(n, AppOf[t], types)
  BY <1>3, <1>6 DEF AgentStop
<1>8. /\ \A m \in Node \ {n} : ctr'[m] = ctr[m]
      /\ \A a \in App : a # AppOf[t] => ctr'[n][a] = ctr[n][a]
  <2>1. UNCHANGED ctr \/ ctr' = [ctr EXCEPT ![n][AppOf[t]] = NoContainer]
    BY <1>3 DEF AgentStop
  <2> QED
    BY <1>1, <1>4, <2>1 DEF IndInv, TypeOK
<1> QED
  BY <1>1, <1>2, <1>3, <1>5, <1>7, <1>8, ExecuteMends

LEMMA OneAndOne ==
    ASSUME NEW S, NEW q \in Seq(S), NEW r \in Seq(S), Len(q) = 1, Len(r) = 1
    PROVE  q \o r \in Seq(S) /\ Len(q \o r) = 2 /\ (q \o r)[2] = r[1]
<1>1. \A u, v \in Seq(S) : u \o v \in Seq(S)
  OBVIOUS
<1>2. \A u, v \in Seq(S) : Len(u \o v) = Len(u) + Len(v)
  OBVIOUS
<1>3. \A u, v \in Seq(S) : \A j \in 1..Len(v) : (u \o v)[Len(u) + j] = v[j]
  OBVIOUS
<1>4. PICK x : x = q \o r /\ Len(x) = Len(q) + Len(r)
  BY <1>2
<1>5. PICK y : y = r[1] /\ (q \o r)[Len(q) + 1] = y
  BY <1>3
<1>6. Len(x) = 2
  BY <1>4
<1>7. Len(q) + 1 = 2
  OBVIOUS
<1> QED
  BY <1>1, <1>4, <1>5, <1>6, <1>7, Zenon

\* A container that was started has the news of it under way.
LEMMA StartedSeen ==
    ASSUME IndInv, UNCHANGED late, NEW n \in Node, NEW a \in App,
           Events(n, a, DieIfUp(n, a) \o <<"container_started">>)
    PROVE  /\ \E e \in Seen(n)' : e.app = a /\ e.type = "container_started"
           /\ ~ctr[n][a].up => \A e \in Seen(n)' : e \in Seen(n) \/ e.type = "container_started"
           /\ DieIfUp(n, a) \o <<"container_started">> \in Seq(EventType)
<1>1. CASE ctr[n][a].up
  <2>1. /\ DieIfUp(n, a) \in Seq(EventType) /\ Len(DieIfUp(n, a)) = 1
        /\ <<"container_started">> \in Seq(EventType) /\ Len(<<"container_started">>) = 1
        /\ <<"container_started">>[1] = "container_started"
    <3>1. DieIfUp(n, a) = <<"container_exited">>
      BY <1>1 DEF DieIfUp
    <3> QED
      BY <3>1, DieIfUpType DEF EventType
  <2>2. PICK types \in Seq(EventType) :
          2 \in 1..Len(types) /\ types[2] = "container_started" /\ Events(n, a, types)
    <3>1. \A q, r \in Seq(EventType) : Len(q) = 1 /\ Len(r) = 1 =>
            q \o r \in Seq(EventType) /\ Len(q \o r) = 2 /\ (q \o r)[2] = r[1]
      BY OneAndOne
    <3>2. PICK ty : ty = DieIfUp(n, a) \o <<"container_started">>
      OBVIOUS
    <3>3. ty \in Seq(EventType) /\ Len(ty) = 2 /\ ty[2] = "container_started"
      BY <2>1, <3>1, <3>2
    <3>4. Events(n, a, ty)
      BY <3>2
    <3> QED
      BY <3>3, <3>4
  <2>3. \E e \in Seen(n)' : e.app = a /\ e.type = "container_started"
    BY <2>2, EventsSeen
  <2> QED
    BY <1>1, <2>3, DieIfUpType
<1>2. CASE ~ctr[n][a].up
  <2>1. PICK types \in Seq(EventType) :
          /\ types = DieIfUp(n, a) \o <<"container_started">>
          /\ types = <<"container_started">>
    BY <1>2 DEF DieIfUp, EventType
  <2>2. Events(n, a, types) /\ 1 \in 1..Len(types) /\ types[1] = "container_started" /\ Len(types) = 1
    BY <2>1
  <2>3. \E e \in Seen(n)' : e.app = a /\ e.type = "container_started"
    BY <2>2, EventsSeen
  <2>4. \A e \in Seen(n)' : e \in Seen(n) \/ \E l \in 1..Len(types) : e.type = types[l]
    BY <2>2, EventsSeen
  <2>5. \A l \in 1..Len(types) : types[l] = "container_started"
    BY <2>2
  <2> QED
    BY <2>1, <2>3, <2>4, <2>5
<1> QED
  BY <1>1, <1>2

LEMMA AgentStartMends ==
    ASSUME QueueInv, Home, Home', Mended, UNCHANGED late, NEW n \in Node, NEW i \in inbox[n],
           AgentStart(n, i)
    PROVE  Mended'
<1>1. /\ UNCHANGED <<row, cmds, tracked>> /\ cmds[i].type = "start_sandbox" /\ IndInv
      /\ Begin(n, i, "created", TRUE)
  BY DEF AgentStart, db, QueueInv
<1>2. PICK t : t = cmds[i].sb
  OBVIOUS
<1>3. /\ AppOf[t] \in App /\ Mend(t, n) /\ ~Making(t, n) /\ call'[Evt(n)] = call[Evt(n)]
      /\ row[t].node = n
  BY <1>1, <1>2, ExecuteFacts
<1>4. /\ \E e \in Seen(n)' : e.app = AppOf[t] /\ e.type = "container_started"
      /\ ~ctr[n][AppOf[t]].up =>
           \A e \in Seen(n)' : e \in Seen(n) \/ e.type = "container_started"
      /\ \E types \in Seq(EventType) : Events(n, AppOf[t], types)
  BY <1>1, <1>2, <1>3, StartedSeen DEF AgentStart
<1>5. /\ \A m \in Node \ {n} : ctr'[m] = ctr[m]
      /\ \A a \in App : a # AppOf[t] => ctr'[n][a] = ctr[n][a]
  BY <1>1, <1>2, <1>3 DEF AgentStart, IndInv, TypeOK
<1>6. Making(t, n)'
  BY <1>1, <1>2, BeginFacts DEF Making
<1>7. Recovers(t, n)'
  BY <1>4 DEF Recovers
<1>8. ASSUME row[t].state = "failed" PROVE t \in tracked'[n]
  BY <1>1, <1>3, <1>8 DEF Mend, Failing
<1>9. ASSUME row[t].state \notin Gone, t \notin tracked[n]
      PROVE  NoExit(t, n)' /\ (call'[Evt(n)].pc # "idle" => call'[Evt(n)].sb # t)
  <2>1. /\ ctr[n][AppOf[t]] = NoContainer /\ \A e \in Seen(n) : e.app # AppOf[t]
        /\ call[Evt(n)].pc # "idle" => call[Evt(n)].sb # t
    BY <1>3, <1>9 DEF Mend, Fresh
  <2>2. \A e \in Seen(n)' : e.app = AppOf[t] => e.type = "container_started"
    BY <1>4, <2>1 DEF NoContainer
  <2> QED
    BY <1>3, <2>1, <2>2 DEF NoExit
<1>10. Mend(t, n)'
  BY <1>1, <1>6, <1>7, <1>8, <1>9 DEF Mend, Failing, Rising, Fresh
<1> QED
  BY <1>1, <1>2, <1>4, <1>5, <1>10, ExecuteMends

LEMMA AgentRestartMends ==
    ASSUME QueueInv, Home, Home', Mended, UNCHANGED late, NEW n \in Node, NEW i \in inbox[n],
           AgentRestart(n, i)
    PROVE  Mended'
<1>1. UNCHANGED <<row, cmds, tracked>> /\ cmds[i].type = "restart_sandbox" /\ IndInv
  BY DEF AgentRestart, db, QueueInv
<1>2. PICK ok \in BOOLEAN : Begin(n, i, "send", ok)
  BY DEF AgentRestart
<1>3. PICK t : t = cmds[i].sb
  OBVIOUS
<1>4. /\ AppOf[t] \in App /\ Mend(t, n) /\ ~Making(t, n) /\ call'[Evt(n)] = call[Evt(n)]
      /\ row[t].node = n
  BY <1>1, <1>2, <1>3, ExecuteFacts
<1>5. CASE HasContainer(n, i)
  <2>1. /\ ctr' = [ctr EXCEPT ![n][AppOf[t]].up = TRUE]
        /\ Events(n, AppOf[t], DieIfUp(n, AppOf[t]) \o <<"container_started">>)
    BY <1>3, <1>5 DEF AgentRestart
  <2>2. /\ \E e \in Seen(n)' : e.app = AppOf[t] /\ e.type = "container_started"
        /\ \E types \in Seq(EventType) : Events(n, AppOf[t], types)
    BY <1>1, <1>4, <2>1, StartedSeen
  <2>3. /\ \A m \in Node \ {n} : ctr'[m] = ctr[m]
        /\ \A a \in App : a # AppOf[t] => ctr'[n][a] = ctr[n][a]
    BY <1>1, <1>4, <2>1 DEF IndInv, TypeOK
  <2>4. Recovers(t, n)'
    BY <2>2 DEF Recovers
  <2>5. row[t].state \notin Gone => t \in tracked'[n]
    BY <1>1, <1>3, <1>4, <1>5 DEF Mend, Fresh, HasContainer, NoContainer
  <2>6. row[t].state = "failed" => row[t].state \notin Gone
    BY DEF Gone
  <2>7. Mend(t, n)'
    BY <1>1, <2>4, <2>5, <2>6 DEF Mend, Failing, Rising, Fresh
  <2> QED
    BY <1>1, <1>2, <1>3, <2>2, <2>3, <2>7, ExecuteMends
<1>6. CASE ~HasContainer(n, i)
  <2>1. UNCHANGED <<ctr, evq>>
    BY <1>6 DEF AgentRestart
  <2>2. /\ Moved(Ack(n)) /\ call'[Ack(n)].pc = "send" /\ call[Ack(n)].pc = "idle"
        /\ \A j \in 1..Len(cmds) : j # i => (Taken(j)' <=> Taken(j))
    BY <1>1, <1>2, BeginFacts
  <2>3. Due(t) => Due(t)'
    <3>1. \A j \in 1..Len(cmds) : StartOf(j, t) /\ ~Taken(j) => StartOf(j, t)' /\ ~Taken(j)'
      BY <1>1, <2>2 DEF StartOf
    <3>2. Working(Proc, t, OwesPc) => Working(Proc, t, OwesPc)'
      BY <2>2 DEF Working, Moved, OwesPc
    <3> QED
      BY <1>1, <3>1, <3>2 DEF Due
  <2>4. SameOn(t, n)
    BY <1>1, <1>4, <2>1, <2>2, SameSeen DEF SameOn, EvtSame, Making
  <2>5. Mend(t, n)'
    BY <1>1, <1>4, <2>3, <2>4, MendStays
  <2> QED
    BY <1>1, <1>2, <1>3, <2>1, <2>5, ExecuteMends
<1> QED
  BY <1>5, <1>6

LEMMA AgentMendStep ==
    ASSUME QueueInv, Home, Home', Mended, UNCHANGED late, NEW n \in Node, AgentStep(n)
    PROVE  Mended'
  BY AgentPollMends, TrackMends, AgentStartMends, AgentStopMends, AgentRestartMends DEF AgentStep

-----------------------------------------------------------------------------
(* HandleAck. *)

\* The loop of n ends, or goes on with its command.
LEMMA LoopKept ==
    ASSUME QueueInv, Mended, Logged, NEW n \in Node, call[Ack(n)].pc # "idle",
           \/ call'[Ack(n)].pc = "idle"
           \/ /\ call'[Ack(n)].pc \notin {"created", "stopped"}
              /\ call'[Ack(n)].pc = "ack_cas" => call'[Ack(n)].nxt # "failed"
              /\ call'[Ack(n)].cmd = call[Ack(n)].cmd /\ call'[Ack(n)].ok = call[Ack(n)].ok
    PROVE  LoopMends(call[Ack(n)])'
<1>1. LoopMends(call[Ack(n)]) /\ call[Ack(n)].cmd \in 1..Len(cmds)
  BY AckFacts DEF Mended, NodesHome, QueueInv
<1>2. CASE call'[Ack(n)].pc = "idle"
  BY <1>2 DEF LoopMends
<1>3. CASE call'[Ack(n)].pc # "idle"
  <2>1. PICK i \in 1..Len(cmds) : i = call[Ack(n)].cmd /\ i = call'[Ack(n)].cmd
    BY <1>1, <1>3
  <2>2. cmds'[i].type = cmds[i].type
    BY DEF Logged
  <2> QED
    BY <1>1, <1>3, <2>1, <2>2 DEF LoopMends, StartAck
<1> QED
  BY <1>2, <1>3

\* HandleAck takes no sandbox to 'starting' or 'failed'.
LEMMA AckMends ==
    ASSUME QueueInv, Home, Home', Mended, NEW n \in Node, Moved(Ack(n)),
           UNCHANGED <<tracked, ctr, evq, late>>, Logged, Len(cmds') = Len(cmds),
           call[Ack(n)].pc \notin {"idle", "created"},
           \/ call'[Ack(n)].pc = "idle"
           \/ /\ call'[Ack(n)].pc \notin {"created", "stopped"}
              /\ call'[Ack(n)].pc = "ack_cas" => call'[Ack(n)].nxt # "failed"
              /\ call'[Ack(n)].cmd = call[Ack(n)].cmd /\ call'[Ack(n)].ok = call[Ack(n)].ok,
           \A s : Due(s) => Due(s)',
           \A s \in Refs : \/ row'[s].state = row[s].state
                           \/ row'[s].state \in Gone
                           \/ row[s].state \notin Gone /\ row'[s].state = "running"
    PROVE  Mended'
<1>1. /\ Ack(n) \in Proc /\ \A m \in Node : Ack(n) # Evt(m) /\ (Ack(n) = Ack(m) => m = n)
      /\ call'[Ack(n)].pc # "created"
  BY ProcFacts
<1>2. LoopMends(call[Ack(n)])'
  BY LoopKept
<1>3. NodesHome'
  BY <1>1, <1>2, NodesStay DEF Mended
<1>4. ASSUME NEW s \in Refs, NEW m \in Node, row[s].node = m, Mend(s, m) PROVE Mend(s, m)'
  <2>1. SameOn(s, m)
    BY <1>1, SameNodes
  <2>2. CASE row'[s].state = row[s].state
    BY <1>4, <2>1, <2>2, MendStays
  <2>3. CASE row'[s].state \in Gone
    BY <2>3, MendGone
  <2>4. CASE row[s].state \notin Gone /\ row'[s].state = "running"
    BY <1>4, <2>1, <2>4, MendLeaves
  <2> QED
    BY <2>2, <2>3, <2>4
<1> QED
  BY <1>3, <1>4, MendFrame

\* HandleAck reads, or writes nothing that matters.
LEMMA AckOnMends ==
    ASSUME QueueInv, Home, Home', Mended, NEW n \in Node, Moved(Ack(n)),
           UNCHANGED <<cmds, inbox, tracked, ctr, evq, late>>,
           call[Ack(n)].pc \notin {"idle", "created"} \cup OwesPc,
           \/ call'[Ack(n)].pc = "idle"
           \/ /\ call'[Ack(n)].pc \notin {"created", "stopped"}
              /\ call'[Ack(n)].pc = "ack_cas" => call'[Ack(n)].nxt # "failed"
              /\ call'[Ack(n)].cmd = call[Ack(n)].cmd /\ call'[Ack(n)].ok = call[Ack(n)].ok,
           \A s \in Refs : \/ row'[s].state = row[s].state
                           \/ row'[s].state \in Gone
                           \/ row[s].state \notin Gone /\ row'[s].state = "running"
    PROVE  Mended'
<1>1. IndInv /\ Logged /\ Ack(n) \in Proc
  BY SameLog, ProcFacts DEF QueueInv
<1>2. \A s : Due(s) => Due(s)'
  BY <1>1, DueStays
<1> QED
  BY <1>1, <1>2, AckMends

LEMMA AckReadMends ==
    ASSUME QueueInv, Home, Home', Mended, UNCHANGED late, NEW n \in Node,
           AckRead(n) \/ AckReread(n)
    PROVE  Mended'
<1> DEFINE k == call[Ack(n)]
           ev == AckEvent(cmds[k.cmd].type, k.ok, row[k.sb].state)
<1>1. /\ UNCHANGED <<row, cmds, inbox, tracked, ctr, evq, late>> /\ IndInv
      /\ k.pc \in {"send", "ack_reread"} /\ Ack(n) \in Proc
  BY ProcFacts DEF AckRead, AckReread, At, db, agents, QueueInv
<1>2. CASE Return(Ack(n))
  <2>1. Moved(Ack(n)) /\ call'[Ack(n)].pc = "idle"
    BY <1>1, <1>2, ReturnFacts
  <2> QED
    BY <1>1, <2>1, AckOnMends DEF OwesPc
<1>3. CASE Step(Ack(n), "ack_done")
  <2>1. /\ Moved(Ack(n)) /\ call'[Ack(n)].pc = "ack_done" /\ call'[Ack(n)].cmd = k.cmd
        /\ call'[Ack(n)].ok = k.ok
    BY <1>1, <1>3, LoopSteps DEF Pc
  <2> QED
    BY <1>1, <2>1, AckOnMends DEF OwesPc
<1>4. ASSUME NEW nxt, NEW pc \in {"ack_cas", AfterTransition(nxt)}, pc = "ack_cas" => nxt # "failed",
             Become(Ack(n), Reading(pc, k.sb, nxt, k.cmd, k.ok))
      PROVE  Mended'
  <2>1. /\ Moved(Ack(n)) /\ call'[Ack(n)].pc = pc /\ call'[Ack(n)].nxt = nxt
        /\ call'[Ack(n)].cmd = k.cmd /\ call'[Ack(n)].ok = k.ok
    BY <1>1, <1>4, LoopReads
  <2>2. pc \in {"ack_cas", "ack_persist", "ack_route"}
    BY <1>4 DEF AfterTransition
  <2> QED
    BY <1>1, <1>4, <2>1, <2>2, AckOnMends DEF OwesPc
<1>5. CASE AckRead(n)
  <2>1. LoopMends(k) /\ cmds[k.cmd] \in Command
    BY <1>1, AckFacts DEF Mended, NodesHome
  <2>2. ev \in {"none", "started", "destroyed"}
    BY <1>1, <2>1 DEF LoopMends, StartAck, AckEvent, Command, CmdType
  <2>3. PICK st :
           \/ Step(Ack(n), "ack_done") \/ Return(Ack(n))
           \/ /\ ev # "none" /\ \E to \in NextState(row[k.sb].state, ev) :
                Become(Ack(n), Reading("ack_cas", k.sb, to, k.cmd, k.ok))
           \/ Become(Ack(n), Reading(AfterTransition(st), k.sb, st, k.cmd, k.ok))
    BY <1>5 DEF AckRead
  <2>4. ev # "none" => \A to \in NextState(row[k.sb].state, ev) : to # "failed"
    BY <2>2, AckMoves
  <2>5. AfterTransition(st) # "ack_cas"
    BY DEF AfterTransition
  <2> QED
    BY <1>2, <1>3, <1>4, <2>3, <2>4, <2>5
<1>6. CASE AckReread(n)
  <2>1. AfterTransition(k.nxt) # "ack_cas"
    BY DEF AfterTransition
  <2> QED
    BY <1>2, <1>4, <1>6, <2>1 DEF AckReread
<1> QED
  BY <1>5, <1>6

LEMMA AckCasMends ==
    ASSUME QueueInv, Home, Home', Mended, UNCHANGED late, NEW n \in Node, AckCas(n)
    PROVE  Mended'
<1> DEFINE k == call[Ack(n)]
<1>1. UNCHANGED <<cmds, inbox, tracked, ctr, evq, late>> /\ IndInv /\ k.pc = "ack_cas"
  BY DEF AckCas, At, agents, QueueInv
<1>2. PICK t \in Sandbox : t = k.sb
  BY <1>1, LoopHome
<1>3. <<k.st, k.nxt>> \in AckEdge /\ k.nxt # "failed"
  BY <1>1 DEF IndInv, AckInv, AckOK, Mended, NodesHome, LoopMends
<1>4. PICK pc \in {"ack_reread", "ack_persist", "ack_route"} : Step(Ack(n), pc)
  BY DEF AckCas, AfterTransition
<1>5. /\ Moved(Ack(n)) /\ call'[Ack(n)].pc = pc /\ call'[Ack(n)].cmd = k.cmd
      /\ call'[Ack(n)].ok = k.ok
  BY <1>1, <1>4, LoopSteps DEF Pc
<1>6. \A s \in Sandbox : \/ row'[s].state = row[s].state
                         \/ s = t /\ row'[s].state = k.nxt /\ row[s].state = k.st
  BY <1>1, <1>2 DEF AckCas, SetState, StateIs, IndInv, TypeOK, Row
<1>7. \A s \in Refs : s \in Sandbox
  BY <1>1, NamedHome
<1>8. k.nxt \in Gone \/ (k.st \notin Gone /\ k.nxt = "running")
  BY <1>3 DEF AckEdge, Gone
<1> QED
  BY <1>1, <1>5, <1>6, <1>7, <1>8, AckOnMends DEF OwesPc

\* The statements after the transition.
LEMMA AckAfterMends ==
    ASSUME QueueInv, Home, Home', Mended, UNCHANGED late, NEW n \in Node,
           AckPersist(n) \/ AckRefetch(n) \/ AckRoute(n) \/ AckReset(n)
    PROVE  Mended'
<1> DEFINE k == call[Ack(n)]
<1>1. /\ UNCHANGED <<cmds, inbox, tracked, ctr, evq, late>> /\ IndInv
      /\ k.pc \in {"ack_persist", "ack_refetch", "ack_route", "ack_reset"}
  BY DEF AckPersist, AckRefetch, AckRoute, AckReset, At, agents, db, QueueInv
<1>2. PICK t \in Sandbox : t = k.sb
  BY <1>1, LoopHome
<1>3. \A s \in Sandbox : row'[s].state = row[s].state
  BY <1>1, <1>2 DEF AckPersist, AckRefetch, AckRoute, AckReset, IndInv, TypeOK, Row, db
<1>4. \A s \in Refs : s \in Sandbox
  BY <1>1, NamedHome
<1>5. PICK pc \in {"ack_refetch", "ack_route", "ack_reset", "ack_done"} :
        Step(Ack(n), pc) \/ Become(Ack(n), Reading(pc, k.sb, k.nxt, k.cmd, k.ok))
  BY DEF AckPersist, AckRefetch, AckRoute, AckReset
<1>6. /\ Moved(Ack(n)) /\ call'[Ack(n)].pc = pc /\ call'[Ack(n)].cmd = k.cmd
      /\ call'[Ack(n)].ok = k.ok
  <2>1. CASE Step(Ack(n), pc)
    BY <1>1, <2>1, LoopSteps DEF Pc
  <2>2. CASE Become(Ack(n), Reading(pc, k.sb, k.nxt, k.cmd, k.ok))
    BY <1>1, <2>2, LoopReads
  <2> QED
    BY <1>5, <2>1, <2>2
<1> QED
  BY <1>1, <1>3, <1>4, <1>6, AckOnMends DEF OwesPc

LEMMA AckDoneMends ==
    ASSUME QueueInv, Home, Home', Mended, UNCHANGED late, NEW n \in Node, AckDone(n)
    PROVE  Mended'
<1> DEFINE k == call[Ack(n)]
<1>1. /\ UNCHANGED <<row, inbox, tracked, ctr, evq>> /\ k.pc = "ack_done" /\ Return(Ack(n))
      /\ IndInv /\ Ack(n) \in Proc
  BY ProcFacts DEF AckDone, At, agents, QueueInv
<1>0. cmds \in Seq(Command)
  BY <1>1 DEF IndInv, TypeOK
<1>2. PICK st \in {"completed", "failed"} : cmds' = [cmds EXCEPT ![k.cmd].status = st]
  BY DEF AckDone
<1>3. k.cmd \in 1..Len(cmds) /\ cmds[k.cmd] \in Command /\ cmds[k.cmd].status = "dispatched"
  BY <1>1, AckFacts DEF QueueInv, SpentInv
<1>4. Len(cmds) \in Nat /\ Len(cmds') = Len(cmds)
  BY <1>1, <1>2, <1>3 DEF IndInv, TypeOK
<1>5. ASSUME NEW i \in 1..Len(cmds)
      PROVE  /\ cmds'[i].sb = cmds[i].sb /\ cmds'[i].type = cmds[i].type
             /\ cmds'[i].node = cmds[i].node
             /\ Taken(i)' <=> Taken(i)
  <2>1. CASE i # k.cmd
    <3>1. cmds'[i] = cmds[i]
      BY <1>0, <1>2, <1>3, <2>1
    <3> QED
      BY <1>1, <3>1 DEF Taken
  <2>2. CASE i = k.cmd
    <3>1. cmds'[i] = [cmds[i] EXCEPT !.status = st]
      BY <1>0, <1>2, <1>3, <2>2
    <3> QED
      BY <1>1, <1>3, <2>2, <3>1 DEF Taken, Command
  <2> QED
    BY <2>1, <2>2
<1>6. Logged
  BY <1>4, <1>5 DEF Logged
<1>7. Moved(Ack(n)) /\ call'[Ack(n)].pc = "idle"
  BY <1>1, ReturnFacts
<1>8. ASSUME NEW s PROVE Due(s) => Due(s)'
  <2>1. \A i \in 1..Len(cmds) : StartOf(i, s) /\ ~Taken(i) => StartOf(i, s)' /\ ~Taken(i)'
    BY <1>4, <1>5 DEF StartOf
  <2>2. Working(Proc, s, OwesPc) => Working(Proc, s, OwesPc)'
    BY <1>1, <1>7 DEF Working, Moved, OwesPc
  <2> QED
    BY <1>4, <2>1, <2>2 DEF Due
<1> QED
  BY <1>1, <1>4, <1>6, <1>7, <1>8, AckMends

LEMMA AckMendStep ==
    ASSUME QueueInv, Home, Home', Mended, UNCHANGED late, NEW n \in Node, HandleAck(n)
    PROVE  Mended'
  BY AckReadMends, AckCasMends, AckAfterMends, AckDoneMends DEF HandleAck

-----------------------------------------------------------------------------
(* HandleEvent. *)

Of(q) == {q[j] : j \in 1..Len(q)}

LEMMA TailOf ==
    ASSUME NEW q \in EventSeq, q # <<>>
    PROVE  Tail(q) \in EventSeq /\ Of(q) = {Head(q)} \cup Of(Tail(q))
<1>1. PICK r : r = Tail(q)
  OBVIOUS
<1>2. /\ r \in EventSeq /\ Len(q) \in Nat /\ Len(q) > 0 /\ Head(q) = q[1]
      /\ Len(r) = Len(q) - 1 /\ \A j \in 1..Len(r) : r[j] = q[j + 1]
  BY <1>1 DEF EventSeq
<1>3. ASSUME NEW j \in 1..Len(r) PROVE j + 1 \in 1..Len(q)
  BY <1>2
<1>4. ASSUME NEW j \in 1..Len(q) PROVE q[j] = q[1] \/ q[j] \in Of(r)
  <2>1. CASE j = 1
    BY <2>1
  <2>2. CASE j # 1
    <3>1. j - 1 \in 1..Len(r) /\ (j - 1) + 1 = j
      BY <1>2, <2>2
    <3>2. r[j - 1] = q[j]
      BY <1>2, <3>1
    <3> QED
      BY <3>1, <3>2 DEF Of
  <2> QED
    BY <2>1, <2>2
<1>5. 1 \in 1..Len(q)
  BY <1>2
<1>6. \A j \in 1..Len(r) : r[j] \in Of(q)
  BY <1>2, <1>3 DEF Of
<1>7. Of(q) \subseteq {q[1]} \cup Of(r)
  BY <1>4 DEF Of
<1>8. {q[1]} \cup Of(r) \subseteq Of(q)
  BY <1>5, <1>6 DEF Of
<1> QED
  BY <1>1, <1>2, <1>7, <1>8

\* HandleEvent is given the first event of the queue.
LEMMA HeadSeen ==
    ASSUME IndInv, NEW n \in Node, evq[n] # <<>>,
           evq' = [evq EXCEPT ![n] = Tail(@)], UNCHANGED late
    PROVE  /\ Head(evq[n]) \in Seen(n) /\ Seen(n)' \subseteq Seen(n)
           /\ \A e \in Seen(n) : e = Head(evq[n]) \/ e \in Seen(n)'
           /\ \A m \in Node \ {n} : Seen(m)' = Seen(m)
<1>1. evq \in [Node -> EventSeq]
  BY DEF IndInv, TypeOK, EventSeq
<1>2. \A m \in Node : evq'[m] = IF m = n THEN Tail(evq[n]) ELSE evq[m]
  BY <1>1
<1>3. PICK q, r : q = evq[n] /\ r = evq'[n] /\ r = Tail(q) /\ q \in EventSeq
  BY <1>1, <1>2
<1>4. Of(q) = {Head(q)} \cup Of(r)
  BY <1>3, TailOf
<1>5. Seen(n) = Of(q) \cup late[n] /\ Seen(n)' = Of(r) \cup late[n]
  BY <1>3 DEF Seen, Of
<1>6. \A m \in Node \ {n} : Seen(m)' = Seen(m)
  BY <1>2 DEF Seen
<1> QED
  BY <1>3, <1>4, <1>5, <1>6

LEMMA StartedMoves ==
    /\ NextState("failed", "started") = {"running"}
    /\ NextState("starting", "started") = {"running"}
    /\ \A st : NextState(st, "started") \subseteq {"running"}
  BY DEF NextState, ValidTransitions, State

\* The news of a start is read: the sandbox is about to be taken to 'running'.
LEMMA NewsMends ==
    ASSUME QueueInv, Home, Mended, UNCHANGED <<row, tracked, ctr>>, NEW n \in Node, NEW t \in Refs,
           row[t].node = n, t \in tracked[n], Due(t) => Due(t)', NEW e, e.app = AppOf[t],
           call[Evt(n)].pc = "idle", Seen(n)' \subseteq Seen(n),
           \A x \in Seen(n) : x = e \/ x \in Seen(n)',
           e \in Seen(n),
           \/ /\ call'[Evt(n)].pc = "idle"
              /\ NextState(row[t].state, MachineEvent(e.type)) = {}
           \/ /\ call'[Evt(n)].pc = "event_cas" /\ call'[Evt(n)].sb = t
              /\ call'[Evt(n)].st = row[t].state
              /\ call'[Evt(n)].nxt \in NextState(row[t].state, MachineEvent(e.type))
    PROVE  Mend(t, n)'
<1>1. Mend(t, n)
  BY DEF Mended, Mends
<1>2. ASSUME row[t].state \in {"failed", "starting"}, Recovers(t, n) PROVE Recovers(t, n)'
  <2>1. CASE Due(t)
    BY <2>1 DEF Recovers
  <2>2. ASSUME NEW x \in Seen(n), x.app = AppOf[t], x.type = "container_started"
        PROVE  Recovers(t, n)'
    <3>1. CASE x \in Seen(n)'
      BY <2>2, <3>1 DEF Recovers
    <3>2. CASE x = e
      <4>1. NextState(row[t].state, MachineEvent(e.type)) = {"running"}
        BY <1>2, <2>2, <3>2, StartedMoves DEF MachineEvent
      <4> QED
        BY <4>1 DEF Recovers
    <3> QED
      BY <3>1, <3>2
  <2> QED
    BY <1>2, <2>1, <2>2 DEF Recovers
<1>3. ASSUME NoExit(t, n) PROVE NoExit(t, n)'
  <2>1. e.type = "container_started"
    BY <1>3 DEF NoExit
  <2>2. call'[Evt(n)].pc = "event_cas" => call'[Evt(n)].nxt = "running"
    BY <2>1, StartedMoves DEF MachineEvent
  <2> QED
    BY <1>3, <2>2 DEF NoExit
<1> QED
  BY <1>1, <1>2, <1>3 DEF Mend, Failing, Rising, Fresh

LEMMA EventReadMends ==
    ASSUME QueueInv, Home, Home', Mended, UNCHANGED late, NEW n \in Node, EventRead(n)
    PROVE  Mended'
<1>1. PICK e : e = Head(evq[n])
  OBVIOUS
<1>2. /\ UNCHANGED <<row, cmds, inbox, tracked, ctr>> /\ evq[n] # <<>> /\ IndInv
      /\ evq' = [evq EXCEPT ![n] = Tail(@)] /\ call[Evt(n)].pc = "idle" /\ Evt(n) \in Proc
  BY ProcFacts DEF EventRead, At, db, QueueInv
<1>3. /\ e \in Seen(n) /\ Seen(n)' \subseteq Seen(n)
      /\ \A x \in Seen(n) : x = e \/ x \in Seen(n)'
      /\ \A m \in Node \ {n} : Seen(m)' = Seen(m)
  BY <1>1, <1>2, HeadSeen
<1>4. \A s \in tracked[n] : s \in Refs /\ s \in Sandbox /\ Exists(s) /\ row[s].node = n
  BY <1>2, NamedHome DEF IndInv, AgentInv, Mended, NodesHome, NodeHome
<1>5. \/ UNCHANGED call /\ \A s \in tracked[n] : AppOf[s] # e.app
      \/ \E s \in tracked[n] :
           /\ AppOf[s] = e.app
           /\ \/ UNCHANGED call /\ NextState(row[s].state, MachineEvent(e.type)) = {}
              \/ \E to \in NextState(row[s].state, MachineEvent(e.type)) :
                   Become(Evt(n), ReadRow("event_cas", s, to))
  BY <1>1, <1>4 DEF EventRead
<1>6. \/ UNCHANGED call /\ \A s \in tracked[n] : AppOf[s] # e.app
      \/ \E s \in tracked[n] :
           /\ AppOf[s] = e.app /\ Moved(Evt(n))
           /\ \/ UNCHANGED call /\ NextState(row[s].state, MachineEvent(e.type)) = {}
              \/ /\ call'[Evt(n)].pc = "event_cas" /\ call'[Evt(n)].sb = s
                 /\ call'[Evt(n)].st = row[s].state
                 /\ call'[Evt(n)].nxt \in NextState(row[s].state, MachineEvent(e.type))
  <2>1. ASSUME NEW s \in tracked[n], NEW to \in NextState(row[s].state, MachineEvent(e.type)),
               Become(Evt(n), ReadRow("event_cas", s, to))
        PROVE  /\ Moved(Evt(n)) /\ call'[Evt(n)].pc = "event_cas" /\ call'[Evt(n)].sb = s
               /\ call'[Evt(n)].st = row[s].state /\ call'[Evt(n)].nxt = to
    <3>1. to \in State /\ s \in Sandbox
      BY <1>4 DEF NextState
    <3> QED
      BY <1>2, <2>1, <3>1, ReadRowFacts
  <2>2. UNCHANGED call => Moved(Evt(n))
    BY DEF Moved
  <2> QED
    BY <1>5, <2>1, <2>2
<1>7. Moved(Evt(n)) /\ Logged
  BY <1>2, <1>6, SameLog DEF Moved
<1>8. \A s : Due(s) => Due(s)'
  BY <1>2, <1>7, DueStays DEF OwesPc
<1>9. \A m \in Node : call'[Ack(m)] = call[Ack(m)] /\ (m # n => call'[Evt(m)] = call[Evt(m)])
  BY <1>7, ProcFacts DEF Moved
<1>10. NodesHome'
  <2> SUFFICES ASSUME NEW m \in Node
               PROVE  EvtAt(call[Evt(m)], m)' /\ NodeHome(m)' /\ LoopMends(call[Ack(m)])'
    BY DEF NodesHome
  <2>1. EvtAt(call[Evt(m)], m) /\ NodeHome(m) /\ LoopMends(call[Ack(m)]) /\ Refs' = Refs
    BY <1>2 DEF Mended, NodesHome, Refs
  <2>2. EvtAt(call[Evt(m)], m)'
    <3>1. CASE m # n
      BY <1>2, <1>9, <2>1, <3>1 DEF EvtAt
    <3>2. CASE m = n
      BY <1>2, <1>4, <1>6, <3>2 DEF EvtAt
    <3> QED
      BY <3>1, <3>2
  <2>3. NodeHome(m)'
    <3>1. Seen(m)' \subseteq Seen(m)
      BY <1>3
    <3> QED
      BY <1>2, <2>1, <3>1 DEF NodeHome
  <2>4. LoopMends(call[Ack(m)])'
    BY <1>2, <1>9, <2>1 DEF LoopMends, StartAck
  <2> QED
    BY <2>2, <2>3, <2>4
<1>11. ASSUME NEW t \in Refs, NEW m \in Node, row[t].node = m, Mend(t, m) PROVE Mend(t, m)'
  <2>1. Making(t, m)' <=> Making(t, m)
    BY <1>9 DEF Making
  <2>2. CASE m # n
    <3>1. SameOn(t, m)
      BY <1>2, <1>3, <1>9, <2>1, <2>2 DEF SameOn, EvtSame
    <3> QED
      BY <1>2, <1>8, <1>11, <3>1, MendStays
  <2>3. CASE m = n /\ AppOf[t] # e.app
    <3>1. \A x : x.app = AppOf[t] => (x \in Seen(n)' <=> x \in Seen(n))
      BY <1>3, <2>3
    <3>2. EvtSame(t, n)
      BY <1>2, <1>6, <2>3 DEF EvtSame
    <3>3. SameOn(t, n)
      BY <1>2, <2>1, <2>3, <3>1, <3>2 DEF SameOn
    <3> QED
      BY <1>2, <1>8, <1>11, <2>3, <3>3, MendStays
  <2>4. CASE m = n /\ AppOf[t] = e.app /\ t \notin tracked[n]
    <3>1. UNCHANGED call
      <4>1. \A s \in tracked[n] : AppOf[s] # e.app
        BY <1>2, <1>4, <2>4, NamedHome
      <4> QED
        BY <1>6, <4>1
    <3>2. NoExit(t, n) => NoExit(t, n)'
      BY <1>3, <3>1 DEF NoExit
    <3>3. CASE row[t].state \in Gone
      BY <1>2, <3>3, MendGone
    <3>4. CASE row[t].state \notin Gone
      <4>1. Fresh(t, n) /\ row[t].state # "failed" /\ Making(t, n)
        BY <1>3, <1>11, <2>4, <3>4 DEF Mend, Failing, Fresh
      <4> QED
        BY <1>2, <2>1, <2>4, <3>1, <3>2, <3>4, <4>1 DEF Mend, Failing, Rising, Fresh
    <3> QED
      BY <3>3, <3>4
  <2>5. CASE m = n /\ AppOf[t] = e.app /\ t \in tracked[n]
    <3>1. \A s \in tracked[n] : AppOf[s] = e.app => s = t
      BY <1>2, <1>4, <2>5, NamedHome
    <3>2. \/ UNCHANGED call /\ NextState(row[t].state, MachineEvent(e.type)) = {}
          \/ /\ call'[Evt(n)].pc = "event_cas" /\ call'[Evt(n)].sb = t
             /\ call'[Evt(n)].st = row[t].state
             /\ call'[Evt(n)].nxt \in NextState(row[t].state, MachineEvent(e.type))
      BY <1>6, <2>5, <3>1
    <3> QED
      BY <1>2, <1>3, <1>8, <1>11, <2>5, <3>2, NewsMends
  <2> QED
    BY <2>2, <2>3, <2>4, <2>5
<1> QED
  BY <1>2, <1>7, <1>10, <1>11, MendFrame

\* The handler of n goes on with sandbox s, whose row it may write.
LEMMA EvtMends ==
    ASSUME QueueInv, Home, Home', Mended, NEW n \in Node, Moved(Evt(n)),
           UNCHANGED <<cmds, inbox, tracked, ctr, evq, late>>,
           NEW s \in Sandbox, s = call[Evt(n)].sb, call[Evt(n)].pc \notin {"idle"} \cup OwesPc,
           call'[Evt(n)].pc = "idle" \/ call'[Evt(n)].sb = s,
           \A t \in Sandbox : t # s => row'[t].state = row[t].state,
           Mend(s, n)'
    PROVE  Mended'
<1>1. /\ IndInv /\ Logged /\ Evt(n) \in Proc
      /\ \A m \in Node : Evt(n) # Ack(m) /\ (Evt(n) = Evt(m) => n = m)
  BY SameLog, ProcFacts DEF QueueInv
<1>2. s \in Refs /\ row[s].node = n
  BY <1>1 DEF IndInv, EvtInv, EvtOK, Mended, NodesHome, EvtAt
<1>3. EvtAt(call[Evt(n)], n)'
  BY <1>1, <1>2, NamedKept DEF EvtAt
<1>4. NodesHome'
  BY <1>1, <1>3, NodesStay DEF Mended
<1>5. ASSUME NEW t \in Refs, NEW m \in Node, row[t].node = m, Mend(t, m) PROVE Mend(t, m)'
  <2>1. CASE t = s
    BY <1>2, <1>5, <2>1
  <2>2. CASE t # s
    <3>1. Evt(n) = Evt(m) => EvtSame(t, m)
      BY <1>1, <2>2 DEF EvtSame
    <3>2. SameOn(t, m)
      BY <1>1, <3>1, SameNodes
    <3>3. Due(t) => Due(t)'
      BY <1>1, DueStays
    <3>4. t \in Sandbox
      BY <1>1, NamedHome
    <3> QED
      BY <1>5, <2>2, <3>2, <3>3, <3>4, MendStays
  <2> QED
    BY <2>1, <2>2
<1> QED
  BY <1>1, <1>4, <1>5, MendFrame

\* The facts the steps of the handler of n start from.
LEMMA EvtMendFacts ==
    ASSUME QueueInv, Home, Mended, NEW n \in Node, call[Evt(n)].pc # "idle"
    PROVE  /\ call[Evt(n)].sb \in Sandbox /\ call[Evt(n)].sb \in Refs
           /\ row[call[Evt(n)].sb].node = n /\ EvtOK(n, call[Evt(n)])
           /\ Mend(call[Evt(n)].sb, n)
           /\ row[call[Evt(n)].sb].state \notin Gone => call[Evt(n)].sb \in tracked[n]
<1>1. IndInv /\ EvtOK(n, call[Evt(n)]) /\ EvtAt(call[Evt(n)], n)
  BY DEF QueueInv, IndInv, EvtInv, Mended, NodesHome
<1>2. Mend(call[Evt(n)].sb, n)
  BY <1>1 DEF EvtAt, EvtOK, Mended, Mends
<1> QED
  BY <1>1, <1>2 DEF EvtOK, EvtAt, Mend, Fresh

\* The handler's last step on a sandbox whose state stays.
LEMMA EvtEndsMend ==
    ASSUME NEW s, NEW n \in Node, Mend(s, n), UNCHANGED <<tracked, ctr, evq, late>>,
           Due(s) => Due(s)', row'[s].state = row[s].state, Making(s, n)' <=> Making(s, n),
           call[Evt(n)].sb = s, call'[Evt(n)].pc # "event_cas",
           call'[Evt(n)].pc # "idle" => call[Evt(n)].pc # "idle" /\ call'[Evt(n)].sb = s,
           call[Evt(n)].pc = "event_cas" => call[Evt(n)].st # row[s].state
    PROVE  Mend(s, n)'
<1>1. Seen(n)' = Seen(n)
  BY SameSeen
<1>2. Recovers(s, n) => Recovers(s, n)'
  BY <1>1 DEF Recovers
<1>3. NoExit(s, n) => NoExit(s, n)'
  BY <1>1 DEF NoExit
<1>4. Fresh(s, n)'
  BY <1>1, <1>3 DEF Mend, Fresh
<1> QED
  BY <1>2, <1>3, <1>4 DEF Mend, Failing, Rising

LEMMA EventCasMends ==
    ASSUME QueueInv, Home, Home', Mended, UNCHANGED late, NEW n \in Node, EventCas(n)
    PROVE  Mended'
<1> DEFINE k == call[Evt(n)]
<1>1. /\ UNCHANGED <<cmds, inbox, tracked, ctr, evq>> /\ k.pc = "event_cas" /\ IndInv
      /\ Evt(n) \in Proc /\ \A m \in Node : Evt(n) # Ack(m)
  BY ProcFacts DEF EventCas, At, agents, QueueInv
<1>2. PICK s \in Sandbox : s = k.sb /\ s \in Refs /\ Mend(s, n) /\ row[s].node = n
  BY <1>1, EvtMendFacts
<1>3. <<k.st, k.nxt>> \in EventEdge
  BY <1>1 DEF IndInv, EvtInv, EvtOK
<1>4. Return(Evt(n)) \/ Step(Evt(n), "event_route")
  BY DEF EventCas
<1>5. /\ Moved(Evt(n)) /\ call'[Evt(n)].pc \in {"idle", "event_route"}
      /\ call'[Evt(n)].pc = "idle" \/ call'[Evt(n)].sb = s
  BY <1>1, <1>2, <1>4, StepFacts, ReturnFacts DEF Pc
<1>6. /\ \A t \in Sandbox : t # s => row'[t].state = row[t].state
      /\ \/ row'[s].state = row[s].state /\ row[s].state # k.st
         \/ row'[s].state = k.nxt /\ row[s].state = k.st
  BY <1>1, <1>2 DEF EventCas, SetState, StateIs, IndInv, TypeOK, Row
<1>7. Due(s) => Due(s)'
  BY <1>1, <1>5, DueStays DEF OwesPc
<1>8. Making(s, n)' <=> Making(s, n)
  BY <1>1, <1>5, ProcFacts DEF Making, Moved
<1>9. Mend(s, n)'
  <2>1. CASE row'[s].state = row[s].state /\ row[s].state # k.st
    BY <1>1, <1>2, <1>5, <1>7, <1>8, <2>1, EvtEndsMend
  <2>2. CASE row'[s].state = k.nxt /\ row[s].state = k.st
    <3>1. s \in tracked'[n]
      <4>1. k.st \notin Gone
        BY <1>3 DEF EventEdge, Gone
      <4> QED
        BY <1>1, <1>2, <2>2, <4>1, EvtMendFacts
    <3>2. CASE k.nxt # "failed"
      <4>1. k.nxt \notin {"starting", "failed"}
        BY <1>3, <3>2 DEF EventEdge
      <4> QED
        BY <2>2, <3>1, <4>1 DEF Mend, Failing, Rising, Fresh
    <3>3. CASE k.nxt = "failed"
      <4>1. k.st = "starting"
        BY <1>3, <3>3 DEF EventEdge
      <4>2. ~NoExit(s, n)
        BY <1>1, <1>2, <3>3 DEF NoExit
      <4>3. ctr[n][AppOf[s]].up => Recovers(s, n)
        BY <1>2, <2>2, <4>1, <4>2 DEF Mend, Rising
      <4>4. Recovers(s, n) => Recovers(s, n)'
        BY <1>1, <1>7, <3>3, SameSeen DEF Recovers
      <4> QED
        BY <1>1, <2>2, <3>1, <3>3, <4>3, <4>4 DEF Mend, Failing, Rising, Fresh
    <3> QED
      BY <3>2, <3>3
  <2> QED
    BY <1>6, <2>1, <2>2
<1> QED
  BY <1>1, <1>2, <1>5, <1>6, <1>9, EvtMends DEF OwesPc

\* HandleCrash, up to its start command.
LEMMA CrashMends ==
    ASSUME QueueInv, Home, Home', Mended, UNCHANGED late, NEW n \in Node,
           EventRoute(n) \/ CrashInc(n) \/ CrashFail(n) \/ CrashCas(n)
    PROVE  Mended'
<1> DEFINE k == call[Evt(n)]
<1>1. /\ UNCHANGED <<cmds, inbox, tracked, ctr, evq>> /\ k.pc \in CrashPc /\ IndInv
      /\ Evt(n) \in Proc /\ \A m \in Node : Evt(n) # Ack(m)
  BY ProcFacts DEF EventRoute, CrashInc, CrashFail, CrashCas, CrashPc, At, agents, db, QueueInv
<1>2. k.pc \notin {"idle", "event_cas"} \cup OwesPc
  BY <1>1 DEF CrashPc, OwesPc
<1>3. PICK s \in Sandbox : s = k.sb /\ s \in Refs /\ Mend(s, n) /\ row[s].node = n
  BY <1>2, EvtMendFacts
<1>4. k.st = "running" /\ row[s].state # "running"
  BY <1>1, <1>3 DEF IndInv, EvtInv, EvtOK
<1>5. PICK pc \in {"crash_inc", "crash_fail", "crash_cas", "crash_cmd"} :
        Return(Evt(n)) \/ Step(Evt(n), pc)
  BY DEF EventRoute, CrashInc, CrashFail, CrashCas
<1>6. /\ Moved(Evt(n)) /\ call'[Evt(n)].pc # "event_cas"
      /\ call'[Evt(n)].pc = "idle" \/ call'[Evt(n)].sb = s
  BY <1>1, <1>3, <1>5, StepFacts, ReturnFacts DEF Pc
<1>7. Due(s) => Due(s)'
  BY <1>1, <1>2, <1>6, DueStays
<1>8. Making(s, n)' <=> Making(s, n)
  BY <1>1, <1>6, ProcFacts DEF Making, Moved
<1>9. CASE \A t \in Sandbox : row'[t].state = row[t].state
  <2>1. Mend(s, n)'
    BY <1>1, <1>2, <1>3, <1>6, <1>7, <1>8, <1>9, EvtEndsMend
  <2> QED
    BY <1>1, <1>2, <1>3, <1>6, <1>9, <2>1, EvtMends
<1>10. row \in [Sandbox -> Row]
  BY <1>1 DEF IndInv, TypeOK
<1>11. CASE EventRoute(n) \/ CrashInc(n) \/ CrashFail(n) \/ UNCHANGED row
  <2>1. \A t \in Sandbox : row'[t].state = row[t].state
    BY <1>3, <1>4, <1>10, <1>11 DEF EventRoute, CrashInc, CrashFail, StateIs, db, Row
  <2> QED
    BY <1>9, <2>1
<1>12. CASE CrashCas(n) /\ ~UNCHANGED row
  <2>1. row[s].state = "restarting" /\ SetState(s, "starting") /\ Step(Evt(n), "crash_cmd")
    BY <1>3, <1>12 DEF CrashCas, StateIs
  <2>2. row'[s].state = "starting" /\ \A t \in Sandbox : t # s => row'[t].state = row[t].state
    BY <1>10, <2>1 DEF SetState, Row
  <2>3. s \in tracked'[n]
    BY <1>1, <1>2, <1>3, <2>1, EvtMendFacts DEF Gone
  <2>4. call'[Evt(n)].pc = "crash_cmd" /\ call'[Evt(n)].sb = s
    BY <1>1, <1>3, <2>1, StepFacts DEF Pc
  <2>5. Recovers(s, n)'
    BY <1>1, <2>4 DEF Recovers, Due, Working, OwesPc
  <2>6. Mend(s, n)'
    BY <2>2, <2>3, <2>5 DEF Mend, Failing, Rising, Fresh
  <2> QED
    BY <1>1, <1>2, <1>3, <1>6, <2>2, <2>6, EvtMends
<1> QED
  BY <1>11, <1>12

LEMMA CrashCmdMends ==
    ASSUME QueueInv, Home, Home', Mended, UNCHANGED late, NEW n \in Node, CrashCmd(n)
    PROVE  Mended'
<1> DEFINE k == call[Evt(n)]
<1>1. /\ UNCHANGED <<row, inbox, tracked, ctr, evq>> /\ k.pc = "crash_cmd" /\ Return(Evt(n))
      /\ CreateCommand("start_sandbox", k.sb, k.node, 0)
      /\ Evt(n) \in Proc /\ \A m \in Node : Evt(n) # Ack(m)
  BY ProcFacts DEF CrashCmd, At, agents
<1>2. PICK s \in Sandbox, m \in Node : s = k.sb /\ m = k.node /\ row[s].node = m
  <2>1. EvtOK(n, k) /\ EvtHome(k)
    BY <1>1, EvtMendFacts DEF Home, CallsHome
  <2> QED
    BY <1>1, <2>1 DEF EvtOK, EvtHome
<1>3. InsertCommand("start_sandbox", s, m, 0)
  BY <1>1, <1>2, NodeExists, Inserts DEF QueueInv
<1> QED
  BY <1>1, <1>2, <1>3, IssueMends

LEMMA EventMendStep ==
    ASSUME QueueInv, Home, Home', Mended, UNCHANGED late, NEW n \in Node, HandleEvent(n)
    PROVE  Mended'
  BY EventReadMends, EventCasMends, CrashMends, CrashCmdMends DEF HandleEvent

-----------------------------------------------------------------------------
(* The environment, and events that come twice or late. *)

\* Nobody moves, and the events under way are the same.
LEMMA NobodyMends ==
    ASSUME QueueInv, Home, Home', Mended, UNCHANGED <<cmds, inbox, call, tracked, ctr>>,
           \A n \in Node : Seen(n)' = Seen(n),
           \A s \in Sandbox : row'[s].state = row[s].state /\ row'[s].node = row[s].node
    PROVE  Mended'
<1>1. IndInv /\ Logged /\ Refs' = Refs /\ \A s \in Refs : s \in Sandbox
  BY SameLog, NamedHome DEF QueueInv, Refs
<1>2. \A s : Due(s) => Due(s)'
  BY DEF Due, StartOf, Taken, Working
<1>3. ASSUME NEW n \in Node
      PROVE  EvtAt(call[Evt(n)], n)' /\ NodeHome(n)' /\ LoopMends(call[Ack(n)])'
  <2>1. EvtAt(call[Evt(n)], n) /\ NodeHome(n) /\ LoopMends(call[Ack(n)])
    BY DEF Mended, NodesHome
  <2>2. \A s \in tracked[n] : s \in Sandbox
    BY <1>1 DEF IndInv, AgentInv
  <2>3. call[Evt(n)].pc # "idle" => call[Evt(n)].sb \in Sandbox
    BY <1>1 DEF IndInv, EvtInv, EvtOK
  <2>4. NodeHome(n)'
    BY <1>1, <2>1, <2>2 DEF NodeHome
  <2>5. EvtAt(call[Evt(n)], n)'
    BY <2>1, <2>3 DEF EvtAt
  <2>6. LoopMends(call[Ack(n)])'
    BY <2>1 DEF LoopMends, StartAck
  <2> QED
    BY <2>4, <2>5, <2>6
<1>4. NodesHome'
  BY <1>3 DEF NodesHome
<1>5. ASSUME NEW s \in Refs, NEW n \in Node, Mend(s, n) PROVE Mend(s, n)'
  <2>1. SameOn(s, n)
    BY DEF SameOn, EvtSame, Making
  <2> QED
    BY <1>1, <1>2, <1>5, <2>1, MendStays
<1> QED
  BY <1>1, <1>4, <1>5, MendFrame

LEMMA ExitMends ==
    ASSUME QueueInv, Home, Home', Mended, UNCHANGED late, NEW n \in Node, NEW a \in App,
           ContainerExits(n, a)
    PROVE  Mended'
<1>1. /\ UNCHANGED <<row, cmds, call, inbox, tracked>> /\ ctr[n][a].up /\ IndInv
      /\ ctr' = [ctr EXCEPT ![n][a].up = FALSE] /\ Reaper \in Proc /\ Moved(Reaper) /\ Logged
  BY SameLog, ProcFacts DEF ContainerExits, db, QueueInv, Moved
<1>2. ctr[n][a] # NoContainer
  BY <1>1 DEF NoContainer
<1>3. PICK t \in Refs : AppOf[t] = a
  BY <1>2 DEF Mended, NodesHome, NodeHome
<1>4. PICK types \in Seq(EventType) : Events(n, a, types)
  <2>1. /\ <<"container_oom", "container_exited">> \in Seq(EventType)
        /\ <<"container_exited">> \in Seq(EventType)
    BY DEF EventType
  <2> QED
    BY <2>1 DEF ContainerExits
<1>5. /\ \A m \in Node \ {n} : Seen(m)' = Seen(m)
      /\ \A e : e.app # AppOf[t] => (e \in Seen(n)' <=> e \in Seen(n))
  BY <1>1, <1>3, <1>4, EventsSeen
<1>6. /\ \A m \in Node \ {n} : ctr'[m] = ctr[m]
      /\ \A b \in App : b # AppOf[t] => ctr'[n][b] = ctr[n][b]
      /\ ~ctr'[n][AppOf[t]].up
  BY <1>1, <1>3 DEF IndInv, TypeOK
<1>7. \A s : Due(s) => Due(s)'
  BY <1>1 DEF Due, StartOf, Taken, Working
<1>8. LoopMends(call[Ack(n)]) /\ NodeHome(n)
  BY DEF Mended, NodesHome
<1>9. LoopMends(call[Ack(n)])'
  BY <1>1, <1>8 DEF LoopMends, StartAck
<1>10. ASSUME row[t].node = n PROVE Mend(t, n)'
  <2>1. Mend(t, n)
    BY <1>10 DEF Mended, Mends
  <2>2. Fresh(t, n)'
    BY <1>1, <1>2, <1>3, <1>6, <2>1 DEF Mend, Fresh, Making
  <2> QED
    BY <1>1, <1>6, <2>1, <2>2 DEF Mend, Failing, Rising
<1>11. /\ \A m \in Node : Reaper # Evt(m) /\ Reaper # Ack(m)
       /\ t \in tracked'[n] => row[t].node = n
       /\ \A s : Making(s, n)' <=> Making(s, n)
  BY <1>1, <1>8, ProcFacts DEF NodeHome, Making
<1> QED
  BY <1>1, <1>3, <1>5, <1>6, <1>7, <1>9, <1>10, <1>11, NodeActs

LEMMA EnvironmentMends ==
    ASSUME QueueInv, Home, Home', Mended, UNCHANGED late,
           \/ \E n \in Node : Heartbeat(n)
           \/ \E s \in Sandbox : FilePush(s)
           \/ UNCHANGED vars
    PROVE  Mended'
<1>1. row \in [Sandbox -> Row] /\ UNCHANGED <<cmds, inbox, call, tracked, ctr, evq>>
  BY DEF Heartbeat, FilePush, agents, vars, QueueInv, IndInv, TypeOK
<1>2. \A t \in Sandbox : row'[t].state = row[t].state /\ row'[t].node = row[t].node
  <2>1. ASSUME NEW s \in Sandbox, FilePush(s)
        PROVE  \A t \in Sandbox : row'[t].state = row[t].state /\ row'[t].node = row[t].node
    BY <1>1, <2>1 DEF FilePush, Row
  <2> QED
    BY <2>1 DEF Heartbeat, vars
<1> QED
  BY <1>1, <1>2, SameSeen, NobodyMends

LEMMA ConsOf ==
    ASSUME NEW q \in EventSeq, NEW e \in EventRecord
    PROVE  Of(<<e>> \o q) = {e} \cup Of(q)
<1>1. PICK r : r = <<e>> \o q
  OBVIOUS
<1>2. /\ Len(q) \in Nat /\ Len(r) = Len(q) + 1 /\ r[1] = e
      /\ \A j \in 1..Len(q) : r[j + 1] = q[j]
  BY <1>1 DEF EventSeq, EventRecord
<1>3. ASSUME NEW j \in 1..Len(q) PROVE j + 1 \in 1..Len(r)
  BY <1>2
<1>4. ASSUME NEW j \in 1..Len(r) PROVE r[j] = e \/ r[j] \in Of(q)
  <2>1. CASE j = 1
    BY <1>2, <2>1
  <2>2. CASE j # 1
    <3>1. j - 1 \in 1..Len(q) /\ (j - 1) + 1 = j
      BY <1>2, <2>2
    <3>2. q[j - 1] = r[j]
      BY <1>2, <3>1
    <3> QED
      BY <3>1, <3>2 DEF Of
  <2> QED
    BY <2>1, <2>2
<1>5. 1 \in 1..Len(r)
  BY <1>2
<1>6. \A j \in 1..Len(q) : q[j] \in Of(r)
  BY <1>2, <1>3 DEF Of
<1>7. Of(r) \subseteq {e} \cup Of(q)
  BY <1>4 DEF Of
<1>8. {e} \cup Of(q) \subseteq Of(r)
  BY <1>2, <1>5, <1>6 DEF Of
<1> QED
  BY <1>1, <1>7, <1>8

LEMMA RedeliverySeen ==
    ASSUME IndInv, LateInv, NEW n \in Node, PostDelayed(n) \/ PostHandled(n) \/ EventReplayed(n)
    PROVE  \A m \in Node : Seen(m)' = Seen(m)
<1>1. evq \in [Node -> EventSeq] /\ late \in [Node -> SUBSET EventRecord]
  BY DEF LateInv, IndInv, TypeOK, EventSeq
<1>2. PICK q, l : q = evq[n] /\ l = late[n] /\ q \in EventSeq /\ l \subseteq EventRecord
  BY <1>1
<1>3. q # <<>> => Head(q) \in EventRecord
  <2>1. q \in Seq(EventRecord)
    BY <1>2 DEF EventSeq, EventRecord
  <2> QED
    BY <2>1
<1>4. q # <<>> => Of(q) = {Head(q)} \cup Of(Tail(q))
  BY <1>2, <1>3, TailOf
<1>5. \A e \in EventRecord : Of(<<e>> \o q) = {e} \cup Of(q)
  BY <1>2, ConsOf
<1>6. PICK r, k : /\ r = evq'[n] /\ k = late'[n]
                  /\ \A m \in Node \ {n} : evq'[m] = evq[m] /\ late'[m] = late[m]
                  /\ \/ q # <<>> /\ k = l \cup {Head(q)} /\ (r = q \/ r = Tail(q))
                     \/ \E e \in l : k = l \ {e} /\ r = <<e>> \o q
                     \/ q # <<>> /\ k = l /\ r = <<Head(q)>> \o q
  <2>1. CASE PostDelayed(n)
    BY <1>1, <1>2, <2>1 DEF PostDelayed
  <2>2. CASE PostHandled(n)
    BY <1>1, <1>2, <2>2 DEF PostHandled
  <2>3. CASE EventReplayed(n)
    BY <1>1, <1>2, <2>3 DEF EventReplayed
  <2> QED
    BY <2>1, <2>2, <2>3
<1>7. Seen(n) = Of(q) \cup l /\ Seen(n)' = Of(r) \cup k
  BY <1>2, <1>6 DEF Seen, Of
<1>8. Of(r) \cup k = Of(q) \cup l
  <2>1. CASE q # <<>> /\ k = l \cup {Head(q)} /\ (r = q \/ r = Tail(q))
    BY <1>4, <2>1
  <2>2. ASSUME NEW e \in l, k = l \ {e}, r = <<e>> \o q PROVE Of(r) \cup k = Of(q) \cup l
    <3>1. Of(r) = {e} \cup Of(q)
      BY <1>2, <1>5, <2>2
    <3> QED
      BY <2>2, <3>1
  <2>3. CASE q # <<>> /\ k = l /\ r = <<Head(q)>> \o q
    <3>1. Of(r) = {Head(q)} \cup Of(q)
      BY <1>3, <1>5, <2>3
    <3> QED
      BY <1>4, <2>3, <3>1
  <2> QED
    BY <1>6, <2>1, <2>2, <2>3
<1>9. \A m \in Node \ {n} : Seen(m)' = Seen(m)
  BY <1>6 DEF Seen
<1> QED
  BY <1>7, <1>8, <1>9

-----------------------------------------------------------------------------
(* What holds without timeouts and faults, whatever comes twice or late. *)

MendInv == HomeInv /\ (Steady => Mended)

LEMMA MendInit == RedeliveryInit => MendInv
<1> SUFFICES ASSUME RedeliveryInit PROVE HomeInv /\ Mended
  BY DEF MendInv
<1>1. Init /\ HomeInv /\ \A n \in Node : late[n] = {}
  BY HomeInit DEF RedeliveryInit
<1>2. Refs = {} /\ \A p \in Proc : call[p].pc = "idle"
  BY <1>1 DEF Init, Refs, Idle, Begun
<1>3. ASSUME NEW n \in Node
      PROVE  /\ Seen(n) = {} /\ tracked[n] = {} /\ \A a \in App : ctr[n][a] = NoContainer
  BY <1>1 DEF Init, Seen
<1>4. NodesHome
  BY <1>2, <1>3, ProcFacts DEF NodesHome, EvtAt, NodeHome, LoopMends
<1> QED
  BY <1>1, <1>2, <1>4 DEF Mended, Mends

LEMMA MendStep ==
    ASSUME MendInv, [Next]_vars, UNCHANGED late
    PROVE  MendInv'
<1>1. HomeInv' /\ QueueInv /\ IndInv
  BY HomeStep DEF MendInv, HomeInv, QueueInv
<1> SUFFICES ASSUME Steady' PROVE Mended'
  BY <1>1 DEF MendInv
<1>2. Home /\ Home' /\ Mended /\ ~Fault
  BY <1>1, StaysUnsteady DEF MendInv, HomeInv
<1>3. ASSUME NEW c \in Client, ApiStep(c) \/ \E s \in Sandbox : ApiRequest(c, s) PROVE Mended'
  BY <1>1, <1>2, <1>3, ApiMendStep
<1>4. ASSUME NEW n \in Node, AgentStep(n) \/ HandleAck(n) \/ HandleEvent(n) PROVE Mended'
  BY <1>1, <1>2, <1>4, AgentMendStep, AckMendStep, EventMendStep
<1>5. ~ReaperStep /\ ~Reschedule
  BY <1>2, PassesRest
<1>6. ASSUME Environment PROVE Mended'
  <2>1. \/ \E n \in Node : Heartbeat(n)
        \/ \E n \in Node, a \in App : ContainerExits(n, a)
        \/ \E s \in Sandbox : FilePush(s)
    BY <1>1, <1>6, StaysUnsteady DEF Environment
  <2> QED
    BY <1>1, <1>2, <2>1, ExitMends, EnvironmentMends
<1>7. ASSUME UNCHANGED vars PROVE Mended'
  BY <1>1, <1>2, <1>7, EnvironmentMends
<1> QED
  BY <1>2, <1>3, <1>4, <1>5, <1>6, <1>7 DEF Next

LEMMA RedeliveryMends ==
    ASSUME MendInv, RedeliveryInv, RedeliveryInv', NEW n \in Node,
           PostDelayed(n) \/ PostHandled(n) \/ EventReplayed(n)
    PROVE  MendInv'
<1>1. UNCHANGED <<row, cmds, call, batch, inbox, tracked, ctr, route, timeouts, faults>>
  BY DEF PostDelayed, PostHandled, EventReplayed, db, counts
<1>2. QueueInv /\ QueueInv' /\ IndInv /\ LateInv
  BY <1>1 DEF MendInv, HomeInv, QueueInv, RedeliveryInv, HeldInv, SpentInv
<1> SUFFICES ASSUME Steady' PROVE Home' /\ Mended'
  BY <1>2 DEF MendInv, HomeInv
<1>3. Home /\ Mended
  BY <1>1 DEF MendInv, HomeInv, Steady
<1>4. Home'
  BY <1>1, <1>2, <1>3, NothingHome
<1>5. \A m \in Node : Seen(m)' = Seen(m)
  BY <1>2, RedeliverySeen
<1> QED
  BY <1>1, <1>2, <1>3, <1>4, <1>5, NobodyMends

LEMMA MendInvariant == RedeliverySpec => []MendInv
<1>1. MendInv /\ RedeliveryInv /\ RedeliveryInv' /\ [RedeliveryNext]_rvars => MendInv'
  <2> SUFFICES ASSUME MendInv, RedeliveryInv, RedeliveryInv', [RedeliveryNext]_rvars
               PROVE  MendInv'
    OBVIOUS
  <2>1. CASE LifecycleStep \/ UNCHANGED rvars
    <3>1. [Next]_vars /\ UNCHANGED late
      BY <2>1 DEF LifecycleStep, rvars
    <3> QED
      BY <3>1, MendStep
  <2> QED
    BY <2>1, RedeliveryMends DEF RedeliveryNext
<1> QED
  BY <1>1, MendInit, RedeliveryInvariant, PTL DEF RedeliverySpec

LEMMA Least == ASSUME NEW T \in SUBSET Nat, T # {} PROVE \E x \in T : \A y \in T : ~(y < x)
<1> DEFINE R == OpToRel(<, Nat)
<1>1. IsWellFoundedOn(R, Nat)
  BY NatLessThanWellFounded, Zenon
<1>2. \A x, y \in Nat : y < x => <<y, x>> \in R
  BY DEF OpToRel
<1> HIDE DEF R
<1>3. PICK x \in T : \A y \in T : ~(<<y, x>> \in R)
  BY <1>1, WFMin
<1> QED
  BY <1>2, <1>3

\* A command that is pending is handed out by some later poll.
LEMMA PendingIsPolled ==
    ASSUME IndInv, NEW i \in 1..Len(cmds), cmds[i].status = "pending"
    PROVE  cmds[i].node \in Node /\ Pending(cmds[i].node) # {}
<1>1. cmds[i] \in Command
  BY DEF IndInv, TypeOK
<1>2. PICK n \in Node : n = cmds[i].node
  BY <1>1 DEF Command
<1> DEFINE all == {j \in 1..Len(cmds) : cmds[j].node = n /\ cmds[j].status = "pending"}
<1>3. all \in SUBSET Nat /\ i \in all
  BY <1>2 DEF IndInv, TypeOK
<1>4. PICK x \in all : \A y \in all : ~(y < x)
  BY <1>3, Least
<1>5. {y \in all : y < x} = {}
  BY <1>4
<1>6. Cardinality({y \in all : y < x}) < PollLimit
  <2>1. Cardinality({}) = 0
    BY FS_EmptySet
  <2>2. PollLimit = 10
    BY DEF PollLimit
  <2> HIDE DEF all
  <2>3. Cardinality({y \in all : y < x}) = 0
    BY <1>5, <2>1
  <2> QED
    BY <2>2, <2>3
<1> QED
  BY <1>2, <1>4, <1>6 DEF Pending

LEMMA MendSuffices ==
    ASSUME MendInv
    PROVE  Steady => FailedIsDown
<1> SUFFICES ASSUME Steady, Quiet, \A n \in Node : late[n] = {}, NEW s \in Sandbox,
                    row[s].state = "failed", ctr[row[s].node][AppOf[s]].up
             PROVE  FALSE
  BY DEF FailedIsDown
<1>1. IndInv /\ Home /\ Mended
  BY DEF MendInv, HomeInv, QueueInv
<1>2. PICK n \in Node : n = row[s].node
  BY <1>1 DEF IndInv, RowInv, RowOK, Placed
<1>3. s \in Refs
  BY <1>1, <1>2 DEF Home, RowsHome, RowHome
<1>4. Recovers(s, n)
  BY <1>1, <1>2, <1>3 DEF Mended, Mends, Mend, Failing
<1>5. Seen(n) = {}
  BY DEF Seen, Quiet
<1>6. \A p \in Proc : call[p].pc = "idle"
  BY DEF Quiet
<1>7. Due(s)
  BY <1>4, <1>5, <1>6, ProcFacts DEF Recovers
<1>8. PICK i \in 1..Len(cmds) : ~Taken(i)
  BY <1>6, <1>7 DEF Due, Working, OwesPc
<1>9. cmds[i].status = "pending"
  BY <1>8 DEF Taken, Quiet
<1> QED
  BY <1>1, <1>9, PendingIsPolled DEF Quiet

\* Without timeouts and faults, whatever crashes and whatever event comes twice or
\* late: once all is quiet, no sandbox that is 'failed' has a container up.  An exit
\* report that is not the sandbox's own may fail it while it is starting; the report
\* of its start, or a start still to be executed, takes it back.
THEOREM FailedSandboxIsDown == RedeliverySpec => [](Steady => FailedIsDown)
<1>1. MendInv => (Steady => FailedIsDown)
  BY MendSuffices
<1> QED
  BY <1>1, MendInvariant, PTL

\* Such events do not leave a stale route behind either.
THEOREM RouteIsCurrentWithRedelivery == RedeliverySpec => [](Steady => UpstreamIsCurrent)
<1>1. MendInv => (Steady => UpstreamIsCurrent)
  BY HomeSuffices DEF MendInv
<1> QED
  BY <1>1, MendInvariant, PTL

\* What one step of Lifecycle, or of an event that comes again, may do.
LEMMA RedeliveryStep ==
    ASSUME MendInv, [RedeliveryNext]_rvars
    PROVE  StateChange /\ [Queue!Next]_(Queue!vars)
<1>1. QueueInv /\ IndInv
  BY DEF MendInv, HomeInv, QueueInv
<1>2. CASE LifecycleStep \/ UNCHANGED rvars
  <2>1. [Next]_vars
    BY <1>2 DEF LifecycleStep, rvars
  <2> QED
    BY <1>1, <2>1, StepOK, QueueStep
<1>3. ASSUME NEW n \in Node, PostDelayed(n) \/ PostHandled(n) \/ EventReplayed(n)
      PROVE  StateChange /\ [Queue!Next]_(Queue!vars)
  <2>1. UNCHANGED <<row, cmds, call, inbox>>
    BY <1>3 DEF PostDelayed, PostHandled, EventReplayed, db
  <2>2. DeliveryInv /\ Quietly
    BY <1>1, <2>1, TypesSuffice, Waiting DEF QueueInv, DeliveryInv
  <2>3. UNCHANGED Queue!vars
    BY <2>2, QuietOK
  <2> QED
    BY <2>1, <2>3 DEF StateChange
<1> QED
  BY <1>2, <1>3 DEF RedeliveryNext

\* An event that comes twice, or after everything that happened since, takes no
\* sandbox along a transition that ValidTransitions does not have: HandleEvent asks
\* the table again, and its compare-and-set expects the state it asked about.
THEOREM StatesFollowTheMachineWithRedelivery == RedeliverySpec => StateMachineRespected
<1>1. MendInv /\ [RedeliveryNext]_rvars
        => [\A s \in Sandbox : row'[s].state # row[s].state
                                   => StateStep(row[s].state, row'[s].state)]_vars
  BY RedeliveryStep DEF StateChange
<1> QED
  BY <1>1, MendInvariant, PTL DEF RedeliverySpec, StateMachineRespected

\* Nor does it make a command be delivered or acked twice, though the restart it may
\* cause inserts another one.
THEOREM RedeliveryDelivers == RedeliverySpec => CommandsDelivered
<1>1. RedeliveryInit => Queue!Init
  BY QueueInit DEF RedeliveryInit
<1>2. MendInv /\ [RedeliveryNext]_rvars => [Queue!Next]_(Queue!vars)
  BY RedeliveryStep
<1>3. RedeliverySpec => Queue!Init /\ [][Queue!Next]_(Queue!vars)
  BY <1>1, <1>2, MendInvariant, PTL DEF RedeliverySpec
<1> QED
  BY <1>3 DEF CommandsDelivered, Queue!Spec
=============================================================================
