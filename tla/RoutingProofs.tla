--------------------------- MODULE RoutingProofs ---------------------------
(***************************************************************************)
(* The batcher never strands a route change, for any number of apps, any   *)
(* buffer size and any number of overlapping flushes.  The property is     *)
(* inductive together with the types of the variables.                     *)
(***************************************************************************)
EXTENDS Routing, SequenceTheorems, TLAPS

IndInv == TypeOK /\ BufferedIsScheduled

\* What the batcher's own steps do to the types of its variables.
BatcherType ==
    /\ pending \in [App -> Change \cup {NoChange}]
    /\ timer \in {"nil", "armed", "fired"}
    /\ orphans \in Nat
    /\ waiting \in Nat
    /\ stopped \in BOOLEAN
    /\ drain \in 0..MaxFlights
    /\ flights \in [FlightId -> [on : BOOLEAN, todo : SUBSET Change]]

RestType ==
    /\ db \in [App -> [running : BOOLEAN, up : Up]]
    /\ acking \in [App -> AckStep]
    /\ leaving \in [App -> Nat]
    /\ caddy \in [App -> Seq(Upstream)]
    /\ drift \in [pc : {"idle", "listed", "fix"}, seen : SUBSET App,
                  stale : SUBSET App, missing : SUBSET (App \X Upstream)]
    /\ changes \in 0..MaxChanges
    /\ faults \in 0..MaxFaults

LEMMA Rebuild ==
    ASSUME BatcherType', RestType', BufferedIsScheduled'
    PROVE  IndInv'
  BY DEF IndInv, TypeOK, BatcherType, RestType

-----------------------------------------------------------------------------
(* The buffer. *)

LEMMA EmptyIsEmpty ==
    /\ EmptyBuffer \in [App -> Change \cup {NoChange}]
    /\ Buffered(EmptyBuffer) = {}
  BY DEF EmptyBuffer, Buffered

\* An empty buffer needs no timer.
LEMMA NothingBuffered ==
    ASSUME pending' = EmptyBuffer
    PROVE  BufferedIsScheduled'
  BY EmptyIsEmpty DEF BufferedIsScheduled, Buffered

LEMMA BufferedIsChange ==
    ASSUME NEW p \in [App -> Change \cup {NoChange}]
    PROVE  {p[a] : a \in Buffered(p)} \in SUBSET Change
  BY DEF Buffered

LEMMA LandedType == Landed \in [on : BOOLEAN, todo : SUBSET Change]
  BY DEF Landed

\* A flush empties the buffer.
LEMMA FlushStep ==
    ASSUME IndInv, NEW p \in [App -> Change \cup {NoChange}], NEW f \in FlightId,
           NEW tm, Flush(p, tm, f), waiting' \in Nat, stopped' \in BOOLEAN,
           drain' \in 0..MaxFlights
    PROVE  BatcherType' /\ BufferedIsScheduled'
  <1>1. [on |-> TRUE, todo |-> {p[a] : a \in Buffered(p)}]
            \in [on : BOOLEAN, todo : SUBSET Change]
    BY BufferedIsChange
  <1>2. flights' \in [FlightId -> [on : BOOLEAN, todo : SUBSET Change]]
    BY <1>1 DEF Flush, IndInv, TypeOK
  <1>3. pending' = EmptyBuffer /\ timer' = "nil" /\ orphans' \in Nat
    BY DEF Flush, IndInv, TypeOK
  <1> QED
    BY <1>2, <1>3, EmptyIsEmpty, NothingBuffered DEF BatcherType

\* A step that leaves the batcher alone.
LEMMA BatcherStands ==
    ASSUME IndInv, UNCHANGED batcher,
           flights' \in [FlightId -> [on : BOOLEAN, todo : SUBSET Change]]
    PROVE  BatcherType' /\ BufferedIsScheduled'
  BY DEF IndInv, TypeOK, batcher, BatcherType, BufferedIsScheduled, Buffered

-----------------------------------------------------------------------------
(* One lemma per action. *)

LEMMA EnqueueStep ==
    ASSUME IndInv, NEW a \in App, NEW act, NEW u, Enqueue(a, act, u),
           \/ act = "add" /\ u \in Upstream
           \/ act = "remove" /\ u = NoUpstream
    PROVE  BatcherType' /\ BufferedIsScheduled'
  <1> DEFINE p == [pending EXCEPT ![a] = [app |-> a, act |-> act, up |-> u]]
  <1>1. p \in [App -> Change \cup {NoChange}]
    <2>1. [app |-> a, act |-> act, up |-> u] \in Change
      BY DEF Change, AddChange, RemoveChange
    <2> QED BY <2>1 DEF IndInv, TypeOK
  <1>2. CASE stopped /\ UNCHANGED <<batcher, flights>>
    <2>1. flights' \in [FlightId -> [on : BOOLEAN, todo : SUBSET Change]]
      BY <1>2 DEF IndInv, TypeOK
    <2> QED BY <1>2, <2>1, BatcherStands DEF IndInv, TypeOK
  <1>3. CASE /\ ~stopped
             /\ UNCHANGED <<waiting, stopped, drain>>
             /\ \E f \in FlightId : Flush(p, "nil", f)
    <2>1. PICK f \in FlightId : Flush(p, "nil", f)
      BY <1>3
    <2>2. waiting' \in Nat /\ stopped' \in BOOLEAN /\ drain' \in 0..MaxFlights
      BY <1>3 DEF IndInv, TypeOK
    <2>3. BatcherType' /\ BufferedIsScheduled'
      BY <1>1, <2>1, <2>2, FlushStep
    <2> QED BY <1>3, <2>3 DEF IndInv, TypeOK
  <1>4. CASE /\ ~stopped
             /\ UNCHANGED <<waiting, stopped, drain>>
             /\ pending' = p /\ timer' = "armed" /\ UNCHANGED <<flights, orphans>>
    <2>1. BatcherType'
      BY <1>1, <1>4 DEF IndInv, TypeOK, BatcherType
    <2>2. BufferedIsScheduled'
      BY <1>4 DEF BufferedIsScheduled
    <2> QED BY <1>4, <2>1, <2>2 DEF IndInv, TypeOK
  <1> QED
    BY <1>2, <1>3, <1>4 DEF Enqueue

LEMMA SandboxOK ==
    ASSUME IndInv, NEW a \in App,
           SandboxRuns(a) \/ SandboxLeaves(a) \/ \E u \in Upstream : Persist(a, u)
    PROVE  IndInv'
  <1>1. UNCHANGED <<batcher, flights>>
    BY DEF SandboxRuns, SandboxLeaves, Persist
  <1>2. BatcherType' /\ BufferedIsScheduled'
    BY <1>1, BatcherStands DEF IndInv, TypeOK
  <1>3. CASE SandboxRuns(a)
    <2>1. PICK u \in {db[a].up, NoUpstream} :
              db' = [db EXCEPT ![a] = [running |-> TRUE, up |-> u]]
      BY <1>3 DEF SandboxRuns
    <2>2. u \in Up
      BY DEF IndInv, TypeOK, Up
    <2>3. db' \in [App -> [running : BOOLEAN, up : Up]]
      BY <2>1, <2>2 DEF IndInv, TypeOK
    <2>4. acking' \in [App -> AckStep]
      BY <1>3 DEF SandboxRuns, IndInv, TypeOK, AckStep
    <2>5. changes' \in 0..MaxChanges
      BY <1>3, RoutingAssumption DEF SandboxRuns, IndInv, TypeOK
    <2> QED BY <1>2, <1>3, <2>3, <2>4, <2>5, Rebuild
            DEF SandboxRuns, IndInv, RestType, TypeOK
  <1>4. CASE SandboxLeaves(a)
    <2>1. db' \in [App -> [running : BOOLEAN, up : Up]]
      BY <1>4 DEF SandboxLeaves, IndInv, TypeOK
    <2>2. leaving' \in [App -> Nat]
      BY <1>4 DEF SandboxLeaves, IndInv, TypeOK
    <2>3. changes' \in 0..MaxChanges
      BY <1>4, RoutingAssumption DEF SandboxLeaves, IndInv, TypeOK
    <2> QED BY <1>2, <1>4, <2>1, <2>2, <2>3, Rebuild
            DEF SandboxLeaves, IndInv, RestType, TypeOK
  <1>5. CASE \E u \in Upstream : Persist(a, u)
    <2>1. PICK u \in Upstream : Persist(a, u)
      BY <1>5
    <2>2. db' \in [App -> [running : BOOLEAN, up : Up]]
      <3>1. u \in Up
        BY DEF Up
      <3>2. db' = [db EXCEPT ![a] = [db[a] EXCEPT !.up = u]]
        BY <2>1 DEF Persist
      <3>3. db \in [App -> [running : BOOLEAN, up : Up]]
        BY DEF IndInv, TypeOK
      <3>4. [db[a] EXCEPT !.up = u] \in [running : BOOLEAN, up : Up]
        BY <3>1, <3>3
      <3> QED BY <3>2, <3>3, <3>4
    <2>3. acking' \in [App -> AckStep]
      BY <2>1 DEF Persist, IndInv, TypeOK, AckStep
    <2> QED BY <1>2, <2>1, <2>2, <2>3, Rebuild
            DEF Persist, IndInv, RestType, TypeOK
  <1> QED
    BY <1>3, <1>4, <1>5

LEMMA NotifyOK ==
    ASSUME IndInv, NEW a \in App, NotifyAdd(a) \/ NotifyRemove(a)
    PROVE  IndInv'
  <1>1. CASE NotifyAdd(a)
    <2>1. acking[a].up \in Upstream
      <3>1. acking[a] \in AckStep /\ acking[a].step = "notify"
        BY <1>1 DEF NotifyAdd, IndInv, TypeOK
      <3>2. \A k \in AckStep : k.step = "notify" => k.up \in Upstream
        BY DEF AckStep, Ack, NoAck
      <3> QED BY <3>1, <3>2
    <2>2. BatcherType' /\ BufferedIsScheduled'
      BY <1>1, <2>1, EnqueueStep DEF NotifyAdd
    <2>3. acking' \in [App -> AckStep]
      BY <1>1 DEF NotifyAdd, IndInv, TypeOK, AckStep
    <2> QED BY <1>1, <2>2, <2>3, Rebuild DEF NotifyAdd, IndInv, RestType, TypeOK
  <1>2. CASE NotifyRemove(a)
    <2>2. BatcherType' /\ BufferedIsScheduled'
      BY <1>2, EnqueueStep DEF NotifyRemove
    <2>3. leaving' \in [App -> Nat]
      BY <1>2 DEF NotifyRemove, IndInv, TypeOK
    <2> QED BY <1>2, <2>2, <2>3, Rebuild DEF NotifyRemove, IndInv, RestType, TypeOK
  <1> QED
    BY <1>1, <1>2

LEMMA TimerFiresOK ==
    ASSUME IndInv, TimerFires
    PROVE  IndInv'
  <1>1. BatcherType'
    BY DEF TimerFires, IndInv, TypeOK, BatcherType
  <1>2. BufferedIsScheduled'
    BY DEF TimerFires, IndInv, TypeOK, BufferedIsScheduled, Buffered
  <1> QED
    BY <1>1, <1>2, Rebuild DEF TimerFires, IndInv, TypeOK, RestType, handlers

LEMMA CallbackOK ==
    ASSUME IndInv, Callback
    PROVE  IndInv'
  <1>1. waiting' \in Nat /\ stopped' \in BOOLEAN /\ drain' \in 0..MaxFlights
    BY DEF Callback, IndInv, TypeOK
  <1>2. CASE \E f \in FlightId : Flush(pending, timer, f)
    <2>1. PICK f \in FlightId : Flush(pending, timer, f)
      BY <1>2
    <2>2. BatcherType' /\ BufferedIsScheduled'
      BY <1>1, <2>1, FlushStep DEF IndInv, TypeOK
    <2> QED BY <2>2, Rebuild
            DEF Callback, IndInv, TypeOK, RestType, handlers
  <1>3. CASE /\ stopped \/ Buffered(pending) = {}
             /\ UNCHANGED <<pending, timer, orphans, flights>>
    <2>1. Buffered(pending) = {}
      BY <1>3 DEF IndInv, BufferedIsScheduled
    <2>2. BufferedIsScheduled'
      BY <1>3, <2>1 DEF BufferedIsScheduled, Buffered
    <2> QED BY <1>1, <1>3, <2>2, Rebuild
            DEF Callback, IndInv, TypeOK, BatcherType, RestType, handlers
  <1> QED
    BY <1>2, <1>3 DEF Callback

LEMMA StopOK ==
    ASSUME IndInv, Stop
    PROVE  IndInv'
  <1>1. waiting' \in Nat /\ stopped' \in BOOLEAN /\ faults' \in 0..MaxFaults
    BY RoutingAssumption DEF Stop, IndInv, TypeOK
  <1>2. CASE \E f \in FlightId : Flush(pending, "nil", f) /\ drain' = f
    <2>1. PICK f \in FlightId : Flush(pending, "nil", f) /\ drain' = f
      BY <1>2
    <2>2. drain' \in 0..MaxFlights
      BY <2>1, RoutingAssumption DEF FlightId
    <2>3. BatcherType' /\ BufferedIsScheduled'
      BY <1>1, <2>1, <2>2, FlushStep DEF IndInv, TypeOK
    <2> QED BY <1>1, <2>3, Rebuild
            DEF Stop, IndInv, TypeOK, RestType, handlers
  <1>3. CASE /\ Buffered(pending) = {} /\ timer' = "nil" /\ drain' = 0
             /\ UNCHANGED <<pending, orphans, flights>>
    <2>1. BufferedIsScheduled'
      BY <1>3 DEF BufferedIsScheduled, Buffered
    <2>2. BatcherType'
      BY <1>1, <1>3, RoutingAssumption DEF IndInv, TypeOK, BatcherType
    <2> QED BY <1>1, <1>3, <2>1, <2>2, Rebuild
            DEF Stop, IndInv, TypeOK, RestType, handlers
  <1> QED
    BY <1>2, <1>3 DEF Stop

-----------------------------------------------------------------------------
(* Caddy, Apply and the drift detector leave the batcher alone. *)

LEMMA PostType ==
    ASSUME IndInv, NEW a \in App, NEW u \in Upstream, Post(a, u)
    PROVE  caddy' \in [App -> Seq(Upstream)]
  <1>1. Append(caddy[a], u) \in Seq(Upstream)
    BY AppendProperties DEF IndInv, TypeOK
  <1> QED
    BY <1>1 DEF Post, IndInv, TypeOK

LEMMA DeleteType ==
    ASSUME IndInv, NEW a \in App, Delete(a)
    PROVE  caddy' \in [App -> Seq(Upstream)]
  <1>1. CASE UNCHANGED caddy
    BY <1>1 DEF IndInv, TypeOK
  <1>2. ASSUME NEW i \in 1..Len(caddy[a]),
               caddy' = [caddy EXCEPT ![a] = SubSeq(@, 1, i - 1) \o SubSeq(@, i + 1, Len(@))]
        PROVE  caddy' \in [App -> Seq(Upstream)]
    <2> DEFINE s == caddy[a]
    <2>1. s \in Seq(Upstream) /\ Len(s) \in Nat
      BY DEF IndInv, TypeOK
    <2>2. \A k \in 1..Len(s) : s[k] \in Upstream
      BY <2>1
    <2>3. SubSeq(s, 1, i - 1) \in Seq(Upstream)
      BY <2>1, <2>2, SubSeqProperties
    <2>4. SubSeq(s, i + 1, Len(s)) \in Seq(Upstream)
      BY <2>1, <2>2, SubSeqProperties
    <2>5. SubSeq(s, 1, i - 1) \o SubSeq(s, i + 1, Len(s)) \in Seq(Upstream)
      BY <2>3, <2>4, ConcatProperties
    <2> QED BY <1>2, <2>5 DEF IndInv, TypeOK
  <1> QED
    BY <1>1, <1>2 DEF Delete

\* A step that changes none of the batcher's variables nor the handlers'.
LEMMA Elsewhere ==
    ASSUME IndInv, UNCHANGED <<db, handlers, batcher, changes>>,
           flights' \in [FlightId -> [on : BOOLEAN, todo : SUBSET Change]],
           caddy' \in [App -> Seq(Upstream)],
           drift' \in [pc : {"idle", "listed", "fix"}, seen : SUBSET App,
                       stale : SUBSET App, missing : SUBSET (App \X Upstream)],
           faults' \in 0..MaxFaults
    PROVE  IndInv'
  <1>1. BatcherType' /\ BufferedIsScheduled'
    BY BatcherStands
  <1>2. RestType'
    BY DEF IndInv, TypeOK, RestType, handlers
  <1> QED
    BY <1>1, <1>2, Rebuild

LEMMA DoneType ==
    ASSUME IndInv, NEW f \in FlightId, NEW x \in flights[f].todo
    PROVE  /\ Done(f, x) => flights' \in [FlightId -> [on : BOOLEAN, todo : SUBSET Change]]
           /\ x \in Change
  <1> DEFINE F == [on : BOOLEAN, todo : SUBSET Change]
  <1>1. flights \in [FlightId -> F] /\ flights[f] \in F
    BY DEF IndInv, TypeOK
  <1>2. [flights[f] EXCEPT !.todo = flights[f].todo \ {x}] \in F
    BY <1>1
  <1>3. Done(f, x) => flights' = [flights EXCEPT ![f] =
                                   [flights[f] EXCEPT !.todo = flights[f].todo \ {x}]]
    BY DEF Done
  <1>4. x \in Change
    BY <1>1
  <1> QED
    BY <1>1, <1>2, <1>3, <1>4

LEMMA FaultCounts ==
    ASSUME IndInv, faults < MaxFaults, faults' = faults + 1
    PROVE  faults' \in 0..MaxFaults
  BY RoutingAssumption DEF IndInv, TypeOK

LEMMA ApplyOK ==
    ASSUME IndInv, NEW f \in FlightId, Apply(f)
    PROVE  IndInv'
  <1>1. ASSUME NEW x \in flights[f].todo, ApplyAdd(f, x)
        PROVE  IndInv'
    <2>1. x \in AddChange /\ x.app \in App /\ x.up \in Upstream
      BY <1>1, DoneType DEF ApplyAdd, Adds, Change, AddChange, RemoveChange
    <2>2. flights' \in [FlightId -> [on : BOOLEAN, todo : SUBSET Change]]
      BY <1>1, DoneType DEF ApplyAdd
    <2>3. caddy' \in [App -> Seq(Upstream)]
      BY <1>1, <2>1, PostType DEF ApplyAdd
    <2> QED BY <1>1, <2>2, <2>3, Elsewhere DEF ApplyAdd, IndInv, TypeOK
  <1>2. ASSUME NEW x \in flights[f].todo, ApplyRemove(f, x)
        PROVE  IndInv'
    <2>1. x.app \in App
      BY DoneType DEF Change, AddChange, RemoveChange
    <2>2. flights' \in [FlightId -> [on : BOOLEAN, todo : SUBSET Change]]
      BY <1>2, DoneType DEF ApplyRemove
    <2>3. caddy' \in [App -> Seq(Upstream)]
      BY <1>2, <2>1, DeleteType DEF ApplyRemove
    <2> QED BY <1>2, <2>2, <2>3, Elsewhere DEF ApplyRemove, IndInv, TypeOK
  <1>3. CASE ApplyDone(f)
    <2>1. flights' \in [FlightId -> [on : BOOLEAN, todo : SUBSET Change]]
      BY <1>3, LandedType DEF ApplyDone, IndInv, TypeOK
    <2> QED BY <1>3, <2>1, Elsewhere DEF ApplyDone, IndInv, TypeOK
  <1> QED
    BY <1>1, <1>2, <1>3 DEF Apply

LEMMA ApplyFailsOK ==
    ASSUME IndInv, NEW f \in FlightId, NEW x \in flights[f].todo, ApplyFails(f, x)
    PROVE  IndInv'
  <1>1. flights' \in [FlightId -> [on : BOOLEAN, todo : SUBSET Change]]
    BY DoneType DEF ApplyFails
  <1>2. faults' \in 0..MaxFaults
    BY FaultCounts DEF ApplyFails
  <1> QED
    BY <1>1, <1>2, Elsewhere DEF ApplyFails, IndInv, TypeOK

\* A pass: what the detector may hold.
Pass == [pc : {"idle", "listed", "fix"}, seen : SUBSET App,
         stale : SUBSET App, missing : SUBSET (App \X Upstream)]

LEMMA PassType ==
    /\ NoPass \in Pass
    /\ \A d \in Pass : \A a : [d EXCEPT !.stale = @ \ {a}] \in Pass
    /\ \A d \in Pass : \A x : [d EXCEPT !.missing = @ \ {x}] \in Pass
  BY DEF NoPass, Pass

LEMMA DetectOK ==
    ASSUME IndInv, Detect
    PROVE  IndInv'
  <1>0. drift \in Pass
    BY DEF IndInv, TypeOK, Pass
  <1>1. CASE DriftList
    <2>1. drift' \in Pass
      BY <1>1 DEF DriftList, Pass, NoPass
    <2> QED BY <1>1, <2>1, Elsewhere DEF DriftList, IndInv, TypeOK, Pass
  <1>2. CASE DriftCompare
    <2> DEFINE running == {a \in App : db[a].running}
               missing == {<<a, db[a].up>> : a \in {b \in running \ drift.seen :
                                                       db[b].up # NoUpstream}}
    <2>1. \A a \in App : db[a].up # NoUpstream => db[a].up \in Upstream
      BY DEF IndInv, TypeOK, Up
    <2>2. missing \subseteq App \X Upstream
      BY <2>1
    <2>3. drift.seen \ running \subseteq App
      BY <1>0 DEF Pass
    <2>4. drift' = [pc |-> "fix", seen |-> {}, stale |-> drift.seen \ running,
                    missing |-> missing]
      BY <1>2 DEF DriftCompare
    <2>5. drift' \in Pass
      BY <2>2, <2>3, <2>4 DEF Pass
    <2> QED BY <1>2, <2>5, Elsewhere DEF DriftCompare, IndInv, TypeOK, Pass
  <1>3. CASE DriftDone
    BY <1>3, PassType, Elsewhere DEF DriftDone, IndInv, TypeOK, Pass
  <1>4. ASSUME NEW a \in drift.stale, DriftRemove(a)
        PROVE  IndInv'
    <2>1. a \in App
      BY <1>0 DEF Pass
    <2>2. caddy' \in [App -> Seq(Upstream)]
      BY <1>4, <2>1, DeleteType DEF DriftRemove
    <2>3. drift' \in Pass
      BY <1>0, <1>4, PassType DEF DriftRemove
    <2> QED BY <1>4, <2>2, <2>3, Elsewhere
            DEF DriftRemove, IndInv, TypeOK, Pass
  <1>5. ASSUME NEW x \in drift.missing, DriftAdd(x)
        PROVE  IndInv'
    <2>1. x[1] \in App /\ x[2] \in Upstream
      BY <1>0 DEF Pass
    <2>2. caddy' \in [App -> Seq(Upstream)]
      BY <1>5, <2>1, PostType DEF DriftAdd
    <2>3. drift' \in Pass
      BY <1>0, <1>5, PassType DEF DriftAdd
    <2> QED BY <1>5, <2>2, <2>3, Elsewhere
            DEF DriftAdd, IndInv, TypeOK, Pass
  <1> QED
    BY <1>1, <1>2, <1>3, <1>4, <1>5 DEF Detect

LEMMA DriftFailsOK ==
    ASSUME IndInv, DriftFails
    PROVE  IndInv'
  <1>1. drift' \in Pass
    <2>1. drift \in Pass
      BY DEF IndInv, TypeOK, Pass
    <2> QED BY <2>1, PassType DEF DriftFails
  <1>2. faults' \in 0..MaxFaults
    BY FaultCounts DEF DriftFails
  <1> QED
    BY <1>1, <1>2, Elsewhere DEF DriftFails, IndInv, TypeOK, Pass

LEMMA LoseNotificationOK ==
    ASSUME IndInv, NEW a \in App, LoseNotification(a)
    PROVE  IndInv'
  <1>1. BatcherType' /\ BufferedIsScheduled'
    BY BatcherStands DEF LoseNotification, IndInv, TypeOK
  <1>2. acking' \in [App -> AckStep]
    BY DEF LoseNotification, IndInv, TypeOK, AckStep
  <1>3. leaving' \in [App -> Nat]
    <2>1. leaving \in [App -> Nat]
      BY DEF IndInv, TypeOK
    <2>2. CASE UNCHANGED leaving
      BY <2>1, <2>2
    <2>3. CASE leaving[a] > 0 /\ leaving' = [leaving EXCEPT ![a] = @ - 1]
      <3>1. leaving[a] - 1 \in Nat
        BY <2>1, <2>3
      <3> QED BY <2>1, <2>3, <3>1
    <2> QED BY <2>2, <2>3 DEF LoseNotification
  <1>4. faults' \in 0..MaxFaults
    BY FaultCounts DEF LoseNotification
  <1>5. RestType'
    BY <1>2, <1>3, <1>4 DEF LoseNotification, IndInv, TypeOK, RestType
  <1> QED
    BY <1>1, <1>5, Rebuild

LEMMA NewProcessOK ==
    ASSUME IndInv, NewProcess, faults' \in 0..MaxFaults
    PROVE  IndInv'
  <1>1. BufferedIsScheduled'
    BY NothingBuffered DEF NewProcess
  <1>2. BatcherType'
    <2>1. [f \in FlightId |-> Landed] \in [FlightId -> [on : BOOLEAN, todo : SUBSET Change]]
      BY LandedType
    <2>2. 0 \in 0..MaxFlights /\ 0 \in Nat
      BY RoutingAssumption
    <2> QED BY <2>1, <2>2, EmptyIsEmpty DEF NewProcess, BatcherType
  <1>3. RestType'
    BY PassType DEF NewProcess, IndInv, TypeOK, RestType, AckStep, Pass
  <1> QED
    BY <1>1, <1>2, <1>3, Rebuild

-----------------------------------------------------------------------------
(* The theorems. *)

LEMMA InitOK == Init => IndInv
  <1> SUFFICES ASSUME Init PROVE IndInv
    OBVIOUS
  <1>1. BufferedIsScheduled
    BY EmptyIsEmpty DEF Init, BufferedIsScheduled
  <1>2. BatcherType
    <2>1. [f \in FlightId |-> Landed] \in [FlightId -> [on : BOOLEAN, todo : SUBSET Change]]
      BY LandedType
    <2>2. 0 \in 0..MaxFlights /\ 0 \in Nat
      BY RoutingAssumption
    <2> QED BY <2>1, <2>2, EmptyIsEmpty DEF Init, BatcherType
  <1>3. RestType
    BY PassType, RoutingAssumption DEF Init, RestType, AckStep, Pass, Up
  <1> QED
    BY <1>1, <1>2, <1>3 DEF IndInv, TypeOK, BatcherType, RestType

LEMMA NextOK == IndInv /\ Next => IndInv'
  <1> SUFFICES ASSUME IndInv, Next PROVE IndInv'
    OBVIOUS
  <1>1. ASSUME NEW a \in App, SandboxRuns(a) \/ SandboxLeaves(a) \/ Handler(a)
        PROVE  IndInv'
    BY <1>1, SandboxOK, NotifyOK DEF Handler
  <1>2. ASSUME Fault PROVE IndInv'
    <2>1. CASE Crash
      BY <2>1, FaultCounts, NewProcessOK DEF Crash
    <2> QED BY <1>2, <2>1, ApplyFailsOK, DriftFailsOK, LoseNotificationOK, StopOK DEF Fault
  <1>3. CASE Exit
    BY <1>3, NewProcessOK DEF Exit, IndInv, TypeOK
  <1> QED
    BY <1>1, <1>2, <1>3, TimerFiresOK, CallbackOK, ApplyOK, DetectOK DEF Next

LEMMA StutterOK == IndInv /\ UNCHANGED vars => IndInv'
  BY DEF IndInv, TypeOK, BufferedIsScheduled, Buffered, vars

\* Every variable keeps its type; in particular Caddy is never given a route
\* without an upstream.
THEOREM RoutingTypes == Spec => []TypeOK
  <1>1. IndInv /\ [Next]_vars => IndInv'
    BY NextOK, StutterOK
  <1>2. IndInv => TypeOK
    BY DEF IndInv
  <1> QED
    BY InitOK, <1>1, <1>2, PTL DEF Spec

\* No change of a route is left in the buffer without a timer or a callback to
\* flush it, for any number of apps, overlapping flushes, failures and restarts.
THEOREM NoChangeIsStranded == Spec => []BufferedIsScheduled
  <1>1. IndInv /\ [Next]_vars => IndInv'
    BY NextOK, StutterOK
  <1>2. IndInv => BufferedIsScheduled
    BY DEF IndInv
  <1> QED
    BY InitOK, <1>1, <1>2, PTL DEF Spec
=============================================================================
