------------------------------ MODULE Routing ------------------------------
(***************************************************************************)
(* How a change of a sandbox's state reaches the Caddy reverse proxy       *)
(* (control/internal/routing): the handlers' notifications, the batcher    *)
(* with its debounce timer and its flushes, which run without the mutex,   *)
(* the calls on Caddy's admin API, and the drift detector.                 *)
(*                                                                         *)
(* Every section under the batcher's mutex, every SQL statement and every  *)
(* API call is one step.  An upstream is a node's address and host port.   *)
(***************************************************************************)
EXTENDS Integers, Sequences, FiniteSets

CONSTANTS
    App,               \* application names
    Upstream,          \* addresses a sandbox of an app can have
    NoUpstream,        \* host_port is NULL
    MaxBuf,            \* maxBuf
    AppendsDuplicate,  \* Caddy's answer to a POST of an @id it has: append or refuse
    MaxFlights,        \* bound: flushes under way at a time
    MaxChanges,        \* bound: sandboxes that start or leave 'running'
    MaxFaults          \* bound: failed calls, lost notifications, restarts

ASSUME RoutingAssumption ==
    /\ NoUpstream \notin Upstream
    /\ MaxBuf \in Nat \ {0}
    /\ AppendsDuplicate \in BOOLEAN
    /\ MaxFlights \in Nat
    /\ MaxChanges \in Nat
    /\ MaxFaults \in Nat

VARIABLES
    db,        \* the sandbox of each app: is it running, and the upstream in its row
    acking,    \* the HandleAck of each app: what it does next
    leaving,   \* handlers that took the app out of 'running' and have yet to notify
    pending,   \* the batcher's buffer, one change per app
    timer,     \* b.timer: nil, a timer that will fire, a timer that has fired
    orphans,   \* timers that will fire and that b.timer no longer refers to
    waiting,   \* timer callbacks that wait for the mutex
    stopped,   \* b.stopped
    drain,     \* the flush of Stop
    flights,   \* the flushes: what each Apply has left to do
    caddy,     \* Caddy: the upstreams of the app's routes, in the order of the array
    drift,     \* the drift detector's pass
    changes, faults   \* bounded

handlers == <<acking, leaving>>
batcher == <<pending, timer, orphans, waiting, stopped, drain>>
vars == <<db, acking, leaving, pending, timer, orphans, waiting, stopped, drain,
          flights, caddy, drift, changes, faults>>

-----------------------------------------------------------------------------
(* Data. *)

Up == Upstream \cup {NoUpstream}
FlightId == 1..MaxFlights

\* A RouteChange; an add has an upstream, which OnSandboxRunning insists on.
AddChange == [app : App, act : {"add"}, up : Upstream]
RemoveChange == [app : App, act : {"remove"}, up : {NoUpstream}]
Change == AddChange \cup RemoveChange
NoChange == [act |-> "none"]

Landed == [on |-> FALSE, todo |-> {}]

Buffered(p) == {a \in App : p[a] # NoChange}
EmptyBuffer == [a \in App |-> NoChange]

\* What HandleAck does next for an app: nothing, store the runtime info, or
\* notify the route manager of upstream up.
Ack(step, u) == [step |-> step, up |-> u]
NoAck == Ack("none", NoUpstream)
AckStep == {NoAck, Ack("persist", NoUpstream)} \cup {Ack("notify", u) : u \in Upstream}

NoPass == [pc |-> "idle", seen |-> {}, stale |-> {}, missing |-> {}]

-----------------------------------------------------------------------------
(* Sandboxes: what of Lifecycle this module needs. *)

\* The transition to 'running'.  The row keeps the host_port of an earlier start,
\* unless AssignSandboxToNode has cleared it.
SandboxRuns(a) ==
    /\ changes < MaxChanges
    /\ changes' = changes + 1
    /\ ~db[a].running
    /\ acking[a] = NoAck
    /\ \E u \in {db[a].up, NoUpstream} :
         db' = [db EXCEPT ![a] = [running |-> TRUE, up |-> u]]
    /\ acking' = [acking EXCEPT ![a] = Ack("persist", NoUpstream)]
    /\ UNCHANGED <<leaving, batcher, flights, caddy, drift, faults>>

\* persistRuntimeInfo and the fetch of the row that follows it.
Persist(a, u) ==
    /\ acking[a].step = "persist"
    /\ db' = [db EXCEPT ![a].up = u]
    /\ acking' = [acking EXCEPT ![a] = Ack("notify", u)]
    /\ UNCHANGED <<leaving, batcher, flights, caddy, drift, changes, faults>>

\* Stopped, crashed, destroyed or rescheduled.
SandboxLeaves(a) ==
    /\ changes < MaxChanges
    /\ changes' = changes + 1
    /\ db[a].running
    /\ db' = [db EXCEPT ![a].running = FALSE]
    /\ leaving' = [leaving EXCEPT ![a] = @ + 1]
    /\ UNCHANGED <<acking, batcher, flights, caddy, drift, faults>>

-----------------------------------------------------------------------------
(* The batcher. *)

\* flushLocked with something to flush: the buffer p goes to an Apply of its own
\* and b.timer is forgotten; a timer that is still to fire, tm, lives on.
Flush(p, tm, f) ==
    /\ ~flights[f].on
    /\ flights' = [flights EXCEPT ![f] =
                     [on |-> TRUE, todo |-> {p[a] : a \in Buffered(p)}]]
    /\ pending' = EmptyBuffer
    /\ timer' = "nil"
    /\ orphans' = IF tm = "armed" THEN orphans + 1 ELSE orphans

\* Enqueue: dropped once stopped; flushes a full buffer, after stopping the
\* timer; otherwise starts the timer, or resets it, even one that has fired.
Enqueue(a, act, u) ==
    LET p == [pending EXCEPT ![a] = [app |-> a, act |-> act, up |-> u]] IN
    \/ /\ stopped
       /\ UNCHANGED <<batcher, flights>>
    \/ /\ ~stopped
       /\ \/ /\ Cardinality(Buffered(p)) >= MaxBuf
             /\ \E f \in FlightId : Flush(p, "nil", f)
          \/ /\ Cardinality(Buffered(p)) < MaxBuf
             /\ pending' = p
             /\ timer' = "armed"
             /\ UNCHANGED <<flights, orphans>>
       /\ UNCHANGED <<waiting, stopped, drain>>

\* OnSandboxRunning and OnSandboxStopped.
NotifyAdd(a) ==
    /\ acking[a].step = "notify"
    /\ acking' = [acking EXCEPT ![a] = NoAck]
    /\ Enqueue(a, "add", acking[a].up)
    /\ UNCHANGED <<db, leaving, caddy, drift, changes, faults>>

NotifyRemove(a) ==
    /\ leaving[a] > 0
    /\ leaving' = [leaving EXCEPT ![a] = @ - 1]
    /\ Enqueue(a, "remove", NoUpstream)
    /\ UNCHANGED <<db, acking, caddy, drift, changes, faults>>

\* A timer fires: its callback starts and waits for the mutex.
TimerFires ==
    /\ \/ /\ timer = "armed"
          /\ timer' = "fired"
          /\ UNCHANGED orphans
       \/ /\ orphans > 0
          /\ orphans' = orphans - 1
          /\ UNCHANGED timer
    /\ waiting' = waiting + 1
    /\ UNCHANGED <<db, handlers, pending, stopped, drain, flights, caddy, drift,
                   changes, faults>>

\* A callback has the mutex.
Callback ==
    /\ waiting > 0
    /\ waiting' = waiting - 1
    /\ \/ /\ ~stopped
          /\ Buffered(pending) # {}
          /\ \E f \in FlightId : Flush(pending, timer, f)
       \/ /\ stopped \/ Buffered(pending) = {}
          /\ UNCHANGED <<pending, timer, orphans, flights>>
    /\ UNCHANGED <<db, handlers, stopped, drain, caddy, drift, changes,
                   faults>>

\* Stop flushes what is buffered and waits for that flush.
Stop ==
    /\ faults < MaxFaults
    /\ faults' = faults + 1
    /\ ~stopped
    /\ stopped' = TRUE
    /\ \/ /\ Buffered(pending) # {}
          /\ \E f \in FlightId : Flush(pending, "nil", f) /\ drain' = f
       \/ /\ Buffered(pending) = {}
          /\ timer' = "nil"
          /\ drain' = 0
          /\ UNCHANGED <<pending, orphans, flights>>
    /\ UNCHANGED <<db, handlers, waiting, caddy, drift, changes>>

-----------------------------------------------------------------------------
(* Caddy's admin API, and Apply. *)

\* POST appends to the routes; what Caddy does with an @id it already has
\* depends on its version.
Post(a, u) ==
    caddy' = IF caddy[a] = <<>> \/ AppendsDuplicate
             THEN [caddy EXCEPT ![a] = Append(@, u)] ELSE caddy

\* DELETE by @id removes one route; 404 is as good.
Delete(a) ==
    \/ /\ caddy[a] = <<>>
       /\ UNCHANGED caddy
    \/ \E i \in 1..Len(caddy[a]) :
         caddy' = [caddy EXCEPT ![a] = SubSeq(@, 1, i - 1) \o SubSeq(@, i + 1, Len(@))]

Adds(f) == {x \in flights[f].todo : x.act = "add"}
Done(f, x) == flights' = [flights EXCEPT ![f].todo = @ \ {x}]

\* Apply: the adds, then the removes.
ApplyAdd(f, x) ==
    /\ x \in Adds(f)
    /\ Post(x.app, x.up)
    /\ Done(f, x)
    /\ UNCHANGED <<db, handlers, batcher, drift, changes, faults>>

ApplyRemove(f, x) ==
    /\ Adds(f) = {}
    /\ x \in flights[f].todo
    /\ Delete(x.app)
    /\ Done(f, x)
    /\ UNCHANGED <<db, handlers, batcher, drift, changes, faults>>

\* A failed call is logged; the change is not tried again.
ApplyFails(f, x) ==
    /\ faults < MaxFaults
    /\ faults' = faults + 1
    /\ x \in flights[f].todo
    /\ Done(f, x)
    /\ UNCHANGED <<db, handlers, batcher, caddy, drift, changes>>

\* Mutant of ApplyDone: the timer is stopped, and not forgotten, on the way out.
ApplyDoneStopsTimer(f) ==
    /\ flights[f].on
    /\ flights[f].todo = {}
    /\ flights' = [flights EXCEPT ![f] = Landed]
    /\ timer' = "nil"
    /\ UNCHANGED <<db, handlers, pending, orphans, waiting, stopped, drain, caddy,
                   drift, changes, faults>>

\* flushLocked takes the mutex again and returns.
ApplyDone(f) ==
    /\ flights[f].on
    /\ flights[f].todo = {}
    /\ flights' = [flights EXCEPT ![f] = Landed]
    /\ UNCHANGED <<db, handlers, batcher, caddy, drift, changes, faults>>

-----------------------------------------------------------------------------
(* The drift detector. *)

\* ListRoutes.
DriftList ==
    /\ drift = NoPass
    /\ drift' = [NoPass EXCEPT !.pc = "listed",
                               !.seen = {a \in App : caddy[a] # <<>>}]
    /\ UNCHANGED <<db, handlers, batcher, flights, caddy, changes, faults>>

\* Mutant of DriftCompare: the check of host_port is gone.
DriftCompareAnyPort ==
    LET running == {a \in App : db[a].running} IN
    /\ drift.pc = "listed"
    /\ drift' = [pc |-> "fix", seen |-> {},
                 stale |-> drift.seen \ running,
                 missing |-> {<<a, db[a].up>> : a \in running \ drift.seen}]
    /\ UNCHANGED <<db, handlers, batcher, flights, caddy, changes, faults>>

\* ListSandboxesByState: routes of apps that are not running are stale; running
\* apps without a route are missing one, if they have an upstream.
DriftCompare ==
    LET running == {a \in App : db[a].running} IN
    /\ drift.pc = "listed"
    /\ drift' = [pc |-> "fix", seen |-> {},
                 stale |-> drift.seen \ running,
                 missing |-> {<<a, db[a].up>> : a \in {b \in running \ drift.seen :
                                                         db[b].up # NoUpstream}}]
    /\ UNCHANGED <<db, handlers, batcher, flights, caddy, changes, faults>>

DriftRemove(a) ==
    /\ a \in drift.stale
    /\ Delete(a)
    /\ drift' = [drift EXCEPT !.stale = @ \ {a}]
    /\ UNCHANGED <<db, handlers, batcher, flights, changes, faults>>

\* Mutant of DriftAdd: the missing routes are counted and not added.
DriftCountMissing(x) ==
    /\ drift.stale = {}
    /\ x \in drift.missing
    /\ drift' = [drift EXCEPT !.missing = @ \ {x}]
    /\ UNCHANGED <<db, handlers, batcher, flights, caddy, changes, faults>>

DriftAdd(x) ==
    /\ drift.stale = {}
    /\ x \in drift.missing
    /\ Post(x[1], x[2])
    /\ drift' = [drift EXCEPT !.missing = @ \ {x}]
    /\ UNCHANGED <<db, handlers, batcher, flights, changes, faults>>

DriftDone ==
    /\ drift.pc = "fix"
    /\ drift.stale = {} /\ drift.missing = {}
    /\ drift' = NoPass
    /\ UNCHANGED <<db, handlers, batcher, flights, caddy, changes, faults>>

\* A list that fails ends the pass; a failed call leaves its route to the next.
DriftFails ==
    /\ faults < MaxFaults
    /\ faults' = faults + 1
    /\ \/ drift.pc = "listed" /\ drift' = NoPass
       \/ \E a \in drift.stale : drift' = [drift EXCEPT !.stale = @ \ {a}]
       \/ \E x \in drift.missing : /\ drift.stale = {}
                                   /\ drift' = [drift EXCEPT !.missing = @ \ {x}]
    /\ UNCHANGED <<db, handlers, batcher, flights, caddy, changes>>

-----------------------------------------------------------------------------
(* Restarts and lost notifications. *)

\* A handler ends between its transition and its notification.
LoseNotification(a) ==
    /\ faults < MaxFaults
    /\ faults' = faults + 1
    /\ \/ /\ acking[a] # NoAck
          /\ acking' = [acking EXCEPT ![a] = NoAck]
          /\ UNCHANGED leaving
       \/ /\ leaving[a] > 0
          /\ leaving' = [leaving EXCEPT ![a] = @ - 1]
          /\ UNCHANGED acking
    /\ UNCHANGED <<db, batcher, flights, caddy, drift, changes>>

\* A new process: an empty batcher, no handler, no pass.  Caddy keeps its routes.
NewProcess ==
    /\ acking' = [a \in App |-> NoAck]
    /\ leaving' = [a \in App |-> 0]
    /\ pending' = EmptyBuffer
    /\ timer' = "nil"
    /\ orphans' = 0
    /\ waiting' = 0
    /\ stopped' = FALSE
    /\ drain' = 0
    /\ flights' = [f \in FlightId |-> Landed]
    /\ drift' = NoPass
    /\ UNCHANGED <<db, caddy, changes>>

\* main returns once Stop has; any other flush under way is cut short.
Exit ==
    /\ stopped
    /\ drain \in FlightId => ~flights[drain].on
    /\ NewProcess
    /\ UNCHANGED faults

Crash ==
    /\ faults < MaxFaults
    /\ faults' = faults + 1
    /\ NewProcess

-----------------------------------------------------------------------------
(* The specification. *)

Init ==
    /\ db = [a \in App |-> [running |-> FALSE, up |-> NoUpstream]]
    /\ acking = [a \in App |-> NoAck]
    /\ leaving = [a \in App |-> 0]
    /\ pending = EmptyBuffer
    /\ timer = "nil"
    /\ orphans = 0
    /\ waiting = 0
    /\ stopped = FALSE
    /\ drain = 0
    /\ flights = [f \in FlightId |-> Landed]
    /\ caddy = [a \in App |-> <<>>]
    /\ drift = NoPass
    /\ changes = 0
    /\ faults = 0

Handler(a) == (\E u \in Upstream : Persist(a, u)) \/ NotifyAdd(a) \/ NotifyRemove(a)

Apply(f) ==
    \/ \E x \in flights[f].todo : ApplyAdd(f, x) \/ ApplyRemove(f, x)
    \/ ApplyDone(f)

Detect ==
    \/ DriftList \/ DriftCompare \/ DriftDone
    \/ \E a \in drift.stale : DriftRemove(a)
    \/ \E x \in drift.missing : DriftAdd(x)

Fault ==
    \/ \E f \in FlightId : \E x \in flights[f].todo : ApplyFails(f, x)
    \/ DriftFails
    \/ \E a \in App : LoseNotification(a)
    \/ Stop
    \/ Crash

Next ==
    \/ \E a \in App : SandboxRuns(a) \/ SandboxLeaves(a) \/ Handler(a)
    \/ TimerFires
    \/ Callback
    \/ \E f \in FlightId : Apply(f)
    \/ Detect
    \/ Exit
    \/ Fault

Spec == Init /\ [][Next]_vars

\* Handlers go on, timers fire, goroutines get the mutex, HTTP calls return (the
\* client has a timeout) and the detector's ticker ticks.
Fairness ==
    /\ \A a \in App : WF_vars(Handler(a))
    /\ WF_vars(TimerFires)
    /\ WF_vars(Callback)
    /\ \A f \in FlightId : WF_vars(Apply(f))
    /\ WF_vars(Detect)
    /\ WF_vars(Exit)

FairSpec == Spec /\ Fairness

-----------------------------------------------------------------------------
(* Properties. *)

TypeOK ==
    /\ db \in [App -> [running : BOOLEAN, up : Up]]
    /\ acking \in [App -> AckStep]
    /\ leaving \in [App -> Nat]
    /\ pending \in [App -> Change \cup {NoChange}]
    /\ timer \in {"nil", "armed", "fired"}
    /\ orphans \in Nat
    /\ waiting \in Nat
    /\ stopped \in BOOLEAN
    /\ drain \in 0..MaxFlights
    /\ flights \in [FlightId -> [on : BOOLEAN, todo : SUBSET Change]]
    /\ caddy \in [App -> Seq(Upstream)]
    /\ drift \in [pc : {"idle", "listed", "fix"}, seen : SUBSET App,
                  stale : SUBSET App, missing : SUBSET (App \X Upstream)]
    /\ changes \in 0..MaxChanges
    /\ faults \in 0..MaxFaults

\* A buffered change is never stranded: a timer will fire or a callback already
\* waits for the mutex, whatever flushes overlapped and whichever timer was reset
\* after it had fired; and a stopped batcher has nothing buffered.
BufferedIsScheduled ==
    Buffered(pending) # {} =>
        /\ ~stopped
        /\ timer = "armed" \/ orphans > 0 \/ waiting > 0

\* Caddy has a route for every running app that has an upstream, and none for an
\* app that is not running.
Present(a) == caddy[a] # <<>>
Agree ==
    \A a \in App : /\ db[a].running /\ db[a].up # NoUpstream => Present(a)
                   /\ ~db[a].running => ~Present(a)

\* Once the sandboxes stop changing, the routes are there for good, after lost
\* notifications, failed calls, reordered flushes and restarts.
PresenceConverges == <>[]Agree

\* Once the sandboxes stop changing, requests for a running app go to the
\* upstream in its row: the first route that matches is the one Caddy takes.
UpstreamConverges ==
    <>[](\A a \in App : db[a].running /\ db[a].up # NoUpstream /\ Present(a)
                            => Head(caddy[a]) = db[a].up)
=============================================================================
