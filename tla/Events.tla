------------------------------- MODULE Events -------------------------------
(***************************************************************************)
(* The way of a container event from Docker to the control plane: the      *)
(* watcher follows Docker's event stream and reconnects from the time of   *)
(* its last event, a buffered channel leads to the forwarder, and          *)
(* ReportEvent posts one event at a time and repeats a post that failed.   *)
(* What the control plane does with an event is Lifecycle's subject.       *)
(*                                                                         *)
(* An event is its place in Docker's log, which is also its time.  The     *)
(* backoff between two connections and the text of a report are left out.  *)
(***************************************************************************)
EXTENDS Integers, SequencesExt

CONSTANTS
    OutCap,       \* capacity of the watcher's channel
    MaxEvents,    \* bound: events of Docker
    MaxFaults,    \* bound: streams that break or end, reports that go wrong
    MaxRestarts   \* bound: restarts of the agent

ASSUME EventsAssumption ==
    /\ OutCap \in Nat \ {0}
    /\ MaxEvents \in Nat /\ MaxFaults \in Nat /\ MaxRestarts \in Nat

VARIABLES
    log,       \* Docker's events; TRUE: of a forge- container, and mapped
    stream,    \* the event stream and the watcher's place in it
    last,      \* lastEventTime; 0: the zero time
    held,      \* the event the watcher is about to send on its channel; 0: none
    out,       \* the channel
    report,    \* the report the forwarder is at
    wire,      \* posts the client no longer waits for and the server may yet handle
    recv,      \* events the control plane has handled, in that order
    dropped,   \* events the agent has given up or lost in a restart
    faults, restarts

watcher == <<stream, last, held>>
forwarder == <<report, wire, recv, dropped>>
counts == <<faults, restarts>>
vars == <<log, watcher, out, forwarder, counts>>

Event == 1..MaxEvents
NoReport == [ev |-> 0, attempt |-> 0]

Fault == faults < MaxFaults /\ faults' = faults + 1

-----------------------------------------------------------------------------
(* Docker. *)

Emit(ours) ==
    /\ Len(log) < MaxEvents
    /\ log' = Append(log, ours)
    /\ UNCHANGED <<watcher, out, forwarder, counts>>

\* The stream fails: the client closes the messages and sends an error.
StreamBreaks ==
    /\ Fault
    /\ stream.st = "up"
    /\ stream' = [stream EXCEPT !.st = "down"]
    /\ UNCHANGED <<log, last, held, out, forwarder, restarts>>

\* The stream ends without an error, which ends the watcher for good.
StreamEnds ==
    /\ Fault
    /\ stream.st = "up"
    /\ stream' = [stream EXCEPT !.st = "ended"]
    /\ UNCHANGED <<log, last, held, out, forwarder, restarts>>

-----------------------------------------------------------------------------
(* watchLoop and processStream. *)

\* Mutant of Since: the stream is opened at the present, at every connection.
SinceNow == Len(log) + 1

\* Docker replays the events from the given time on, that time included; given
\* the zero time it replays none.
Since == IF last = 0 THEN Len(log) + 1 ELSE last

Connect ==
    /\ stream.st = "down"
    /\ held = 0
    /\ stream' = [st |-> "up", pos |-> Since]
    /\ UNCHANGED <<log, last, held, out, forwarder, counts>>

\* The next event; mapEvent passes over the ones of others, whose time is not kept.
Read ==
    /\ stream.st = "up"
    /\ held = 0
    /\ stream.pos <= Len(log)
    /\ stream' = [stream EXCEPT !.pos = @ + 1]
    /\ IF log[stream.pos] THEN last' = stream.pos /\ held' = stream.pos
                          ELSE UNCHANGED <<last, held>>
    /\ UNCHANGED <<log, out, forwarder, counts>>

\* Mutant of Push: a channel that grows.
PushAnyway ==
    /\ held # 0
    /\ out' = Append(out, held)
    /\ held' = 0
    /\ UNCHANGED <<log, stream, last, forwarder, counts>>

\* The send waits while the channel is full, whatever becomes of the stream.
Push ==
    /\ held # 0
    /\ Len(out) < OutCap
    /\ out' = Append(out, held)
    /\ held' = 0
    /\ UNCHANGED <<log, stream, last, forwarder, counts>>

-----------------------------------------------------------------------------
(* forwardEvents and ReportEvent. *)

\* Mutant of Take: the newest event goes first.
TakeNewest ==
    /\ report = NoReport
    /\ out # <<>>
    /\ report' = [ev |-> Last(out), attempt |-> 1]
    /\ out' = Front(out)
    /\ UNCHANGED <<log, watcher, wire, recv, dropped, counts>>

Take ==
    /\ report = NoReport
    /\ out # <<>>
    /\ report' = [ev |-> Head(out), attempt |-> 1]
    /\ out' = Tail(out)
    /\ UNCHANGED <<log, watcher, wire, recv, dropped, counts>>

GiveUp == report' = NoReport /\ dropped' = dropped \cup {report.ev}

\* The control plane handles the event and answers.
Answered ==
    /\ report # NoReport
    /\ recv' = Append(recv, report.ev)
    /\ report' = NoReport
    /\ UNCHANGED <<log, watcher, out, wire, dropped, counts>>

\* No answer in time, or no connection: the server has nothing, or handles the
\* post later.  The first attempt is repeated; the post after a renewed
\* registration (attempt 3) is not.
Errs ==
    /\ Fault
    /\ report # NoReport
    /\ wire' \in {wire, Append(wire, report.ev)}
    /\ IF report.attempt = 1 THEN report' = [report EXCEPT !.attempt = 2] /\ UNCHANGED dropped
                             ELSE GiveUp
    /\ UNCHANGED <<log, watcher, out, recv, restarts>>

\* 401: the agent registers again and posts once more, unless registering
\* fails; the answer to that post is not looked at.
Unauthorized ==
    /\ Fault
    /\ report # NoReport
    /\ \/ report.attempt < 3 /\ report' = [report EXCEPT !.attempt = 3] /\ UNCHANGED dropped
       \/ GiveUp
    /\ UNCHANGED <<log, watcher, out, wire, recv, restarts>>

\* Any other status counts as success: an event the server refuses is gone.
Refused ==
    /\ Fault
    /\ report # NoReport
    /\ GiveUp
    /\ UNCHANGED <<log, watcher, out, wire, recv, restarts>>

\* The server handles a post whose client has timed out.
HandledLate(i) ==
    /\ recv' = Append(recv, wire[i])
    /\ wire' = RemoveAt(wire, i)
    /\ UNCHANGED <<log, watcher, out, report, dropped, counts>>

-----------------------------------------------------------------------------
\* What the agent has read and not yet reported.
InAgent == (Range(out) \cup {held, report.ev}) \ {0}

\* lastEventTime and everything under way is memory of the agent.
AgentRestarts ==
    /\ restarts < MaxRestarts
    /\ restarts' = restarts + 1
    /\ stream' = [st |-> "down", pos |-> 0]
    /\ last' = 0
    /\ held' = 0
    /\ out' = <<>>
    /\ dropped' = dropped \cup InAgent
    /\ report' = NoReport
    /\ wire' \in {wire} \cup {Append(wire, r.ev) : r \in {report} \ {NoReport}}
    /\ UNCHANGED <<log, recv, faults>>

Init ==
    /\ log = <<>>
    /\ stream = [st |-> "down", pos |-> 0]
    /\ last = 0
    /\ held = 0
    /\ out = <<>>
    /\ report = NoReport
    /\ wire = <<>>
    /\ recv = <<>>
    /\ dropped = {}
    /\ faults = 0
    /\ restarts = 0

Watch == Connect \/ Read \/ Push

Next ==
    \/ \E ours \in BOOLEAN : Emit(ours)
    \/ Watch \/ Take \/ Answered
    \/ \E i \in DOMAIN wire : HandledLate(i)
    \/ StreamBreaks \/ StreamEnds \/ Errs \/ Unauthorized \/ Refused
    \/ AgentRestarts

Spec == Init /\ [][Next]_vars

\* The watcher and the forwarder are goroutines of their own, and a post ends
\* (the client's timeout is 30 s); nothing obliges the server to handle one
\* whose client is gone.
Fairness == WF_vars(Watch) /\ WF_vars(Take) /\ WF_vars(Answered)

FairSpec == Spec /\ Fairness

-----------------------------------------------------------------------------
TypeOK ==
    /\ log \in Seq(BOOLEAN) /\ Len(log) <= MaxEvents
    /\ stream \in [st : {"down", "up", "ended"}, pos : 0..MaxEvents + 1]
    /\ last \in 0..Len(log)
    /\ held \in 0..Len(log)
    /\ out \in Seq(Event) /\ Len(out) <= OutCap
    /\ report \in [ev : 0..MaxEvents, attempt : 0..3]
    /\ wire \in Seq(Event)
    /\ recv \in Seq(Event)
    /\ dropped \subseteq Event
    /\ faults \in 0..MaxFaults /\ restarts \in 0..MaxRestarts

Settled(i) == i \in Range(recv) \cup dropped

\* Once the watcher has read an event, each later event of a forge- container is
\* reported or given up on, over streams that break and a channel that is full;
\* except that the stream ends cleanly, or the agent restarts.
WatchedIsReported ==
    \A i \in Event :
        (last \in 1..i /\ Len(log) >= i /\ log[i])
            ~> (Settled(i) \/ stream.st = "ended" \/ last = 0)

\* The control plane learns of an event after a later one only if the agent has
\* given that event up: retries, replays and late posts do not overtake otherwise.
InOrderUnlessGivenUp ==
    [][recv' # recv =>
         LET i == Last(recv') IN
         (i \notin Range(recv) /\ \E j \in Range(recv) : j > i) => i \in dropped]_vars

\* docs/contracts/agent-protocol.md: the reconnection misses no event.  An event
\* that occurs while the watcher is connected is reported or given up on.
NoneIsMissed ==
    \A i \in Event :
        (stream.st = "up" /\ Len(log) = i /\ stream.pos <= i /\ log[i])
            ~> (Settled(i) \/ stream.st = "ended")
=============================================================================
