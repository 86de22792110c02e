---------------------------- MODULE EventsProofs ----------------------------
(***************************************************************************)
(* Proofs about Events: its types, and that the control plane learns of an *)
(* event after a later one only if the agent has given that event up.      *)
(*                                                                         *)
(* The argument: the events on their way form one line, from those posted  *)
(* (recv, wire) over the report under way, the channel and the event held  *)
(* to the place in the stream, and along it they never decrease.  A replay *)
(* begins at the last event read, a stream without a last event begins     *)
(* past all events; so a connection does not step behind the line.         *)
(***************************************************************************)
EXTENDS Events, TLAPS

\* The watcher's next event is not before j.
Beyond(j) ==
    /\ stream.st = "up" => j <= stream.pos
    /\ last # 0 => j <= last
    /\ j <= Len(log)

\* What has been posted is not after what is under way.
PostsBehind ==
    \A j \in Range(recv) \cup Range(wire) :
        /\ report # NoReport => j <= report.ev
        /\ \A k \in DOMAIN out : j <= out[k]
        /\ held # 0 => j <= held
        /\ Beyond(j)

ReportBehind ==
    report # NoReport =>
        /\ report.ev \in Event
        /\ \A k \in DOMAIN out : report.ev <= out[k]
        /\ held # 0 => report.ev <= held
        /\ Beyond(report.ev)

OutSorted ==
    \A k \in DOMAIN out :
        /\ \A m \in DOMAIN out : k <= m => out[k] <= out[m]
        /\ held # 0 => out[k] <= held
        /\ Beyond(out[k])

HeldBehind == held # 0 => Beyond(held)

Positioned == (stream.st = "up" => stream.pos >= 1) /\ last <= Len(log)

\* A post the client no longer waits for is one of the report under way, or of
\* an event that is settled.
WireIsOld ==
    \A j \in Range(wire) :
        Settled(j) \/ (report # NoReport /\ j = report.ev)

Inv == /\ TypeOK /\ PostsBehind /\ ReportBehind /\ OutSorted
       /\ HeldBehind /\ Positioned /\ WireIsOld

-----------------------------------------------------------------------------
\* Appending adds one element to a sequence's range.
LEMMA RangeAppend ==
    ASSUME NEW S, NEW s \in Seq(S), NEW e \in S
    PROVE  /\ Append(s, e) \in Seq(S)
           /\ Range(Append(s, e)) = Range(s) \cup {e}
           /\ Last(Append(s, e)) = e
<1>1. Append(s, e) \in Seq(S) /\ Last(Append(s, e)) = e
  BY DEF Last
<1>2. \A x \in Range(Append(s, e)) : x \in Range(s) \cup {e}
  BY DEF Range
<1>3. \A x \in Range(s) : x \in Range(Append(s, e))
  <2> TAKE x \in Range(s)
  <2>1. PICK k \in DOMAIN s : s[k] = x
    BY DEF Range
  <2>2. k \in DOMAIN Append(s, e) /\ Append(s, e)[k] = x
    BY <2>1
  <2> QED BY <2>2 DEF Range
<1>4. e \in Range(Append(s, e))
  <2>1. Len(s) + 1 \in DOMAIN Append(s, e) /\ Append(s, e)[Len(s) + 1] = e
    OBVIOUS
  <2> QED BY <2>1 DEF Range
<1> QED BY <1>1, <1>2, <1>3, <1>4

\* Removing an element leaves a part of the range.
LEMMA RangeRemoveAt ==
    ASSUME NEW S, NEW s \in Seq(S), NEW i \in DOMAIN s
    PROVE  /\ RemoveAt(s, i) \in Seq(S)
           /\ Range(RemoveAt(s, i)) \subseteq Range(s)
           /\ s[i] \in Range(s)
           /\ s[i] \in S
<1> DEFINE a == SubSeq(s, 1, i - 1)
           b == SubSeq(s, i + 1, Len(s))
<1>1. /\ a \in Seq(S) /\ Len(a) = i - 1
      /\ \A k \in 1..i - 1 : a[k] = s[k]
  OBVIOUS
<1>2. /\ b \in Seq(S) /\ Len(b) = Len(s) - i
      /\ \A k \in 1..Len(s) - i : b[k] = s[i + k]
  OBVIOUS
<1>3. RemoveAt(s, i) = a \o b
  BY DEF RemoveAt
<1> HIDE DEF a, b
<1>4. a \o b \in Seq(S) /\ Len(a \o b) = Len(s) - 1
  BY <1>1, <1>2
<1>5. \A k \in 1..Len(s) - 1 : (a \o b)[k] \in Range(s)
  <2> TAKE k \in 1..Len(s) - 1
  <2>1. CASE k <= i - 1
    <3>1. (a \o b)[k] = s[k]
      BY <1>1, <1>2, <2>1
    <3> QED BY <3>1 DEF Range
  <2>2. CASE k > i - 1
    <3>1. (a \o b)[k] = s[k + 1] /\ k + 1 \in DOMAIN s
      BY <1>1, <1>2, <2>2
    <3> QED BY <3>1 DEF Range
  <2>3. k <= i - 1 \/ k > i - 1
    OBVIOUS
  <2> QED BY <2>1, <2>2, <2>3
<1>6. DOMAIN (a \o b) = 1..Len(s) - 1
  BY <1>1, <1>2, <1>4
<1>7. Range(a \o b) \subseteq Range(s)
  BY <1>5, <1>6 DEF Range
<1>8. s[i] \in Range(s)
  BY DEF Range
<1>9. s[i] \in S
  OBVIOUS
<1> QED BY <1>3, <1>4, <1>7, <1>8, <1>9

\* Head and tail of a channel, element by element.
LEMMA TailElements ==
    ASSUME NEW S, NEW s \in Seq(S), s # <<>>
    PROVE  /\ Tail(s) \in Seq(S) /\ Len(Tail(s)) = Len(s) - 1
           /\ Head(s) = s[1] /\ 1 \in DOMAIN s /\ s[1] \in S
           /\ \A k \in DOMAIN Tail(s) : k + 1 \in DOMAIN s /\ Tail(s)[k] = s[k + 1]
OBVIOUS

\* The elements of a channel with one more.
LEMMA AppendElements ==
    ASSUME NEW S, NEW s \in Seq(S), NEW e \in S
    PROVE  /\ Len(Append(s, e)) = Len(s) + 1
           /\ \A k \in DOMAIN Append(s, e) :
                \/ k \in DOMAIN s /\ Append(s, e)[k] = s[k]
                \/ k = Len(s) + 1 /\ Append(s, e)[k] = e
           /\ \A k \in DOMAIN s : k \in Nat /\ k <= Len(s)
OBVIOUS

\* Elements of a sequence of events are natural numbers.
LEMMA RangeIn ==
    ASSUME NEW S, NEW s \in Seq(S)
    PROVE  Range(s) \subseteq S
BY DEF Range

LEMMA InitInv == Init => Inv
<1> SUFFICES ASSUME Init PROVE Inv
  OBVIOUS
<1> USE EventsAssumption DEF Init
<1>1. Range(recv) = {} /\ Range(wire) = {} /\ DOMAIN out = {}
  BY DEF Range
<1>2. TypeOK
  BY DEF TypeOK, NoReport, Event
<1> QED
  BY <1>1, <1>2 DEF Inv, PostsBehind, ReportBehind, OutSorted, HeldBehind, Positioned,
                    WireIsOld

-----------------------------------------------------------------------------
(* One lemma for each action. *)

\* Docker appends: every bound by the length of its log still holds.
LEMMA EmitInv == ASSUME Inv, NEW ours \in BOOLEAN, Emit(ours) PROVE Inv'
<1> USE EventsAssumption
<1>1. log \in Seq(BOOLEAN) /\ log' \in Seq(BOOLEAN) /\ Len(log') = Len(log) + 1
  BY DEF Inv, TypeOK, Emit
<1>2. TypeOK'
  BY <1>1 DEF Inv, TypeOK, Emit, watcher, forwarder, counts
<1>3. ASSUME NEW j \in Int, Beyond(j) PROVE Beyond(j)'
  BY <1>1, <1>3 DEF Beyond, Emit, watcher
<1>4. PostsBehind' /\ ReportBehind'
  <2>1. Range(recv) \cup Range(wire) \subseteq Int
    BY RangeIn DEF Inv, TypeOK, Event
  <2> QED BY <1>3, <2>1 DEF Inv, Emit, watcher, forwarder, PostsBehind, ReportBehind, Event
<1>5. OutSorted' /\ HeldBehind' /\ Positioned'
  <2>1. \A k \in DOMAIN out : out[k] \in Int
    BY DEF Inv, TypeOK, Event
  <2>2. held \in Int /\ last \in Int /\ Len(log) \in Int
    BY DEF Inv, TypeOK
  <2>3. OutSorted'
    BY <1>3, <2>1 DEF Inv, Emit, watcher, OutSorted
  <2> QED BY <1>1, <1>3, <2>2, <2>3 DEF Inv, Emit, watcher, HeldBehind, Positioned
<1>6. WireIsOld'
  BY DEF Inv, Emit, forwarder, WireIsOld, Settled
<1> QED BY <1>2, <1>4, <1>5, <1>6 DEF Inv

\* A stream that breaks or ends is no longer up.
LEMMA StreamDownInv == ASSUME Inv, StreamBreaks \/ StreamEnds PROVE Inv'
<1> USE EventsAssumption
<1> DEFINE rest == <<log, last, held, out, report, wire, recv, dropped, restarts>>
<1>1. /\ UNCHANGED rest
      /\ stream' \in [st : {"down", "ended"}, pos : 0..MaxEvents + 1]
      /\ faults' \in 0..MaxFaults
  <2>1. stream \in [st : {"down", "up", "ended"}, pos : 0..MaxEvents + 1]
    BY DEF Inv, TypeOK
  <2>2. faults' \in 0..MaxFaults
    BY DEF Inv, TypeOK, StreamBreaks, StreamEnds, Fault
  <2>3. \/ stream' = [stream EXCEPT !.st = "down"]
        \/ stream' = [stream EXCEPT !.st = "ended"]
    BY DEF StreamBreaks, StreamEnds
  <2>4. UNCHANGED rest
    BY DEF StreamBreaks, StreamEnds, forwarder
  <2> QED BY <2>1, <2>2, <2>3, <2>4
<1>2. TypeOK'
  BY <1>1 DEF Inv, TypeOK
<1>3. stream'.st # "up"
  BY <1>1
<1>4. PostsBehind' /\ ReportBehind'
  BY <1>1, <1>3 DEF Inv, PostsBehind, ReportBehind, Beyond
<1>5. OutSorted' /\ HeldBehind' /\ Positioned' /\ WireIsOld'
  BY <1>1, <1>3 DEF Inv, OutSorted, HeldBehind, Positioned, WireIsOld, Settled, Beyond
<1> QED BY <1>2, <1>4, <1>5 DEF Inv

\* The replay begins at the last event read, or past the log: behind nothing
\* that is under way.
LEMMA ConnectInv == ASSUME Inv, Connect PROVE Inv'
<1> USE EventsAssumption
<1>1. /\ UNCHANGED <<log, last, held, out, report, wire, recv, dropped, faults, restarts>>
      /\ stream'.st = "up" /\ stream'.pos = Since
      /\ stream' \in [st : {"down", "up", "ended"}, pos : 0..MaxEvents + 1]
      /\ Since \in Nat /\ Since >= 1
      /\ Len(log) \in Nat
  BY DEF Inv, TypeOK, Connect, forwarder, counts, Since
<1>2. TypeOK'
  BY <1>1 DEF Inv, TypeOK
<1>3. ASSUME NEW j \in Int, Beyond(j) PROVE Beyond(j)'
  BY <1>1, <1>3 DEF Beyond, Since
<1>4. Range(recv) \cup Range(wire) \subseteq Int
  BY RangeIn DEF Inv, TypeOK, Event
<1>5. \A k \in DOMAIN out : out[k] \in Int
  BY DEF Inv, TypeOK, Event
<1>6. PostsBehind'
  BY <1>1, <1>3, <1>4 DEF Inv, PostsBehind
<1>7. ReportBehind' /\ HeldBehind' /\ Positioned' /\ WireIsOld'
  BY <1>1, <1>3 DEF Inv, TypeOK, ReportBehind, HeldBehind, Positioned, WireIsOld, Settled, Event
<1>8. OutSorted'
  BY <1>1, <1>3, <1>5 DEF Inv, OutSorted
<1> QED BY <1>2, <1>6, <1>7, <1>8 DEF Inv

\* The event read is the one at the stream's place, and nothing is beyond it.
LEMMA ReadInv == ASSUME Inv, Read PROVE Inv'
<1> USE EventsAssumption
<1>1. /\ UNCHANGED <<log, out, report, wire, recv, dropped, faults, restarts>>
      /\ held = 0 /\ stream.st = "up" /\ stream'.st = "up"
      /\ stream.pos \in Nat /\ stream.pos >= 1 /\ stream.pos <= Len(log)
      /\ stream'.pos = stream.pos + 1
      /\ stream' \in [st : {"down", "up", "ended"}, pos : 0..MaxEvents + 1]
      /\ Len(log) \in Nat /\ Len(log) <= MaxEvents
      /\ \/ last' = stream.pos /\ held' = stream.pos
         \/ last' = last /\ held' = held
  <2>1. /\ stream \in [st : {"down", "up", "ended"}, pos : 0..MaxEvents + 1]
        /\ Len(log) \in Nat /\ Len(log) <= MaxEvents
    BY DEF Inv, TypeOK
  <2>2. /\ UNCHANGED <<log, out, report, wire, recv, dropped, faults, restarts>>
        /\ held = 0 /\ stream.st = "up" /\ stream.pos <= Len(log)
        /\ stream' = [stream EXCEPT !.pos = stream.pos + 1]
        /\ \/ last' = stream.pos /\ held' = stream.pos
           \/ last' = last /\ held' = held
    BY DEF Read, forwarder, counts
  <2>3. stream.pos >= 1
    BY <2>2 DEF Inv, Positioned
  <2> QED BY <2>1, <2>2, <2>3
<1>2. TypeOK'
  BY <1>1 DEF Inv, TypeOK
<1>3. ASSUME NEW j \in Int, Beyond(j) PROVE Beyond(j)' /\ (held' # 0 => j <= held')
  BY <1>1, <1>3 DEF Beyond
<1>4. Range(recv) \cup Range(wire) \subseteq Int
  BY RangeIn DEF Inv, TypeOK, Event
<1>5. \A k \in DOMAIN out : out[k] \in Int
  BY DEF Inv, TypeOK, Event
<1>6. PostsBehind'
  BY <1>1, <1>3, <1>4 DEF Inv, PostsBehind
<1>7. ReportBehind'
  BY <1>1, <1>3 DEF Inv, TypeOK, ReportBehind, Event
<1>8. HeldBehind' /\ Positioned'
  BY <1>1 DEF Inv, TypeOK, HeldBehind, Positioned, Beyond
<1>9. OutSorted'
  BY <1>1, <1>3, <1>5 DEF Inv, OutSorted
<1>10. WireIsOld'
  BY <1>1 DEF Inv, WireIsOld, Settled
<1> QED BY <1>2, <1>6, <1>7, <1>8, <1>9, <1>10 DEF Inv

\* The event held goes to the end of the channel, where the largest belongs.
LEMMA PushInv == ASSUME Inv, Push PROVE Inv'
<1> USE EventsAssumption
<1>1. /\ UNCHANGED <<log, stream, last, report, wire, recv, dropped, faults, restarts>>
      /\ held # 0 /\ held' = 0 /\ held \in Event
      /\ out \in Seq(Event) /\ Len(out) < OutCap /\ out' = Append(out, held)
  BY DEF Inv, TypeOK, Push, forwarder, counts, Event
<1>2. /\ Len(out') = Len(out) + 1 /\ out' \in Seq(Event)
      /\ \A k \in DOMAIN out' : \/ k \in DOMAIN out /\ out'[k] = out[k]
                                \/ k = Len(out) + 1 /\ out'[k] = held
      /\ \A k \in DOMAIN out : k \in Nat /\ k <= Len(out)
  BY <1>1, AppendElements
<1>3. TypeOK'
  BY <1>1, <1>2 DEF Inv, TypeOK
<1>4. \A j : Beyond(j) => Beyond(j)'
  BY <1>1 DEF Beyond
<1>5. PostsBehind'
  BY <1>1, <1>2, <1>4 DEF Inv, PostsBehind
<1>6. ReportBehind'
  BY <1>1, <1>2, <1>4 DEF Inv, ReportBehind
<1>7. OutSorted'
  <2> SUFFICES ASSUME NEW k \in DOMAIN out'
               PROVE  /\ \A m \in DOMAIN out' : k <= m => out'[k] <= out'[m]
                      /\ Beyond(out[k])'
    BY <1>1 DEF OutSorted
  <2>1. CASE k \in DOMAIN out /\ out'[k] = out[k]
    BY <1>1, <1>2, <1>4, <2>1 DEF Inv, OutSorted
  <2>2. CASE k = Len(out) + 1 /\ out'[k] = held
    <3>1. \A m \in DOMAIN out' : k <= m => out'[m] = held
      BY <1>1, <1>2, <2>2
    <3> QED BY <1>1, <1>4, <2>2, <3>1 DEF Inv, HeldBehind, Event
  <2> QED BY <1>2, <2>1, <2>2
<1>8. HeldBehind' /\ Positioned' /\ WireIsOld'
  BY <1>1 DEF Inv, HeldBehind, Positioned, WireIsOld, Settled
<1> QED BY <1>3, <1>5, <1>6, <1>7, <1>8 DEF Inv

\* The head of the channel, the smallest, becomes the report.
LEMMA TakeInv == ASSUME Inv, Take PROVE Inv'
<1> USE EventsAssumption
<1>1. /\ UNCHANGED <<log, stream, last, held, wire, recv, dropped, faults, restarts>>
      /\ report = NoReport /\ report' = [ev |-> Head(out), attempt |-> 1]
      /\ out \in Seq(Event) /\ out # <<>> /\ out' = Tail(out)
  BY DEF Inv, TypeOK, Take, watcher, counts
<1>2. /\ out' \in Seq(Event) /\ Len(out') = Len(out) - 1
      /\ report'.ev = out[1] /\ 1 \in DOMAIN out /\ out[1] \in Event
      /\ \A k \in DOMAIN out' : k + 1 \in DOMAIN out /\ out'[k] = out[k + 1]
  BY <1>1, TailElements
<1>3. \A k \in DOMAIN out' : k \in Nat /\ k >= 1
  BY <1>2
<1>4. TypeOK'
  BY <1>1, <1>2 DEF Inv, TypeOK, Event
<1>5. \A j : Beyond(j) => Beyond(j)'
  BY <1>1 DEF Beyond
<1>6. PostsBehind'
  BY <1>1, <1>2, <1>5 DEF Inv, PostsBehind
<1>7. ReportBehind'
  <2>1. \A k \in DOMAIN out' : out[1] <= out'[k]
    BY <1>2, <1>3 DEF Inv, OutSorted
  <2> QED BY <1>1, <1>2, <1>5, <2>1 DEF Inv, ReportBehind, OutSorted
<1>8. OutSorted'
  <2> SUFFICES ASSUME NEW k \in DOMAIN out'
               PROVE  /\ \A m \in DOMAIN out' : k <= m => out'[k] <= out'[m]
                      /\ held # 0 => out'[k] <= held
                      /\ Beyond(out[k])'
    BY <1>1 DEF OutSorted
  <2>1. \A m \in DOMAIN out' : k <= m => k + 1 <= m + 1
    BY <1>3
  <2> QED BY <1>2, <1>5, <2>1 DEF Inv, OutSorted
<1>9. HeldBehind' /\ Positioned' /\ WireIsOld'
  BY <1>1, <1>5 DEF Inv, HeldBehind, Positioned, WireIsOld, Settled
<1> QED BY <1>4, <1>6, <1>7, <1>8, <1>9 DEF Inv

\* What the steps of a report have in common: they post the event once more or
\* not at all, and end the report only when the event is settled.
LEMMA ReportStepInv ==
    ASSUME Inv, report # NoReport,
           UNCHANGED <<log, stream, last, held, out, restarts>>,
           faults' \in 0..MaxFaults,
           \/ report' = NoReport /\ report.ev \in Range(recv') \cup dropped'
           \/ /\ report' # NoReport /\ report'.ev = report.ev
              /\ report' \in [ev : 0..MaxEvents, attempt : 0..3],
           recv' \in Seq(Event), wire' \in Seq(Event),
           Range(recv) \subseteq Range(recv'),
           Range(recv') \subseteq Range(recv) \cup {report.ev},
           Range(wire') \subseteq Range(wire) \cup {report.ev},
           dropped \subseteq dropped', dropped' \subseteq Event
    PROVE  Inv'
<1> USE EventsAssumption
<1>1. \A j : Beyond(j) => Beyond(j)'
  BY DEF Beyond
<1>2. TypeOK'
  <2>1. report' \in [ev : 0..MaxEvents, attempt : 0..3]
    BY DEF NoReport
  <2> QED BY <2>1 DEF Inv, TypeOK
<1>3. /\ report.ev \in Event /\ Beyond(report.ev)
      /\ \A k \in DOMAIN out : report.ev <= out[k]
      /\ held # 0 => report.ev <= held
  BY DEF Inv, ReportBehind
<1>4. PostsBehind'
  <2> SUFFICES ASSUME NEW j \in Range(recv') \cup Range(wire')
               PROVE  /\ report' # NoReport => j <= report'.ev
                      /\ \A k \in DOMAIN out : j <= out[k]
                      /\ held # 0 => j <= held
                      /\ Beyond(j)
    BY <1>1 DEF PostsBehind
  <2>1. CASE j = report.ev
    BY <1>3, <2>1 DEF Event
  <2>2. CASE j \in Range(recv) \cup Range(wire)
    BY <2>2 DEF Inv, PostsBehind
  <2> QED BY <2>1, <2>2
<1>5. ReportBehind'
  BY <1>1, <1>3 DEF ReportBehind
<1>6. OutSorted' /\ HeldBehind' /\ Positioned'
  BY <1>1 DEF Inv, OutSorted, HeldBehind, Positioned
<1>7. WireIsOld'
  BY DEF Inv, WireIsOld, Settled
<1> QED BY <1>2, <1>4, <1>5, <1>6, <1>7 DEF Inv

LEMMA AnsweredInv == ASSUME Inv, Answered PROVE Inv'
<1>1. /\ UNCHANGED <<log, stream, last, held, out, wire, dropped, faults, restarts>>
      /\ report # NoReport /\ report' = NoReport
      /\ recv' = Append(recv, report.ev)
  BY DEF Answered, watcher, counts
<1>2. /\ report.ev \in Event /\ recv \in Seq(Event) /\ wire \in Seq(Event)
      /\ dropped \subseteq Event /\ faults \in 0..MaxFaults
  BY <1>1 DEF Inv, TypeOK, ReportBehind
<1>3. recv' \in Seq(Event) /\ Range(recv') = Range(recv) \cup {report.ev}
  BY <1>1, <1>2, RangeAppend
<1> QED BY <1>1, <1>2, <1>3, ReportStepInv

LEMMA ErrsInv == ASSUME Inv, Errs PROVE Inv'
<1> USE EventsAssumption
<1>1. /\ UNCHANGED <<log, stream, last, held, out, recv, restarts>>
      /\ report # NoReport
      /\ wire' \in {wire, Append(wire, report.ev)}
  BY DEF Errs, watcher
<1>2. /\ report.ev \in Event /\ recv \in Seq(Event) /\ wire \in Seq(Event)
      /\ dropped \subseteq Event
      /\ report \in [ev : 0..MaxEvents, attempt : 0..3]
  BY <1>1 DEF Inv, TypeOK, ReportBehind
<1>3. wire' \in Seq(Event) /\ Range(wire') \subseteq Range(wire) \cup {report.ev}
  <2>1. /\ Append(wire, report.ev) \in Seq(Event)
        /\ Range(Append(wire, report.ev)) = Range(wire) \cup {report.ev}
    BY <1>2, RangeAppend
  <2>2. CASE wire' = wire
    BY <1>2, <2>2
  <2>3. CASE wire' = Append(wire, report.ev)
    BY <2>1, <2>3
  <2> QED BY <1>1, <2>2, <2>3
<1>4. faults' \in 0..MaxFaults
  BY DEF Inv, TypeOK, Errs, Fault
<1>5. /\ \/ report' = NoReport /\ report.ev \in dropped'
         \/ /\ report' # NoReport /\ report'.ev = report.ev
            /\ report' \in [ev : 0..MaxEvents, attempt : 0..3]
      /\ dropped \subseteq dropped' /\ dropped' \subseteq Event
  BY <1>2 DEF Errs, GiveUp, NoReport
<1> QED BY <1>1, <1>2, <1>3, <1>4, <1>5, ReportStepInv

LEMMA RefusedInv == ASSUME Inv, Unauthorized \/ Refused PROVE Inv'
<1> USE EventsAssumption
<1>1. /\ UNCHANGED <<log, stream, last, held, out, wire, recv, restarts>>
      /\ report # NoReport
  BY DEF Unauthorized, Refused, watcher
<1>2. /\ report.ev \in Event /\ recv \in Seq(Event) /\ wire \in Seq(Event)
      /\ dropped \subseteq Event
      /\ report \in [ev : 0..MaxEvents, attempt : 0..3]
  BY <1>1 DEF Inv, TypeOK, ReportBehind
<1>3. faults' \in 0..MaxFaults
  BY DEF Inv, TypeOK, Unauthorized, Refused, Fault
<1>4. /\ \/ report' = NoReport /\ report.ev \in dropped'
         \/ /\ report' # NoReport /\ report'.ev = report.ev
            /\ report' \in [ev : 0..MaxEvents, attempt : 0..3]
      /\ dropped \subseteq dropped' /\ dropped' \subseteq Event
  BY <1>2 DEF Unauthorized, Refused, GiveUp, NoReport
<1> QED BY <1>1, <1>2, <1>3, <1>4, ReportStepInv

\* A late post was behind before it was handled, and it still is.
LEMMA HandledLateInv == ASSUME Inv, NEW i \in DOMAIN wire, HandledLate(i) PROVE Inv'
<1> USE EventsAssumption
<1>1. /\ UNCHANGED <<log, stream, last, held, out, report, dropped, faults, restarts>>
      /\ recv' = Append(recv, wire[i]) /\ wire' = RemoveAt(wire, i)
  BY DEF HandledLate, watcher, counts
<1>2. recv \in Seq(Event) /\ wire \in Seq(Event)
  BY DEF Inv, TypeOK
<1>3. /\ wire' \in Seq(Event) /\ Range(wire') \subseteq Range(wire)
      /\ wire[i] \in Range(wire) /\ wire[i] \in Event
  BY <1>1, <1>2, RangeRemoveAt
<1>4. recv' \in Seq(Event) /\ Range(recv') = Range(recv) \cup {wire[i]}
  BY <1>1, <1>2, <1>3, RangeAppend
<1>5. Range(recv') \cup Range(wire') \subseteq Range(recv) \cup Range(wire)
  BY <1>3, <1>4
<1>6. \A j : Beyond(j) => Beyond(j)'
  BY <1>1 DEF Beyond
<1>7. TypeOK'
  BY <1>1, <1>3, <1>4 DEF Inv, TypeOK
<1>8. PostsBehind'
  BY <1>1, <1>5, <1>6 DEF Inv, PostsBehind
<1>9. ReportBehind' /\ OutSorted' /\ HeldBehind' /\ Positioned'
  BY <1>1, <1>6 DEF Inv, ReportBehind, OutSorted, HeldBehind, Positioned
<1>10. WireIsOld'
  BY <1>1, <1>3, <1>4 DEF Inv, WireIsOld, Settled
<1> QED BY <1>7, <1>8, <1>9, <1>10 DEF Inv

\* The line is empty but for the posts, and its next event is past the log.
LEMMA AgentRestartsInv == ASSUME Inv, AgentRestarts PROVE Inv'
<1> USE EventsAssumption
<1>1. /\ UNCHANGED <<log, recv, faults>>
      /\ stream' = [st |-> "down", pos |-> 0]
      /\ last' = 0 /\ held' = 0 /\ out' = <<>> /\ report' = NoReport
      /\ dropped' = dropped \cup InAgent
      /\ restarts' \in 0..MaxRestarts
  BY DEF Inv, TypeOK, AgentRestarts
<1>2. /\ recv \in Seq(Event) /\ wire \in Seq(Event) /\ out \in Seq(Event)
      /\ held \in 0..MaxEvents /\ dropped \subseteq Event
      /\ report \in [ev : 0..MaxEvents, attempt : 0..3]
      /\ Len(log) \in Nat
  BY DEF Inv, TypeOK
<1>3. InAgent \subseteq Event
  <2>1. Range(out) \subseteq Event
    BY <1>2, RangeIn
  <2> QED BY <1>2, <2>1 DEF InAgent, Event
<1>4. \/ wire' = wire
      \/ /\ report # NoReport /\ report.ev \in Event
         /\ wire' \in Seq(Event) /\ Range(wire') = Range(wire) \cup {report.ev}
  <2>1. wire' = wire \/ (report # NoReport /\ wire' = Append(wire, report.ev))
    BY DEF AgentRestarts
  <2>2. report # NoReport => report.ev \in Event
    BY DEF Inv, ReportBehind
  <2>3. ASSUME report # NoReport
        PROVE  /\ Append(wire, report.ev) \in Seq(Event)
               /\ Range(Append(wire, report.ev)) = Range(wire) \cup {report.ev}
    BY <1>2, <2>2, <2>3, RangeAppend
  <2>4. CASE wire' = wire
    BY <2>4
  <2>5. CASE report # NoReport /\ wire' = Append(wire, report.ev)
    BY <2>2, <2>3, <2>5
  <2> QED BY <2>1, <2>4, <2>5
<1>5. TypeOK'
  BY <1>1, <1>2, <1>3, <1>4 DEF Inv, TypeOK, NoReport, Event
<1>6. DOMAIN out' = {}
  BY <1>1
<1>7. PostsBehind'
  <2>1. ASSUME NEW j \in Range(recv') \cup Range(wire') PROVE j <= Len(log)
    <3>1. CASE j \in Range(recv) \cup Range(wire)
      BY <3>1 DEF Inv, PostsBehind, Beyond
    <3>2. CASE report # NoReport /\ j = report.ev
      BY <3>2 DEF Inv, ReportBehind, Beyond
    <3> QED BY <1>1, <1>4, <2>1, <3>1, <3>2
  <2> QED BY <1>1, <1>6, <2>1 DEF PostsBehind, Beyond
<1>8. ReportBehind' /\ OutSorted' /\ HeldBehind' /\ Positioned'
  BY <1>1, <1>2, <1>6 DEF ReportBehind, OutSorted, HeldBehind, Positioned
<1>9. WireIsOld'
  <2>1. report # NoReport => report.ev \in dropped'
    BY <1>1 DEF Inv, ReportBehind, InAgent, Event
  <2> QED BY <1>1, <1>4, <2>1 DEF Inv, WireIsOld, Settled
<1> QED BY <1>5, <1>7, <1>8, <1>9 DEF Inv

LEMMA StutterInv == ASSUME Inv, UNCHANGED vars PROVE Inv'
BY DEF Inv, TypeOK, PostsBehind, ReportBehind, OutSorted, HeldBehind, Positioned,
       WireIsOld, Settled, Beyond, vars, watcher, forwarder, counts

LEMMA NextInv == Inv /\ [Next]_vars => Inv'
<1> SUFFICES ASSUME Inv, [Next]_vars PROVE Inv'
  OBVIOUS
<1>1. CASE \E ours \in BOOLEAN : Emit(ours)
  BY <1>1, EmitInv
<1>2. CASE Watch
  BY <1>2, ConnectInv, ReadInv, PushInv DEF Watch
<1>3. CASE Take
  BY <1>3, TakeInv
<1>4. CASE Answered
  BY <1>4, AnsweredInv
<1>5. CASE \E i \in DOMAIN wire : HandledLate(i)
  BY <1>5, HandledLateInv
<1>6. CASE StreamBreaks \/ StreamEnds
  BY <1>6, StreamDownInv
<1>7. CASE Errs
  BY <1>7, ErrsInv
<1>8. CASE Unauthorized \/ Refused
  BY <1>8, RefusedInv
<1>9. CASE AgentRestarts
  BY <1>9, AgentRestartsInv
<1>10. CASE UNCHANGED vars
  BY <1>10, StutterInv
<1> QED BY <1>1, <1>2, <1>3, <1>4, <1>5, <1>6, <1>7, <1>8, <1>9, <1>10 DEF Next

-----------------------------------------------------------------------------
(* The theorems. *)

\* Types: the channel never exceeds its capacity, every event the agent holds
\* is one of Docker's log, and the stream's place is at most one past it.
THEOREM TypeCorrect == Spec => []TypeOK
<1>1. Inv => TypeOK
  BY DEF Inv
<1> QED BY InitInv, NextInv, <1>1, PTL DEF Spec

\* The event a step hands to the control plane is overtaken only if given up.
LEMMA InOrderStep ==
    ASSUME Inv, [Next]_vars, recv' # recv,
           Last(recv') \notin Range(recv),
           NEW j \in Range(recv), j > Last(recv')
    PROVE  Last(recv') \in dropped
<1>1. recv \in Seq(Event) /\ wire \in Seq(Event) /\ Range(recv) \subseteq Int
  <2>1. recv \in Seq(Event) /\ wire \in Seq(Event)
    BY DEF Inv, TypeOK
  <2>2. Range(recv) \subseteq Event
    BY <2>1, RangeIn
  <2> QED BY <2>1, <2>2 DEF Event
<1>2. CASE Answered
  <2>1. report # NoReport /\ recv' = Append(recv, report.ev)
    BY <1>2 DEF Answered
  <2>2. report.ev \in Event /\ j <= report.ev
    BY <2>1 DEF Inv, ReportBehind, PostsBehind
  <2>3. Last(recv') = report.ev
    BY <1>1, <2>1, <2>2, RangeAppend
  <2> QED BY <1>1, <2>2, <2>3 DEF Event
<1>3. CASE \E i \in DOMAIN wire : HandledLate(i)
  <2>1. PICK i \in DOMAIN wire : HandledLate(i)
    BY <1>3
  <2>2. wire[i] \in Event /\ wire[i] \in Range(wire)
    BY <1>1, RangeRemoveAt
  <2>3. Last(recv') = wire[i]
    BY <1>1, <2>1, <2>2, RangeAppend DEF HandledLate
  <2>4. Settled(wire[i]) \/ (report # NoReport /\ wire[i] = report.ev)
    BY <2>2 DEF Inv, WireIsOld
  <2>5. CASE report # NoReport /\ wire[i] = report.ev
    <3>1. j <= report.ev
      BY <2>5 DEF Inv, PostsBehind
    <3> QED BY <1>1, <2>2, <2>3, <2>5, <3>1 DEF Event
  <2> QED BY <2>3, <2>4, <2>5 DEF Settled
<1>4. Answered \/ \E i \in DOMAIN wire : HandledLate(i)
  BY DEF Next, vars, watcher, forwarder, counts, Emit, Watch, Connect, Read, Push, Take,
         StreamBreaks, StreamEnds, Errs, Unauthorized, Refused, AgentRestarts
<1> QED BY <1>2, <1>3, <1>4

\* Over broken streams, replays, retries, late posts and restarts of the agent,
\* the control plane learns of an event after a later one only if the agent has
\* given it up: for every capacity of the channel and any number of faults.
THEOREM EventsInOrder == Spec => InOrderUnlessGivenUp
<1>1. Inv /\ [Next]_vars =>
        [recv' # recv =>
           LET i == Last(recv') IN
           (i \notin Range(recv) /\ \E j \in Range(recv) : j > i) => i \in dropped]_vars
  BY InOrderStep
<1> QED BY InitInv, NextInv, <1>1, PTL DEF Spec, InOrderUnlessGivenUp
=============================================================================
