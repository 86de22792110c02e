----------------------------- MODULE Redelivery -----------------------------
(***************************************************************************)
(* Lifecycle with the deliveries of Events: a container event reaches the  *)
(* control plane twice (ReportEvent repeats a post whose answer it missed, *)
(* a reconnected watcher reads its last event again), or late, after the   *)
(* agent gave it up and whatever happened to the sandbox in between.       *)
(* HandleEvent is given no time or number to tell such an event by.        *)
(***************************************************************************)
EXTENDS Lifecycle

CONSTANT MaxAgain   \* bound: events delivered again or late

ASSUME RedeliveryAssumption == MaxAgain \in Nat

VARIABLES
    late,    \* posts of each node's agent that the server has yet to handle
    again    \* how many events were delivered again or late

rvars == <<vars, late, again>>

Again == again < MaxAgain /\ again' = again + 1

\* A post times out and stays with the server.  The agent's next attempt is
\* handled before it, or fails too and the agent goes on to its next event.
PostDelayed(n) ==
    /\ Again
    /\ evq[n] # <<>>
    /\ late' = [late EXCEPT ![n] = @ \cup {Head(evq[n])}]
    /\ \/ UNCHANGED evq
       \/ evq' = [evq EXCEPT ![n] = Tail(@)]
    /\ UNCHANGED <<db, call, batch, inbox, tracked, ctr, route, counts>>

\* The server comes to the delayed post: HandleEvent reads it next.
PostHandled(n) ==
    /\ At(Evt(n), "idle")
    /\ \E e \in late[n] :
         /\ late' = [late EXCEPT ![n] = @ \ {e}]
         /\ evq' = [evq EXCEPT ![n] = <<e>> \o @]
    /\ UNCHANGED <<db, call, batch, inbox, tracked, ctr, route, counts, again>>

\* The watcher reads its last event again: the queue holds it twice.
EventReplayed(n) ==
    /\ Again
    /\ evq[n] # <<>>
    /\ evq' = [evq EXCEPT ![n] = <<Head(@)>> \o @]
    /\ UNCHANGED <<db, call, batch, inbox, tracked, ctr, route, counts, late>>

RedeliveryInit ==
    /\ Init
    /\ late = [n \in Node |-> {}]
    /\ again = 0

LifecycleStep == Next /\ UNCHANGED <<late, again>>

RedeliveryNext ==
    \/ LifecycleStep
    \/ \E n \in Node : PostDelayed(n) \/ PostHandled(n) \/ EventReplayed(n)

RedeliverySpec == RedeliveryInit /\ [][RedeliveryNext]_rvars

\* Lifecycle's fairness.  Nothing obliges the server to handle a late post.
RedeliveryFairness ==
    /\ \A c \in Client : WF_rvars(ApiStep(c) /\ UNCHANGED <<late, again>>)
    /\ \A n \in Node : /\ WF_rvars(AgentStep(n) /\ UNCHANGED <<late, again>>)
                       /\ WF_rvars(HandleAck(n) /\ UNCHANGED <<late, again>>)
                       /\ WF_rvars(HandleEvent(n) /\ UNCHANGED <<late, again>>)
    /\ WF_rvars(ReaperStep /\ UNCHANGED <<late, again>>)
    /\ WF_rvars(Reschedule /\ UNCHANGED <<late, again>>)

RedeliveryFairSpec == RedeliverySpec /\ RedeliveryFairness

-----------------------------------------------------------------------------
\* A second or a late report of a crash is taken for another one: a sandbox that
\* is starting again then fails.  The ack or the report of its start takes it back:
\* once all is quiet and no post is under way, a failed sandbox has no container up.
FailedIsDown ==
    (Quiet /\ \A n \in Node : late[n] = {}) =>
        \A s \in Sandbox : row[s].state = "failed" => ~ctr[row[s].node][AppOf[s]].up
=============================================================================
