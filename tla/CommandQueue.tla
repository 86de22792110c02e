---------------------------- MODULE CommandQueue ----------------------------
(***************************************************************************)
(* What the commands table promises, whatever its handlers, the agents and *)
(* the network do.  A command is handed at most once, to the node it was   *)
(* issued for, oldest first and never before the node is through with what *)
(* it was handed before; it is acked at most once, by a node that has had  *)
(* it.  A command whose delivery or ack is lost is spent: no other is      *)
(* handed out in its place.  Lifecycle implements this specification.      *)
(***************************************************************************)
EXTENDS Naturals, Sequences

CONSTANT Node

VARIABLE log    \* the commands in the order they were issued

vars == <<log>>

Life == {"queued", "held", "spent", "completed", "failed"}
Entry == [node : Node, life : Life]

\* The commands of node n in a stage of their life.
At(n, life) == {i \in 1..Len(log) : log[i].node = n /\ log[i].life = life}

Move(I, life) ==
    log' = [i \in 1..Len(log) |-> IF i \in I THEN [log[i] EXCEPT !.life = life]
                                             ELSE log[i]]

Issue(n) == log' = Append(log, [node |-> n, life |-> "queued"])

\* A poll hands out some of the node's commands, none older left behind, to an
\* agent that holds none; the answer may be lost.
Poll(n) ==
    /\ At(n, "held") = {}
    /\ \E I \in SUBSET At(n, "queued") :
         /\ I # {}
         /\ \A i \in I, j \in At(n, "queued") \ I : i < j
         /\ Move(I, "held") \/ Move(I, "spent")

\* The agent begins one of its commands, or restarts and forgets them all.
Execute(n) == \E i \in At(n, "held") : Move({i}, "spent")
Forget(n) == At(n, "held") # {} /\ Move(At(n, "held"), "spent")

Ack(n) ==
    \E i \in At(n, "spent"), result \in {"completed", "failed"} : Move({i}, result)

Init == log = <<>>
Next == \E n \in Node : Issue(n) \/ Poll(n) \/ Execute(n) \/ Forget(n) \/ Ack(n)
Spec == Init /\ [][Next]_vars
=============================================================================
