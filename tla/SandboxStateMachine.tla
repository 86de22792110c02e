------------------------ MODULE SandboxStateMachine ------------------------
(***************************************************************************)
(* The sandbox state machine shared by the control plane and its clients   *)
(* (shared-go/models/sandbox.go): eight states, nine events and the      *)
(* ValidTransitions table that every handler consults through NextState.   *)
(***************************************************************************)

\* AllStates: the values the CHECK constraint of sandboxes.state admits.
State == {"pending", "starting", "running", "restarting", "stopped",
          "destroying", "destroyed", "failed"}

\* AllEvents.
Event == {"scheduled", "started", "start_failed", "container_exited",
          "restart_attempt", "idle_timeout", "destroy_requested", "destroyed",
          "node_failed"}

\* ValidTransitions, as the set of triples <<from, event, to>>.
ValidTransitions ==
    { <<"pending",    "scheduled",         "starting">>,
      <<"pending",    "destroy_requested", "destroyed">>,
      <<"starting",   "started",           "running">>,
      <<"starting",   "container_exited",  "failed">>,
      <<"starting",   "start_failed",      "failed">>,
      <<"starting",   "destroy_requested", "destroying">>,
      <<"running",    "container_exited",  "restarting">>,
      <<"running",    "destroy_requested", "destroying">>,
      <<"running",    "idle_timeout",      "stopped">>,
      <<"running",    "node_failed",       "pending">>,
      <<"restarting", "restart_attempt",   "starting">>,
      <<"restarting", "destroy_requested", "destroying">>,
      <<"stopped",    "scheduled",         "starting">>,
      <<"stopped",    "destroy_requested", "destroyed">>,
      <<"destroying", "destroyed",         "destroyed">>,
      <<"failed",     "restart_attempt",   "starting">>,
      <<"failed",     "destroy_requested", "destroyed">>,
      <<"failed",     "started",           "running">> }

\* Mutant of NextState: a failed sandbox stays failed.
NextStateFinal(from, ev) ==
    { to \in State : <<from, ev, to>> \in ValidTransitions /\ <<from, ev>> # <<"failed", "started">> }

\* NextState: the set holding the target of ev from a state, empty where the
\* code's second result is false.
NextState(from, ev) == { to \in State : <<from, ev, to>> \in ValidTransitions }

\* The pairs of states that some event of the table connects.
Edge == { <<t[1], t[3]>> : t \in ValidTransitions }
=============================================================================
