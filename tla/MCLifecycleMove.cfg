CONSTANTS
    Sandbox = {s1}
    App = {a1}
    AppOf <- SameApp
    Node = {n1, n2}
    Client = {c1}
    NoNode = NoNode
    NoSandbox = NoSandbox
    ApiOps = {"create", "destroy", "wake", "push", "restart"}
    MaxRestartAttempts = 1
    MaxCmds = 3
    MaxCrashes = 0
    MaxTimeouts = 1
    MaxFaults = 0
SPECIFICATION Spec
SYMMETRY Symmetry
INVARIANTS
    PendingIsAttended
    StartingIsAttended
PROPERTIES
    StateMachineRespected
CHECK_DEADLOCK FALSE
