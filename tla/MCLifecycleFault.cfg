CONSTANTS
    Sandbox = {s1, s2}
    App = {a1}
    AppOf <- SameApp
    Node = {n1}
    Client = {c1, c2}
    NoNode = NoNode
    NoSandbox = NoSandbox
    ApiOps = {"create", "destroy"}
    MaxRestartAttempts = 0
    MaxCmds = 2
    MaxCrashes = 1
    MaxTimeouts = 0
    MaxFaults = 1
SPECIFICATION Spec
SYMMETRY Symmetry
INVARIANTS
    TypeOK
    CommandHandedOutOnce
    RunningIsUp
    DestroyedIsGone
PROPERTIES
    CommandsDelivered
    StateMachineRespected
CHECK_DEADLOCK FALSE
