CONSTANTS
    Sandbox = {s1}
    App = {a1}
    AppOf <- SameApp
    Node = {n1}
    Client = {c1}
    NoNode = NoNode
    NoSandbox = NoSandbox
    ApiOps = {"create", "destroy"}
    MaxRestartAttempts = 1
    MaxCmds = 3
    MaxCrashes = 1
    MaxTimeouts = 0
    MaxFaults = 0
    MaxAgain = 1
SPECIFICATION RedeliveryFairSpec
INVARIANTS
    RestartingIsAttended
    StartingIsAttended
    UpstreamIsCurrent
    FailedIsDown
PROPERTIES
    StartingResolves
CHECK_DEADLOCK FALSE
