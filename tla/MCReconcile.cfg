CONSTANTS
    Sandbox = {s1}
    App = {a1}
    AppOf <- SameApp
    Node = {n1}
    Client = {c1}
    NoNode = NoNode
    NoSandbox = NoSandbox
    ApiOps = {"create"}
    MaxRestartAttempts = 1
    MaxCmds = 2
    MaxCrashes = 0
    MaxTimeouts = 0
    MaxFaults = 1
    Reader = {r1, r2}
    Labelled = {a1}
SPECIFICATION ReconcileFairSpec
INVARIANTS
    ReconcileTypeOK
PROPERTIES
    LostIsNoticed
CHECK_DEADLOCK FALSE
