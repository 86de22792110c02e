CONSTANTS
    Sandbox = {s1}
    App = {a1}
    AppOf <- SameApp
    Node = {n1}
    Client = {c1}
    NoNode = NoNode
    NoSandbox = NoSandbox
    ApiOps = {"create", "destroy"}
    MaxRestartAttempts = 1
    MaxCmds = 2
    MaxCrashes = 0
    MaxTimeouts = 0
    MaxFaults = 0
    Reader = {}
    Labelled = {a1}
SPECIFICATION ReconcileSpec
PROPERTY
    DestroyedIsFinal
CHECK_DEADLOCK FALSE
