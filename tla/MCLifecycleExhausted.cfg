CONSTANTS
    Sandbox = {s1}
    App = {a1}
    AppOf <- SameApp
    Node = {n1}
    Client = {c1}
    NoNode = NoNode
    NoSandbox = NoSandbox
    ApiOps = {"create"}
    MaxRestartAttempts = 1
    MaxCmds = 3
    MaxCrashes = 2
    MaxTimeouts = 0
    MaxFaults = 0
SPECIFICATION Spec
PROPERTY
    ExhaustedIsFailed
CHECK_DEADLOCK FALSE
