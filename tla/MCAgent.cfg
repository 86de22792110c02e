CONSTANTS
    s1 = s1
    s2 = s2
    s3 = s3
    a1 = a1
    a2 = a2
    Sandbox = {s1, s2, s3}
    App = {a1, a2}
    AppOf <- Apps
    NoSandbox = NoSandbox
    Port = {p1, p2, p3}
    NoPort = NoPort
    MaxStarts = 4
    MaxFaults = 2
    MaxRestarts = 1
SPECIFICATION Spec
SYMMETRY Symmetry
INVARIANTS
    TypeOK
    PortsApart
    PortIsFreeTillRestart
CHECK_DEADLOCK FALSE
