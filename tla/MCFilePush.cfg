CONSTANTS
    Sandbox = {s1}
    Node = {n1, n2}
    NoSandbox = NoSandbox
    NoNode = NoNode
    Push = {p1, p2}
    q1 = q1
    q2 = q2
    bad = bad
    Path = {q1, q2, bad}
    ValidPath = {q1, q2}
    Body <- Bodies
    MaxFaults = 1
    MaxMoves = 1
SPECIFICATION Spec
SYMMETRY Symmetry
INVARIANTS
    TypeOK
    PartialIsReported
PROPERTIES
    PushApplies
