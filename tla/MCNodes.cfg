CONSTANTS
    Host = {h1}
    Capacity <- Equal
    RequiredMB = 1
    NodeId = {i1, i2}
    NoId = NoId
    NoHost = NoHost
    Sandbox = {s1}
    MaxFaults = 1
SPECIFICATION FairSpec
INVARIANTS
    TypeOK
    IdentityHolds
PROPERTIES
    LiveNodeRecovers
    SilentNodeIsRetired
