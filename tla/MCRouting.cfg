CONSTANTS
    App = {a1, a2}
    Upstream = {u1, u2}
    NoUpstream = NoUpstream
    MaxBuf = 2
    AppendsDuplicate = TRUE
    MaxFlights = 2
    MaxChanges = 3
    MaxFaults = 1
SPECIFICATION FairSpec
INVARIANTS
    TypeOK
    BufferedIsScheduled
PROPERTIES
    PresenceConverges
