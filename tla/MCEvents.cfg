CONSTANTS
    OutCap = 2
    MaxEvents = 4
    MaxFaults = 2
    MaxRestarts = 1
SPECIFICATION FairSpec
INVARIANTS
    TypeOK
PROPERTIES
    WatchedIsReported
    InOrderUnlessGivenUp
CHECK_DEADLOCK FALSE
