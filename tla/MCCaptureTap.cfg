CONSTANTS
    StateCapacity = 2
    DataCapacity = 1
    CountModulus = 4
    MaxEvents = 6
    MaxSessions = 2
SPECIFICATION FairSpec
INVARIANTS
    CaptureInv
    NoLeak
    StopDelivers
PROPERTIES
    EpisodesAreRepaired
    SaturationEnds
    StopReturns
CHECK_DEADLOCK FALSE
