CONSTANTS
    IsServer = TRUE
    MaxConnects = 2
    MaxBreaks = 3
SPECIFICATION FairSpec
INVARIANTS
    LinkInv
    ReleasedWhenDown
PROPERTIES
    DisconnectReturns
    LossIsNoticed
CHECK_DEADLOCK FALSE
