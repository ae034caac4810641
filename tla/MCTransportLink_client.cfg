CONSTANTS
    IsServer = FALSE
    MaxConnects = 1
    MaxBreaks = 1
SPECIFICATION FairSpec
PROPERTY LossIsNoticed
CHECK_DEADLOCK FALSE
