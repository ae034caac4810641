CONSTANTS
    Capacity = 2
    WordCount = 2
    DropOldest = TRUE
    LoadsInOrder = TRUE
    MaxPush = 6
SPECIFICATION FairSpec
INVARIANTS
    RingInv
    PopIntegrity
    DropCountCoversPending
PROPERTIES
    ContractSpec
    EventuallyDrained
