CONSTANTS
    Capacity = 2
    WordCount = 2
    DropOldest = FALSE
    LoadsInOrder = FALSE
    MaxPush = 6
SPECIFICATION FairSpec
PROPERTIES
    ContractSpec
