CONSTANTS
    StateCapacity = 2
    DataCapacity = 1
    CountModulus = 4
    MaxEvents = 8
    MaxSessions = 1
SPECIFICATION Spec
INVARIANT NoSilentLoss
CHECK_DEADLOCK FALSE
