SPECIFICATION IdSpec
CONSTANTS
    MaxIds = 2
    MaxEpoch = 2
    PlainTopologies = {ring}
    OddTopologies = {}
    NoTopology = NoTopology
    NoIdentity = NoIdentity
    Absent = Absent
    DiskFaults = FALSE
INVARIANT NodeIdSurvives
