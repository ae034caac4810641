SPECIFICATION Spec
CONSTANTS
    MaxIds = 2
    MaxEpoch = 2
    PlainTopologies = {ring}
    OddTopologies = {blank}
    NoTopology = NoTopology
    NoIdentity = NoIdentity
    Absent = Absent
    DiskFaults = TRUE
    TrustPeers = {p1, p2}
    Peers = {q1, q2}
    ZeroLine = ZeroLine
    Garbage = Garbage
    NoFile = NoFile
    MaxTrusted = 3
    TrustFaults = TRUE
    Self = Self
    Other = Other
    Nobody = Nobody
    MaxFenceEpoch = 4
    MaxLives = 2
    MaxMail = 2
    TopoNodes = {a, b}
    NoNode = NoNode
    MaxVersion = 2
    NoProposal = NoProposal
    DiscNodes = {n1}
    Digests = {d1}
    NoDigest = NoDigest
    NoEntry = NoEntry
    MaxRecordEpoch = 2
    TopologyNames = {ring}
    Versions = {v1}
    JunkVersion = JunkVersion
    EmptyName = EmptyName
    Details = {c1}
    NoDetails = NoDetails
    MaxAge = 1
    Txts = {{x}, {x, long}}
    LongEntries = {long}
    NoTxt = NoTxt
    Clients = {c1, c2, c3}
    Worker = Worker
    kMaxQueue = 2
    MaxLines = 5
    MaxDropped = 1
INVARIANTS
    ControlTypeOK
    RecoveryIsDurable
    RevocationSticks
    FenceSeparates
    CommitConsistent
    TableHonest
    AnnouncerConsistent
    LinesKept
    PairingInv
PROPERTIES
    ActivationVouched
    AnnounceCallsReturn
    LogStopReturns
    StopReleasesFlush
\* The fence stops at its bounds, and a terminated process stops.
CHECK_DEADLOCK FALSE
