SPECIFICATION Spec
CONSTANTS
    Senders = {s1, s2, s3}
    NoSender = NoSender
    Threshold = 2
    CountModulus = 2
    KeyCodes = {1, 2, 200}
    ButtonNumbers = {0, 3}
    MaxPipe = 2
    Mods = {"shift", "cmd", "fn"}
    Slots = 3
    Layouts <- MCLayouts
    NoBoundary = NoBoundary
    CoordLimit = 8
    Reach = 2
    EventIds = {1, 2, 3}
    ProbeIds = {1, 2, 3}
    Times = {1, 2}
    Readings <- MCReadings
    Unset = Unset
    MaxRecords = 4
    MaxOpen = 1
    ViewNodes = {n1, n2}
    NoNeighbor = NoNeighbor
    MaxViewParts = 2
    NoticeThreads = {app, rx}
INVARIANTS
    BacklogInv
    NothingStuck
    ModifiersAligned
    ResultHonest
    DeadlineHeld
    SnapshotFresh
    EdgesExact
    CorrelationExact
    LatencyHonest
    NeighborsResolve
    GateHonest
\* A report, and a view, that has reached its bound takes no more.
CHECK_DEADLOCK FALSE
