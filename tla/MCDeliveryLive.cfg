SPECIFICATION FairDeliverySpec
CONSTANTS
    c1 = c1
    c2 = c2
    j1 = j1
    j2 = j2
    Client = {c1}
    Jail = {j1}
    BanId = {b1, b2}
    IP = {ip1}
    Terms = {forever}
    Forever = forever
    RequestId = {1, 2}
    MaxSeq = 2
    MaxPending = 2
    NoRow = NoRow
    None = None
    Idle = Idle
    Batches = {}
    SnapshotRequests = {}
    ClaimsLimit = 2
    TotalLimit = 2
    HistoryEvents = 1
    HistorySnapshots = 1
    HistoryDays = 0
    MaxClock = 1
    Configurations <- MCAllJails
    Failures = {"timeout", "crash"}
CHECK_DEADLOCK FALSE
PROPERTIES
    CatchesUp
    ReleasesReachReceiver
