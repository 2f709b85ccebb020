SPECIFICATION FairDeliverySpec
CONSTANTS
    c1 = c1
    c2 = c2
    j1 = j1
    j2 = j2
    Client = {c1}
    Jail = {j1}
    BanId = {b1, b2}
    IP = {ip1, ip2}
    Terms = {forever}
    Forever = forever
    RequestId = {1, 2, 3}
    MaxSeq = 3
    MaxPending = 3
    NoRow = NoRow
    None = None
    Idle = Idle
    Batches = {}
    SnapshotRequests = {}
    ClaimsLimit = 1
    TotalLimit = 2
    HistoryEvents = 1
    HistorySnapshots = 1
    HistoryDays = 0
    MaxClock = 0
    Configurations <- MCAllJails
    Failures = {}
CHECK_DEADLOCK FALSE
PROPERTY ReleasesReachReceiver
