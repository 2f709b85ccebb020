SPECIFICATION StoreSpec
CONSTANTS
    c1 = c1
    c2 = c2
    j1 = j1
    b1 = b1
    b2 = b2
    ip1 = ip1
    ip2 = ip2
    forever = forever
    r1 = r1
    r2 = r2
    r3 = r3
    None = None
    Client = {c1, c2}
    Jail = {j1}
    BanId = {b1, b2}
    IP = {ip1, ip2}
    Terms = {forever}
    RequestId = {r1, r2, r3}
    MaxSeq = 3
    Batches <- MCBatches
    SnapshotRequests <- MCSnapshots
    ClaimsLimit = 1
    TotalLimit = 1
    HistoryEvents = 1
    HistorySnapshots = 1
    HistoryDays = 0
    MaxClock = 1
INVARIANTS
    StoreTypeOK
    AcceptedIsCovered
    SequenceSpentOnce
    WithinLimits
    KeysAreUnique
PROPERTY
    LedgerImplemented
