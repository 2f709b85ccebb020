SPECIFICATION HostSpec
CONSTANTS
    Self = h
    Client = {h}
    Jail = {j1, j2}
    BanId = {b1, b2, b3, b4}
    IP = {ip1}
    Terms = {forever}
    Forever = forever
    RequestId = {1, 2, 3, 4}
    MaxSeq = 4
    MaxPending = 5
    MaxAttempts = 2
    MaxChanges = 4
    Faults = {"flush"}
    NoRow = NoRow
    NoHook = NoHook
SYMMETRY MCSymmetry
CHECK_DEADLOCK FALSE
PROPERTY SnapshotKeepsNewBans
