SPECIFICATION HostSpec
CONSTANTS
    Self = h
    Client = {h}
    Jail = {j1, j2}
    BanId = {b1, b2, b3}
    IP = {ip1, ip2}
    Terms = {forever}
    Forever = forever
    RequestId = {1, 2, 3}
    MaxSeq = 3
    MaxPending = 2
    MaxAttempts = 2
    MaxChanges = 4
    Faults = {"flush", "hook"}
    NoRow = NoRow
    NoHook = NoHook
SYMMETRY MCSymmetry
CHECK_DEADLOCK FALSE
INVARIANTS
    HostTypeOK
    SenderKeysUnique
    ClaimsFollowFail2Ban
PROPERTIES
    ReBanGetsFreshIdentity
    CalmSnapshotReconciles
