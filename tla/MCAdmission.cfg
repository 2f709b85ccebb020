SPECIFICATION FairAdmissionSpec
CONSTANTS
    a = a
    b = b
    j = j
    fa = fa
    fb = fb
    fx = fx
    None = None
    Id = {a, b}
    Fingerprint = {fa, fb, fx}
    Jail = {j}
    Files <- MCFiles
    Conn = {1, 2}
    Slots = 2
    Limit = 2
    Window = 2
    MaxClock = 3
    MaxConnections = 4
INVARIANTS
    AdmissionTypeOK
    SlotsBalance
    ServedAsTheOneListed
    RateIsKept
PROPERTIES
    NoNeedlessRefusal
    SlotsComeBack
CHECK_DEADLOCK FALSE
