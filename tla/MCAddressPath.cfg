SPECIFICATION PathSpec
CONSTANTS
    MaxLines = 4
    MaxEntries = 3
    TotalLimit = 3
    Ignored = Ignored
    Invalid = Invalid
    None = None
    Address <- MCAddress
    Network <- MCNetwork
    Files <- MCFiles
    KindOf <- MCKindOf
    Reports <- MCReports
INVARIANTS
    IntervalsApart
    ExemptsWhatIsListed
    NoPartialWhitelist
    OneAddressBlocksNoOther
CHECK_DEADLOCK FALSE
