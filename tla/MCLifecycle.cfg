SPECIFICATION FairLifecycleSpec
CONSTANTS
    Page = {p1}
    Filter = filter
    Clients = {c1, c2}
    Alias = {a1, a2}
    MaxSaves = 2
    MaxAliasChanges = 1
    Faults = {"filter", "start", "stop", "files", "config", "reboot"}
    Bad = Bad
    None = None
INVARIANTS
    LifecycleTypeOK
    ServesWhatIsSaved
    NobodyWaitsForItself
PROPERTY
    EveryProcedureEnds
CHECK_DEADLOCK FALSE
