SPECIFICATION EnforcementSpec
CONSTANTS
    IP = {a4, a6}
    V4 = {a4}
    Handler = {t1}
    Periodic = periodic
    Retries = 2
    Backlog = 1
    MaxWrites = 1
    MaxPolicies = 1
    Faults = {"pf", "timeout", "helper", "server", "store", "reload", "reboot"}
    Unreadable = Unreadable
    None = None
INVARIANTS
    EnforcementTypeOK
    StatusIsTrue
    WhitelistWins
PROPERTY
    SuccessIsWhole
