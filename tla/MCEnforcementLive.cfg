SPECIFICATION FairEnforcementSpec
CONSTANTS
    IP = {a4}
    V4 = {a4}
    Handler = {t1}
    Periodic = periodic
    Retries = 1
    Backlog = 1
    MaxWrites = 1
    MaxPolicies = 1
    Faults = {"pf", "timeout", "reload"}
    Unreadable = Unreadable
    None = None
PROPERTIES
    Converges
    EveryThreadIsAnswered
