SPECIFICATION RemoteSpec
CONSTANTS
    t1 = t1
    t2 = t2
    repo = repo
    NoTask = NoTask
    Tasks = {t1, t2}
    Questions = {}
    Leases = {l1, l2}
    Repository <- MCRepository
    Conversation <- MCConversation
    After <- MCAfter
    Priority <- MCPriority
    Filters <- MCFilters
    Parallelism = 1
    TTL = 1
    Grace = 0
    Faults = {"crash", "reap"}
    MaxBeats = 0
    MaxCrashes = 1
INVARIANTS
    RunsInv
    OneRunPerTask
    IntegratedMeansLanded
PROPERTIES
    LandsOnce
SYMMETRY LeaseSymmetry
