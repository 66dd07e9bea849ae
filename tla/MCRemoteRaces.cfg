SPECIFICATION RemoteSpec
CONSTANTS
    t1 = t1
    t2 = t2
    repo = repo
    NoTask = NoTask
    Tasks = {t1, t2}
    Questions = {t2}
    Leases = {l1, l2}
    Repository <- MCRepository
    Conversation <- MCConversation
    After <- MCAfter
    Priority <- MCPriority
    Filters <- MCFilters
    Parallelism = 2
    TTL = 1
    Grace = 0
    Faults = {"operator"}
    MaxBeats = 0
    MaxCrashes = 0
INVARIANTS
    OneRunPerTask
    LandedIsNotFailed
    HandlersAwaitReview
PROPERTIES
    LandsOnce
    StoreSpec
SYMMETRY LeaseSymmetry
