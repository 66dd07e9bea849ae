SPECIFICATION RemoteSpec
CONSTANTS
    t1 = t1
    t2 = t2
    repo = repo
    NoTask = NoTask
    Tasks = {t1}
    Questions = {}
    Leases = {l1, l2}
    Repository <- MCRepository
    Conversation <- MCConversation
    After <- MCAfter
    Priority <- MCPriority
    Filters <- MCFilters
    Parallelism = 2
    TTL = 1
    Grace = 1
    Faults = {"reap"}
    MaxBeats = 0
    MaxCrashes = 0
INVARIANTS
    NobodyRaced
