SPECIFICATION FairRemoteSpec
CONSTANTS
    t1 = t1
    t2 = t2
    repo = repo
    NoTask = NoTask
    Tasks = {t1}
    Questions = {}
    Leases = {l1, l2}
    Repository <- MCRepository
    Conversation <- MCConversation
    After <- MCAfter
    Priority <- MCPriority
    Filters <- MCFilters
    Parallelism = 2
    TTL = 1
    Grace = 1
    Faults = {"crash"}
    MaxBeats = 1
    MaxCrashes = 1
PROPERTIES
    ClaimsEnd
