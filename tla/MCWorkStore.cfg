SPECIFICATION StoreSpec
CONSTANTS
    t1 = t1
    t2 = t2
    t3 = t3
    repo = repo
    conv1 = conv1
    conv2 = conv2
    NoTask = NoTask
    Questions = {t3}
    Leases = {l1, l2, l3}
    Tasks <- MCTasks
    Repository <- MCRepository
    Conversation <- MCConversation
    After <- MCAfter
    Priority <- MCPriority
    Filters <- MCFilters
    Parallelism = 2
    TTL = 1
    Grace = 0
INVARIANTS
    StoreTypeOK
    OneActiveLeasePerTask
    WithinParallelism
PROPERTIES
    LeasesEndOnce
    TaskEndsAreFinal
SYMMETRY LeaseSymmetry
