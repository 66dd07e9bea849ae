SPECIFICATION LandingSpec
CONSTANTS
    f1 = f1
    f2 = f2
    r1 = r1
    l1 = l1
    o1 = o1
    b1 = b1
    Files = {f1, f2}
    Remote = {r1}
    Local = {l1}
    Overlays = {}
    Rollbacks = {b1}
    Plan <- MCPlan
    Outputs <- MCOutputs
    Reads <- MCReads
    MaxStarts = 4
    MaxCrashes = 1
INVARIANTS
    RemoteLandsGraded
    ExactLandsOnBase
    
    
PROPERTIES
    CanonicalSpec
    EveryTurnEnds
CHECK_DEADLOCK FALSE
