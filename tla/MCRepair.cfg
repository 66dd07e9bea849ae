SPECIFICATION LandingSafety
CONSTANTS
    f1 = f1
    f2 = f2
    r1 = r1
    l1 = l1
    o1 = o1
    b1 = b1
    Files = {f1, f2}
    Remote = {}
    Local = {l1}
    Overlays = {o1}
    Rollbacks = {}
    Plan <- MCPlan
    Outputs <- MCOutputs
    Reads <- MCReads
    MaxStarts = 2
    MaxCrashes = 0
PROPERTIES
    BothIntentsSurvive
CHECK_DEADLOCK FALSE
