SPECIFICATION CollabSpec
CONSTANTS
    None = None
    c1 = c1
    c2 = c2
    letter = letter
    Clients = {c1, c2}
    Guests = {}
    Original <- MCOriginal
    Outside <- MCOutside
    HistoryLimit = 1
    MaxUnits = 2
    MaxJoins = 2
    MaxEdits = 3
    MaxApart = 2
    MaxExtras = 1
INVARIANTS
    CollabTypeOK
    Convergence
    OperationsFit
    CaretsInside
    CleanIsOnDisk
    CollabInv
PROPERTIES
    EditsAnswered
CHECK_DEADLOCK FALSE
