\* The same restored from a backup, until everything is delivered.
SPECIFICATION FairSpec
CONSTANTS
    a = a
    b = b
    Clients = {a, b}
    Build <- OldBuild
    Servers = {s}
    None = None
    Decisions = {}
    MaxAttempts = 2
    MaxGen = 1
    MaxLen = 1
    MaxFaults = 1
    MaxRestores = 1
    MaxTakeovers = 0
    MaxMoves = 0
INVARIANTS TypeOK
PROPERTIES NothingLost Delivered
CHECK_DEADLOCK FALSE
