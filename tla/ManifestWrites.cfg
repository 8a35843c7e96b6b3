\* Two clients of two builds and a server over one manifest, with lost and late puts.
SPECIFICATION Spec
CONSTANTS
    a = a
    b = b
    Clients = {a, b}
    Build <- TwoBuilds
    Servers = {s}
    None = None
    Decisions = {"archived"}
    MaxAttempts = 2
    MaxGen = 1
    MaxLen = 1
    MaxFaults = 1
    MaxRestores = 0
    MaxTakeovers = 1
    MaxMoves = 1
INVARIANTS SourceOnce Vouched NormalizedTruth LostToAnother
PROPERTIES SectionsKept
CHECK_DEADLOCK FALSE
