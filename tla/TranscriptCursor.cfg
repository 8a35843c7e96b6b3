\* One transcript appended to, rewritten, truncated and replaced under sweeps and hydrations.
SPECIFICATION FairSpec
CONSTANTS
    Inodes = {1, 2}
    Window = 1
    SettleWindow = 1
    Reverify = 2
    Grace = 1
    None = None
    MaxLen = 2
    MaxWrites = 3
    MaxRewrites = 1
    LastWrite = 2
    MaxClock = 4
    MaxStall = 0
INVARIANTS TypeOK
PROPERTIES SkipSound EventuallyIndexed
