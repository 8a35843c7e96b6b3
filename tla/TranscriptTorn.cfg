\* A transcript rewritten under a pass: what a stored cursor vouches for.
SPECIFICATION Spec
CONSTANTS
    Inodes = {1, 2}
    Window = 1
    SettleWindow = 1
    Reverify = 2
    Grace = 1
    None = None
    MaxLen = 2
    MaxWrites = 3
    MaxRewrites = 1
    LastWrite = 2
    MaxClock = 4
    MaxStall = 0
PROPERTIES PublishesItsRows
