SPECIFICATION Spec
CONSTANTS
    f1 = f1
    f2 = f2
    r1 = r1
    t1 = t1
    t2 = t2
    loop = loop
    Files = {f1, f2}
    Roots = {f1, f2}
    RootOf <- OwnRoots
    Placings = {"path", "root"}
    Tickers = {t1}
    Loop = loop
    MaxTicks = 1
    MaxLost = 1
SYMMETRY FileSymmetry
INVARIANTS
    TypeOK
    OneSweep
    NoLostChange
    LossRecorded
CHECK_DEADLOCK FALSE
