SPECIFICATION FairSpec
CONSTANTS
    f1 = f1
    f2 = f2
    r1 = r1
    t1 = t1
    t2 = t2
    loop = loop
    Files = {f1}
    Roots = {r1}
    RootOf <- OneRoot
    Placings = {"path"}
    Tickers = {t1}
    Loop = loop
    MaxTicks = 1
    MaxLost = 1
PROPERTIES
    EventuallyRead
    EventuallyWatched
    CallersReturn
CHECK_DEADLOCK FALSE
