\* Two drains of one consumer over a cursor the store never issued.
SPECIFICATION MCSpec
CONSTANTS
    s = s
    t = t
    p = p
    q = q
    e = e
    f = f
    g = g
    cat = cat
    pres = pres
    ev = ev
    mk = mk
    tool = tool
    v1 = v1
    v2 = v2
    d1 = d1
    d2 = d2
    c1 = c1
    c2 = c2
    None = None
    Star = Star
    Keys = {e}
    Kinds = {ev}
    KindOf <- OwnKinds
    SessionOf <- OfSession
    Values = {v1, v2}
    FirstFed = {ev}
    Releases = {}
    KindSets = {}
    Consumers = {c1}
    Keepers = {}
    Drains = {d1, d2}
    Batch = 1
    MaxEpochLinks = 0
    ForeignRevs = {2}
    MaxClock = 3
    MaxDb = 0
    MaxEpochs = 1
    Committers = {c1}
PROPERTY CursorMonotone
