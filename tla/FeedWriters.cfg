\* Writers of two catalog rows and a presence against two sibling drains of one
\* consumer: pages, crashes, commits.
SPECIFICATION MCSpec
CONSTANTS
    s = s
    t = t
    p = p
    q = q
    e = e
    f = f
    g = g
    cat = cat
    pres = pres
    ev = ev
    mk = mk
    tool = tool
    v1 = v1
    v2 = v2
    d1 = d1
    d2 = d2
    c1 = c1
    c2 = c2
    None = None
    Star = Star
    Keys = {s, t, p}
    Kinds = {cat, pres}
    KindOf <- OwnKinds
    SessionOf <- OfSession
    Values = {v1, v2}
    FirstFed = {cat, pres}
    Releases = {}
    KindSets = {}
    Consumers = {c1}
    Keepers = {}
    Drains = {d1, d2}
    Batch = 2
    MaxEpochLinks = 0
    ForeignRevs = {2}
    MaxClock = 4
    MaxDb = 0
    MaxEpochs = 1
    Committers = {c1}
SYMMETRY Symmetry
INVARIANTS TypeOK RevisionsUnique OneRecordPerKey CursorAccounts PositionAccounts
