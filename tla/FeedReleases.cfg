\* Releases that add, change and retire kinds and a database replaced, under a cursor and a watermark.
SPECIFICATION MCSpec
CONSTANTS
    s = s
    t = t
    p = p
    q = q
    e = e
    f = f
    g = g
    cat = cat
    pres = pres
    ev = ev
    mk = mk
    tool = tool
    v1 = v1
    v2 = v2
    d1 = d1
    d2 = d2
    c1 = c1
    c2 = c2
    None = None
    Star = Star
    Keys = {e, g}
    Kinds = {ev, mk, cat, tool}
    KindOf <- OwnKinds
    SessionOf <- OfSession
    Values = {v1}
    FirstFed = {ev, mk, cat}
    Releases = {{ev, mk, tool}, {ev, tool}, {ev}}
    KindSets = {{ev}}
    Consumers = {c1}
    Keepers = {c1}
    Drains = {d1}
    Batch = 1
    MaxEpochLinks = 2
    ForeignRevs = {}
    MaxClock = 2
    MaxDb = 1
    MaxEpochs = 3
    Committers = {c1}
INVARIANTS CursorAccounts PositionAccounts MarkAccounts
PROPERTY CursorMonotone
