\* Two processes over the steps of every kind of put, three versions deep.
SPECIFICATION MCSpec
CONSTANTS
    p1 = p1
    p2 = p2
    p3 = p3
    b1 = b1
    b2 = b2
    None = None
    Procs = {p1, p2}
    Bodies = {b1, b2}
    Versions = {1, 2}
    Requests <- Puts
    MaxVersions = 3
SYMMETRY Symmetry
INVARIANTS TypeOK SidecarTruth AckNamesContent
PROPERTY Refines
