\* Two sessions evicted row by row beside captures, an uploader and a reader.
SPECIFICATION Spec
CONSTANTS
    N = 2
    Workers = {w}
    Consumers = {c}
    Readers = {r}
    Policies = {0, 1, 2}
    DefaultDays = 1
    Allow = {FALSE}
    MaxRows = 1
    ScanLimit = 1
    Kept = 1
    None = None
    MaxDay = 3
    MaxWrites = 2
    MaxForgets = 0
    MaxEpochs = 1
INVARIANTS TypeOK RemoteKept ViewExact
PROPERTIES OnlyExpired
