\* One session, deletions by the user and a new epoch, until nothing expired is left.
SPECIFICATION FairSpec
CONSTANTS
    N = 1
    Workers = {w}
    Consumers = {c}
    Readers = {}
    Policies = {1}
    DefaultDays = 1
    Allow = {FALSE}
    MaxRows = 1
    ScanLimit = 1
    Kept = 1
    None = None
    MaxDay = 3
    MaxWrites = 2
    MaxForgets = 1
    MaxEpochs = 2
INVARIANTS RemoteKept ForgottenGone
PROPERTIES Drained
