\* Two processes and two messages for one key, with fair scheduling.
SPECIFICATION FairSpec
CONSTANTS
    Procs = {p1, p2}
    Keys = {k1}
    Plans = {a, b}
    NoProc = NoProc
    NoWork = NoWork
    MaxHeight = 2
    MaxHash = 0
    SnapshotAge = 0
    MaxFaults = 1
    Validity = 1
    RecoverLimit = 2
    ScanWindow = 3
    ChunkSize = 2
    Lag = 0
PROPERTIES PendingResolved
