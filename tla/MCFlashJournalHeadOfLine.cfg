\* One process, two keys, and a chain that outgrows the scan window: the
\* oldest row can no longer be reconciled and the rows behind it wait for it.
SPECIFICATION FairSpec
CONSTANTS
    Procs = {p1}
    Keys = {k1, k2}
    Plans = {a}
    NoProc = NoProc
    NoWork = NoWork
    MaxHeight = 3
    MaxHash = 0
    SnapshotAge = 0
    MaxFaults = 2
    Validity = 1
    RecoverLimit = 2
    ScanWindow = 2
    ChunkSize = 2
    Lag = 0
PROPERTIES UnsignedReleased
