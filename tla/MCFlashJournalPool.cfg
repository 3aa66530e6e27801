\* One process and an RPC pool whose nodes are up to two blocks apart.
SPECIFICATION Spec
CONSTANTS
    Procs = {p1}
    Keys = {k1}
    Plans = {a}
    NoProc = NoProc
    NoWork = NoWork
    MaxHeight = 4
    MaxHash = 1
    SnapshotAge = 1
    MaxFaults = 0
    Validity = 1
    RecoverLimit = 2
    ScanWindow = 4
    ChunkSize = 2
    Lag = 2
INVARIANTS ExpiredIsAbsent
