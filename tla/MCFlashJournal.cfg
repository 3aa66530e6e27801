\* Two keeper processes, one conflict key, RPC nodes up to one block apart.
SPECIFICATION Spec
CONSTANTS
    Procs = {p1, p2}
    Keys = {k1}
    Plans = {a}
    NoProc = NoProc
    NoWork = NoWork
    MaxHeight = 4
    MaxHash = 1
    SnapshotAge = 1
    MaxFaults = 1
    Validity = 2
    RecoverLimit = 2
    ScanWindow = 4
    ChunkSize = 2
    Lag = 1
SYMMETRY Symmetry
INVARIANTS OutcomeMatchesChain RecordedBeforeSent SingleLive IInv
PROPERTIES ReplacementAfterFate TerminalForGood ImplementsGenerations
