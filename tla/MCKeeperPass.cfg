\* The lending profile: more targets than it may send for.
SPECIFICATION Spec
CONSTANTS
    Profile = "lending"
    Targets = 3
    Orders = 0
    MaxSends = 2
    BatchSize = 2
    MaxRows = 3
    MayPause = TRUE
INVARIANTS TypeOK SendCeiling ReconciledFirst
