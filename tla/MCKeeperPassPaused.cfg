\* A keeper whose signer may run dry.
SPECIFICATION FairSpec
CONSTANTS
    Profile = "leverage"
    Targets = 1
    Orders = 1
    MaxSends = 1
    BatchSize = 1
    MaxRows = 1
    MayPause = TRUE
PROPERTIES PendingReconciled
