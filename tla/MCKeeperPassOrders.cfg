\* The leverage profile: orders follow the liquidations.
SPECIFICATION Spec
CONSTANTS
    Profile = "leverage"
    Targets = 2
    Orders = 2
    MaxSends = 2
    BatchSize = 2
    MaxRows = 4
    MayPause = FALSE
INVARIANTS SendCeiling
