\* The leverage profile, funded and live throughout, with fair scheduling; three
\* rows, of which a recovery looks at two.
SPECIFICATION FairSpec
CONSTANTS
    Profile = "leverage"
    Targets = 2
    Orders = 2
    MaxSends = 1
    BatchSize = 2
    MaxRows = 3
    MayPause = FALSE
PROPERTIES OutageShows PendingReconciled
