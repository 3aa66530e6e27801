SPECIFICATION MCSpec
CONSTANTS
    Radix = 8
    Everything = 50
    Bits = 5
    Digits = 3
    MaxEdits = 2
    AnchorHash <- MCAnchorHash
    AccountHash <- MCAccountHash
    OnCurve <- MCOnCurve
    ClockKey <- MCClockKey
    AtaProgram <- MCAtaProgram
    ProgramKey <- MCProgramKey
    Text <- MCText
    Locks <- MCLocks
    IdlsOf <- MCIdlsOf
    Made = {"L0", "L1"}
    Edits <- MCEdits
    Calls <- MCCalls
    Scale = 4
    Rates = {0, 1, 3}
    Maxima = {1, 9}
    Amounts = {3, 5}
    Mints <- MCMints
    MaxEpoch = 3
    MaxSlot = 5
    None = None
    Programs <- MCPrograms
    Versions = {0, 1}
    Builds <- MCBuilds
    Revisions = {r0, r1}
    MaxUpgrades = 1
    MaxCaptures = 2
    NoRecord = NoRecord
CHECK_DEADLOCK FALSE
INVARIANTS
    AcceptsExactlyPinned
    SignedIsPinned
    CodecMatchesIdl
    ManifestFindsSeeds
    KeysAreExact
    FieldsReadBack
    PlanSettles
    ValuationKept
    RecordIsDeployed
    CompletedValidates
