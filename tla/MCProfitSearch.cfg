\* Nine amounts, of which 9, 4 and 1 are geometric probes; three states of
\* the chain during an attempt.
SPECIFICATION MCSpec
CONSTANTS
    Cap = 9
    Minimum = 9
    Profits <- MCProfits
    MaxSlices = 2
    Segments = 3
    LocalWidth = 1
    MaxProbes = 6
    MinProfit = 2
    MaxRepay = 2
    MaxDebit = 2
    MinCredit = 3
    Configs <- MCConfigs
    Starts <- MCStarts
    Eligible <- MCEligible
    Fill <- MCFill
    FeeOf <- MCFeeOf
    Prices = {0, 1, 2}
    MaxDebt = 2
    MaxPledge = 3
    MaxEpoch = 1
    MaxWallet = 12
    MaxSlot = 3
    None = None
CHECK_DEADLOCK FALSE
INVARIANTS TypeOK ReturnsProfitable FindsPeak LandedWithinBounds
PROPERTIES Terminates
