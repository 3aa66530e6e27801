\* Three conflict keys, three candidates each; three targets and two sends of
\* every worker; two bids over up to three states of the chain.
SPECIFICATION MCSpec
CONSTANTS
    k1 = k1
    k2 = k2
    k3 = k3
    Keys <- MCKeys
    Candidates <- MCCandidates
    Revision = "r1"
    None = None
    Workers = {"liquidation", "hlp", "orders", "lifecycle", "auction"}
    Targets = 3
    Sends = 2
    MaxMoves = 2
    Bidders = {1, 2}
    Whole = 2
    Slippage = 1
    Unbounded = 20
    Cost <- MCCost
    Openings <- MCOpenings
    MaxLots = 2
    MaxPrice = 3
    MaxFunds = 8
    MaxStates = 3
    MaxBids = 2
INVARIANTS TypeOK Exclusive BestOffer DrainOrder PaysAsMeasured
PROPERTIES Served
