--------------------------- MODULE MCProfitSearch ---------------------------
(***************************************************************************)
(* Small instances of ProfitSearch and PositionAttempt for TLC.  The       *)
(* search is checked for all its profit functions; the attempt, which      *)
(* abstracts from the search, beside the one where no size is available,   *)
(* once that search has ended.                                             *)
(***************************************************************************)
EXTENDS ProfitSearch, PositionAttempt

Distance(a, b) == IF a < b THEN b - a ELSE a - b

\* Every irregular function of three values, and every single peak that alone
\* reaches the minimum, in every interval of available amounts.
MCProfits ==
    [1..Cap -> {-1, 0, Minimum}] \cup
    {[a \in 1..Cap |-> IF a \in x..y THEN Minimum - Distance(a, p) ELSE -1] :
        x \in 1..Cap, y \in 1..Cap, p \in 1..Cap}

-----------------------------------------------------------------------------
MCConfigs ==
    {[mode |-> "both", settlement |-> s, live |-> TRUE] : s \in {"dusk", "inventory"}}
    \cup {[mode |-> m, settlement |-> "elsewhere", live |-> TRUE] : m \in {"both", "emergency"}}
    \cup {[mode |-> "ordinary", settlement |-> "dusk", live |-> l] : l \in BOOLEAN}

\* Two units of debt and three of collateral; one position lacks its accounts.
MCStarts ==
    {[debt |-> 2, pledged |-> 3, price |-> p, epoch |-> 0, wallet |-> 2, ready |-> r] :
        p \in {1, 2}, r \in BOOLEAN}

MCEligible(w) == w.debt > 0 /\ w.price > 0
MCFeeOf(e) == e
Least(a, b) == IF a < b THEN a ELSE b

\* At price 0 the position is healthy.  A flash liquidation of s pays s for
\* s + 1 units of collateral; what either route gains grows with the price.
MCFill(w, r, size, whole) ==
    LET s == IF whole THEN w.debt ELSE size IN
    CASE ~MCEligible(w) \/ size = 0 \/ size > w.pledged -> None
      [] r = "flash" /\ MCEligible(w) /\ size \in 1..w.pledged ->
            IF size < s \/ s > w.debt \/ s + 1 > w.pledged THEN None
            ELSE [payment |-> s, collateral |-> s + 1, gain |-> s * w.price,
                  debt |-> w.debt - s, pledged |-> w.pledged - (s + 1)]
      [] r = "emergency" /\ MCEligible(w) /\ size \in 1..w.pledged ->
            IF whole # (size = w.pledged) THEN None
            ELSE [payment |-> 0, collateral |-> 0, gain |-> size * w.price,
                  debt |-> IF whole THEN 0 ELSE w.debt - Least(size, w.debt),
                  pledged |-> w.pledged - size]

-----------------------------------------------------------------------------
Attempting == phase = "none" /\ profit = [a \in 1..Cap |-> -1]

\* Searches that no attempt follows have one initial state beside them.
MCInit ==
    /\ Init /\ AttemptInit
    /\ profit # [a \in 1..Cap |-> -1] =>
        /\ config = CHOOSE c \in Configs : TRUE
        /\ chain = <<CHOOSE w \in Starts : TRUE>>
MCNext ==
    \/ Next /\ UNCHANGED attemptVars
    \/ Attempting /\ AttemptNext /\ UNCHANGED vars
MCSpec == MCInit /\ [][MCNext]_<<vars, attemptVars>> /\ WF_vars(Next)
=============================================================================
