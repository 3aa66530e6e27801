---------------------------- MODULE ProfitSearch ----------------------------
(***************************************************************************)
(* The bounded adaptive search for a liquidation size that earns the       *)
(* minimum profit, search_profitable in rust/apps/keeper/src/liquidation/  *)
(* search.rs: geometric probes, then grids over the interval around the    *)
(* best probe, then every amount of a small interval.                      *)
(*                                                                         *)
(* Abstractions: what a simulation would measure is a function of the      *)
(* amount, fixed for one search (the snapshot is), with Absent where the   *)
(* route is not available.  The payload a probe returns is its amount.     *)
(***************************************************************************)
EXTENDS Integers, FiniteSets, Sequences

CONSTANTS
    Cap,        \* largest amount
    Minimum,    \* the profit to reach
    Profits,    \* the profit functions to search
    MaxSlices,  \* geometric probes (16)
    Segments,   \* PROFIT_SEARCH_GRID_SEGMENTS (8)
    LocalWidth, \* PROFIT_SEARCH_LOCAL_WIDTH (64)
    MaxProbes   \* PROFIT_SEARCH_MAX_PROBES (256)

Absent == -1
Amounts == 1..Cap

ASSUME SearchAssumption ==
    /\ Cap \in Nat /\ Minimum \in Nat /\ Profits \subseteq [Amounts -> Nat \cup {Absent}]
    /\ MaxSlices \in Nat \ {0} /\ Segments \in Nat \ {0}
    /\ LocalWidth \in Nat /\ MaxProbes \in Nat

VARIABLES
    profit,     \* what each amount would earn
    phase,      \* halve, slices, refine, grid, tail, local; found, none, failed
    todo,       \* amounts this phase has yet to probe
    visited,    \* amounts evaluated so far; their number is the probe count
    low, high,  \* the interval being refined
    selected    \* the amount returned, or 0

vars == <<profit, phase, todo, visited, low, high, selected>>

Init ==
    /\ profit \in Profits
    /\ phase = "halve" /\ todo = <<>>
    /\ visited = {} /\ low = 0 /\ high = 0 /\ selected = 0

Scored == {a \in visited : profit[a] # Absent}

\* The highest score; among equals the largest amount.
BestOf(S) ==
    CHOOSE b \in S : \A a \in S : profit[a] < profit[b] \/ (profit[a] = profit[b] /\ a <= b)

\* The nearest visited amounts on either side of b within lo..hi.
Below(b, lo) ==
    LET S == {a \in visited : lo <= a /\ a < b}
    IN  IF S = {} THEN lo ELSE CHOOSE m \in S : \A a \in S : a <= m

Above(b, hi) ==
    LET S == {a \in visited : b < a /\ a <= hi}
    IN  IF S = {} THEN hi ELSE CHOOSE m \in S : \A a \in S : m <= a

\* The amount at a step of the grid over low..high.
GridAmount(step) == low + ((high - low) * step) \div Segments

\* The loop of slices: cap, cap / 2, ... while positive, and 1.
Halve ==
    /\ phase = "halve"
    /\ LET value == IF todo = <<>> THEN Cap ELSE todo[Len(todo)] \div 2 IN
        IF value > 0 /\ Len(todo) < MaxSlices
        THEN todo' = Append(todo, value) /\ UNCHANGED phase
        ELSE /\ phase' = "slices"
             /\ todo' = IF Cap > 0 /\ todo[Len(todo)] # 1 THEN Append(todo, 1) ELSE todo
    /\ UNCHANGED <<profit, visited, low, high, selected>>

\* Mutant: an amount may be evaluated again.
ProbeAgain ==
    /\ phase \in {"slices", "grid", "local"} /\ todo # <<>>
    /\ Cardinality(visited) <= MaxProbes
    /\ visited' = visited \cup {Head(todo)} /\ todo' = Tail(todo)
    /\ IF profit[Head(todo)] >= Minimum
       THEN phase' = "found" /\ selected' = Head(todo)
       ELSE UNCHANGED <<phase, selected>>
    /\ UNCHANGED <<profit, low, high>>

\* Mutant: any measured profit is good enough for a size found locally.
ProbeAnyProfit ==
    /\ phase \in {"slices", "grid", "local"} /\ todo # <<>>
    /\ todo' = Tail(todo)
    /\ visited' = visited \cup {Head(todo)}
    /\ IF profit[Head(todo)] # Absent /\ (phase = "local" \/ profit[Head(todo)] >= Minimum)
       THEN phase' = "found" /\ selected' = Head(todo)
       ELSE UNCHANGED <<phase, selected>>
    /\ UNCHANGED <<profit, low, high>>

\* probe_profit: an amount is evaluated once, while probes are left; an error
\* of the evaluation ends the search with that error.
Probe ==
    /\ phase \in {"slices", "grid", "local"} /\ todo # <<>>
    /\ LET a == Head(todo) IN
        IF a = 0 \/ Cardinality(visited) >= MaxProbes \/ a \in visited
        THEN todo' = Tail(todo) /\ UNCHANGED <<phase, visited, selected>>
        ELSE /\ visited' = visited \cup {a}
             /\ \/ /\ phase' = "failed" /\ todo' = <<>> /\ UNCHANGED selected
                \/ /\ profit[a] >= Minimum
                   /\ phase' = "found" /\ todo' = <<>> /\ selected' = a
                \/ /\ profit[a] < Minimum
                   /\ todo' = Tail(todo) /\ UNCHANGED <<phase, selected>>
    /\ UNCHANGED <<profit, low, high>>

\* Mutant: the interval ends at the best probe.
EndSlicesAtBest ==
    /\ phase = "slices" /\ todo = <<>>
    /\ IF Scored = {} THEN phase' = "none" /\ UNCHANGED <<low, high>>
       ELSE /\ phase' = "refine"
            /\ low' = Below(BestOf(Scored), 1) /\ high' = BestOf(Scored)
    /\ UNCHANGED <<profit, todo, visited, selected>>

\* The interval between the neighbours of the best geometric probe.
EndSlices ==
    /\ phase = "slices" /\ todo = <<>>
    /\ IF Scored = {} THEN phase' = "none" /\ UNCHANGED <<low, high>>
       ELSE /\ phase' = "refine"
            /\ low' = Below(BestOf(Scored), 1) /\ high' = Above(BestOf(Scored), Cap)
    /\ UNCHANGED <<profit, todo, visited, selected>>

\* Too wide: probe a grid, if probes are left.
Refine ==
    /\ phase = "refine"
    /\ IF high - low > LocalWidth /\ Cardinality(visited) < MaxProbes
       THEN /\ phase' = "grid"
            /\ todo' = [i \in 1..(Segments + 1) |-> GridAmount(i - 1)]
       ELSE phase' = "tail" /\ UNCHANGED todo
    /\ UNCHANGED <<profit, visited, low, high, selected>>

\* Mutant: the narrower interval is not the one that is searched next.
EndGridKeeping ==
    /\ phase = "grid" /\ todo = <<>> /\ phase' = "refine"
    /\ UNCHANGED <<profit, todo, visited, low, high, selected>>

\* Narrow the interval around its best amount, until it stays as it is.
EndGrid ==
    /\ phase = "grid" /\ todo = <<>>
    /\ LET S == Scored \cap low..high
           b == BestOf(S)
           l == Below(b, low)
           h == Above(b, high)
       IN  IF S = {} \/ (l = low /\ h = high)
           THEN phase' = "tail" /\ UNCHANGED <<low, high>>
           ELSE phase' = "refine" /\ low' = l /\ high' = h
    /\ UNCHANGED <<profit, todo, visited, selected>>

\* Every amount of a small interval, from the largest.
StartLocal ==
    /\ phase = "tail"
    /\ IF high - low <= LocalWidth
       THEN phase' = "local" /\ todo' = [i \in 1..(high - low + 1) |-> high - i + 1]
       ELSE phase' = "none" /\ UNCHANGED todo
    /\ UNCHANGED <<profit, visited, low, high, selected>>

EndLocal ==
    /\ phase = "local" /\ todo = <<>> /\ phase' = "none"
    /\ UNCHANGED <<profit, todo, visited, low, high, selected>>

Next == Halve \/ Probe \/ EndSlices \/ Refine \/ EndGrid \/ StartLocal \/ EndLocal

Spec == Init /\ [][Next]_vars
FairSpec == Spec /\ WF_vars(Next)
-----------------------------------------------------------------------------
\* Properties

(***************************************************************************)
(* Every variable has its type, and the probes stay within their budget.   *)
(***************************************************************************)
TypeOK ==
    /\ profit \in [Amounts -> Nat \cup {Absent}]
    /\ phase \in {"halve", "slices", "refine", "grid", "tail", "local", "found", "none", "failed"}
    /\ todo \in Seq(Amounts)
    /\ visited \subseteq Amounts /\ Cardinality(visited) <= MaxProbes
    /\ low \in 0..Cap /\ high \in low..Cap /\ selected \in 0..Cap

(***************************************************************************)
(* What the search returns is an amount that was measured to reach the     *)
(* minimum, and it is returned as soon as it is measured: a size found at  *)
(* any stage meets the same bound.                                         *)
(***************************************************************************)
ReturnsProfitable ==
    /\ phase = "found" => selected \in visited /\ profit[selected] >= Minimum
    /\ phase # "failed" => {a \in visited : profit[a] >= Minimum} \subseteq {selected}

\* Profit rises up to p and falls from p on, inside x..y, and no other amount
\* is available.
IsPeak(p, x, y) ==
    /\ x <= p /\ p <= y
    /\ \A a \in Amounts : profit[a] # Absent <=> x <= a /\ a <= y
    /\ \A a, b \in x..p : a < b => profit[a] < profit[b]
    /\ \A a, b \in p..y : a < b => profit[a] > profit[b]

SinglePeak == \E p, x, y \in Amounts : IsPeak(p, x, y)

(***************************************************************************)
(* The reason for the interval around the best probe (search.rs:46-48):    *)
(* when profit rises to one peak and falls again, a search that gives up   *)
(* although a geometric probe was available and probes were left has       *)
(* nothing to miss.                                                        *)
(***************************************************************************)
FindsPeak ==
    phase = "none" /\ SinglePeak /\ Scored # {} /\ Cardinality(visited) < MaxProbes =>
        \A a \in Amounts : profit[a] < Minimum

(***************************************************************************)
(* The search ends.                                                        *)
(***************************************************************************)
Terminates == <>(phase \in {"found", "none", "failed"})
=============================================================================
