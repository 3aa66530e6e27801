-------------------------------- MODULE Turns --------------------------------
(***************************************************************************)
(* Whose turn it is: the loops of the workers over their targets, pass     *)
(* after pass (rust/apps/keeper/src/liquidation/engine.rs, workers/hlp/,   *)
(* workers/leverage/orders.rs, workers/lifecycle/, workers/revenue/).      *)
(* Each stops at KEEPER_MAX_SENDS_PER_PASS, but they differ in what they   *)
(* count against it, and in what an error of one target does to the rest.  *)
(*                                                                         *)
(* Abstractions: a target is a position and side, an order, the pending    *)
(* bundle of a market, or an offer at an auction, in the order in which    *)
(* the node returns them, which is the same in every pass; what an attempt *)
(* at it comes to is its condition.  A call that fails once is a condition *)
(* that changes twice.  The mode is live.  How an attempt gets there is    *)
(* PositionAttempt and AuctionBid; that what is submitted gets its outcome *)
(* is FlashJournal, and that passes follow each other is KeeperPass.       *)
(***************************************************************************)
EXTENDS Naturals, FiniteSets, SequencesExt

CONSTANTS
    Workers,    \* the loops
    Targets,    \* how many targets are discovered
    Sends,      \* KEEPER_MAX_SENDS_PER_PASS
    MaxMoves    \* bound: changes of a condition, expiries included

ASSUME TurnsAssumption ==
    /\ Workers \subseteq {"liquidation", "hlp", "orders", "lifecycle", "auction"}
    /\ Targets \in Nat /\ Sends \in Nat \ {0} /\ MaxMoves \in Nat

VARIABLES
    worker,     \* whose loop it is
    urgent,     \* targets in markets with a final fee notice
    condition,  \* what an attempt at each target comes to
    queue,      \* what is left of this pass
    attempted,  \* what it has counted against the limit
    moves       \* changes so far

turnVars == <<worker, urgent, condition, queue, attempted, moves>>

\* idle: healthy, not triggered, no bundle, or resolved.  unfilled: refused in
\* simulation, outside the bounds, or without a route.  broken: an error.
Conditions == {"idle", "unfilled", "broken", "due", "pending"}
Discovered == [i \in 1..Targets |-> i]

\* Mutant: the targets are taken as they come.
PassOrderDiscovered == Discovered

\* run_pass of the liquidations sorts urgent markets to the front, stably.
PassOrder ==
    SelectSeq(Discovered, LAMBDA t : t \in urgent)
    \o SelectSeq(Discovered, LAMBDA t : t \notin urgent)

\* Mutant: a position without a route counts like one that was sent for.
CountsUnfilled(c) == c # "idle"

\* Whether an attempt counts against the limit.  A pending target counts: its
\* attempt goes as far as the journal, or, at an auction, bids again.  A bundle
\* counts before it is looked at.
Counts(c) ==
    \/ c \in {"due", "pending"}
    \/ c = "broken" /\ worker \in {"liquidation", "hlp", "lifecycle"}
    \/ c = "unfilled" /\ worker = "lifecycle"

\* Whether the error of a target ends the pass.  That its signature is still
\* pending is an error of the journal.
Aborts(c) ==
    \/ c = "broken" /\ worker \in {"orders", "auction"}
    \/ c = "pending" /\ worker = "orders"

-----------------------------------------------------------------------------
TurnsInit ==
    /\ worker \in Workers
    /\ urgent \in IF worker = "liquidation" THEN SUBSET (1..Targets) ELSE {{}}
    /\ condition \in [1..Targets -> Conditions \ {"pending"}]
    /\ queue = <<>> /\ attempted = 0 /\ moves = 0

\* Recovery and discovery.
StartPass ==
    /\ queue = <<>>
    /\ queue' = PassOrder /\ attempted' = 0
    /\ UNCHANGED <<worker, urgent, condition, moves>>

\* The loop returns at the limit.
LimitReached ==
    /\ queue # <<>> /\ attempted >= Sends
    /\ queue' = <<>>
    /\ UNCHANGED <<worker, urgent, condition, attempted, moves>>

\* The answer to a broadcast may be lost: it ends the pass of the orders, and
\* an auction does not count it.
Attempt ==
    /\ queue # <<>> /\ attempted < Sends
    /\ LET t == Head(queue)
           c == condition[t]
       IN  \E lost \in IF c = "due" THEN BOOLEAN ELSE {FALSE} :
            /\ queue' = IF Aborts(c) \/ (lost /\ worker = "orders") THEN <<>> ELSE Tail(queue)
            /\ attempted' = IF Counts(c) /\ ~(lost /\ worker = "auction")
                            THEN attempted + 1 ELSE attempted
            /\ condition' = [condition EXCEPT ![t] = IF c = "due" THEN "pending" ELSE c]
    /\ UNCHANGED <<worker, urgent, moves>>

-----------------------------------------------------------------------------
Executed(t) ==
    /\ condition[t] = "pending" /\ condition' = [condition EXCEPT ![t] = "idle"]
    /\ UNCHANGED <<worker, urgent, queue, attempted, moves>>

Rejected(t) ==
    /\ condition[t] = "pending" /\ moves < MaxMoves
    /\ condition' = [condition EXCEPT ![t] = "due"] /\ moves' = moves + 1
    /\ UNCHANGED <<worker, urgent, queue, attempted>>

\* Prices move, owners act, notices ripen, calls fail.
Move(t) ==
    /\ condition[t] # "pending" /\ moves < MaxMoves
    /\ \E c \in Conditions \ {"pending", condition[t]} :
        condition' = [condition EXCEPT ![t] = c]
    /\ moves' = moves + 1
    /\ UNCHANGED <<worker, urgent, queue, attempted>>

Loops == StartPass \/ LimitReached \/ Attempt
Settles == \E t \in 1..Targets : Executed(t)

TurnsNext ==
    \/ Loops \/ Settles
    \/ \E t \in 1..Targets : Rejected(t) \/ Move(t)

\* Passes follow each other, and the cluster decides about every transaction.
TurnsFairness == WF_turnVars(Loops) /\ WF_turnVars(Settles)

TurnsSpec == TurnsInit /\ [][TurnsNext]_turnVars /\ TurnsFairness
-----------------------------------------------------------------------------
\* Properties

\* What comes before a target: urgent markets first, else as discovered.
Before(t) ==
    {u \in 1..Targets \ {t} :
        \/ u \in urgent /\ t \notin urgent
        \/ (u \in urgent <=> t \in urgent) /\ u < t}

\* What keeps an order or an offer from its turn is one error in front of it;
\* a liquidation or a recovery, as many errors as the limit; a bundle, as many
\* bundles that cannot be executed.
Blocked(t) ==
    LET broken == {u \in Before(t) : condition[u] = "broken"}
        stuck == {u \in Before(t) : condition[u] \in {"broken", "unfilled"}}
    IN  CASE worker \in {"orders", "auction"} -> broken # {}
          [] worker \in {"liquidation", "hlp"} -> Cardinality(broken) >= Sends
          [] worker = "lifecycle" -> Cardinality(stuck) >= Sends

(***************************************************************************)
(* A target that is due gets its turn, unless errors in front of it block  *)
(* it: positions without a route do not use up the limit ("unfilled        *)
(* positions do not consume transaction send budget", a test of            *)
(* engine.rs), what is pending in front of it goes away, and markets with  *)
(* a final fee notice do not wait behind the errors of others.             *)
(***************************************************************************)
Served == \A t \in 1..Targets : []<>(condition[t] # "due" \/ Blocked(t))
=============================================================================
