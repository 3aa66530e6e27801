----------------------------- MODULE AuctionBid -----------------------------
(***************************************************************************)
(* A bid at a protocol revenue auction, ArbitrageurJob::attempt in         *)
(* rust/apps/keeper/src/workers/revenue/mod.rs: the price is measured by a *)
(* simulation without a ceiling, and the bid that is sent is bound to it.  *)
(* There is neither lease nor journal: bidders share a wallet, nothing     *)
(* keeps two of them from the same lot, and no call asks for a state that  *)
(* is as new as the one before.                                            *)
(*                                                                         *)
(* Abstractions: one lane, source and side of one market; a state of the   *)
(* chain is what is on sale, its price, and the payment account.  What a   *)
(* sale costs is a function of the state.  Of the loop over the lanes, the *)
(* limit and the errors are in Turns.                                      *)
(***************************************************************************)
EXTENDS Integers, Sequences

CONSTANTS
    Bidders,        \* processes of the profile
    Whole, Slippage,    \* 10000, KEEPER_AUCTION_SLIPPAGE_BPS
    Unbounded,      \* u64::MAX
    Cost(_),        \* what the lot costs in a state
    Openings,       \* states to start from
    MaxLots, MaxPrice, MaxFunds, \* bounds: what states hold
    MaxStates, MaxBids  \* bounds: states of the chain, bids in all

World == [lots : 0..MaxLots, price : 0..MaxPrice, funds : 0..MaxFunds]

ASSUME AuctionAssumption ==
    /\ Whole \in Nat \ {0} /\ Slippage \in Nat /\ Unbounded \in Nat
    /\ Openings \subseteq World /\ \A w \in World : Cost(w) \in Nat
    /\ {MaxLots, MaxPrice, MaxFunds, MaxStates, MaxBids} \subseteq Nat

VARIABLES
    states,     \* the states of the chain, one for each slot
    bidder,     \* where each process is, and what it has read and measured
    flight,     \* bids sent, neither settled nor expired
    bids,       \* how many were sent
    won         \* the bids that settled

auctionVars == <<states, bidder, flight, bids, won>>

Now == Len(states)
Resting == [pc |-> "idle", read |-> 1, measured |-> 1, limit |-> 0]

\* The program sells a lot for what it costs, up to the bidder's maximum.
Sells(w, most) == w.lots > 0 /\ Cost(w) <= most /\ Cost(w) <= w.funds
Sold(w) == [lots |-> w.lots - 1, price |-> w.price, funds |-> w.funds - Cost(w)]

\* The smaller of the product with the tolerance and u64::MAX.
Ceiling(paid) ==
    LET bound == (paid * (Whole + Slippage)) \div Whole
    IN  IF bound > Unbounded THEN Unbounded ELSE bound

AuctionInit ==
    /\ states \in {<<w>> : w \in Openings}
    /\ bidder = [b \in Bidders |-> Resting]
    /\ flight = {} /\ bids = 0 /\ won = {}

-----------------------------------------------------------------------------
Turn(b, to) == bidder' = [bidder EXCEPT ![b] = to]

\* The balance before; an account that cannot be read has none.
ReadBalance(b) ==
    /\ bidder[b].pc = "idle"
    /\ \E k \in 1..Now :
        Turn(b, [pc |-> "measure", read |-> k, measured |-> 1, limit |-> 0])
    /\ UNCHANGED <<states, flight, bids, won>>

\* The simulation, in a state of its own.  A refusal, or a payment that does
\* not show, ends the attempt.
Measure(b) ==
    /\ bidder[b].pc = "measure"
    /\ \E k \in 1..Now :
        LET paid == states[bidder[b].read].funds - Sold(states[k]).funds IN
        Turn(b, IF Sells(states[k], Unbounded) /\ paid > 0
                THEN [pc |-> "send", read |-> bidder[b].read, measured |-> k, limit |-> Ceiling(paid)]
                ELSE Resting)
    /\ UNCHANGED <<states, flight, bids, won>>

\* Mutant: the instruction that measured is the one that is sent.
SendUnbounded(b) ==
    /\ bidder[b].pc = "send" /\ bids < MaxBids
    /\ flight' = flight \cup {[bid |-> bids + 1, read |-> bidder[b].read,
                               measured |-> bidder[b].measured, limit |-> Unbounded]}
    /\ bids' = bids + 1 /\ Turn(b, Resting)
    /\ UNCHANGED <<states, won>>

\* Whether the node answers or not, the bid may be on its way.
Send(b) ==
    /\ bidder[b].pc = "send" /\ bids < MaxBids
    /\ flight' = flight \cup {[bid |-> bids + 1, read |-> bidder[b].read,
                               measured |-> bidder[b].measured, limit |-> bidder[b].limit]}
    /\ bids' = bids + 1 /\ Turn(b, Resting)
    /\ UNCHANGED <<states, won>>

\* A shadow process, a failed call, or a broadcast that is not delivered.
GiveUp(b) ==
    /\ bidder[b].pc # "idle" /\ Turn(b, Resting)
    /\ UNCHANGED <<states, flight, bids, won>>

Bid == \E b \in Bidders : ReadBalance(b) \/ Measure(b) \/ Send(b) \/ GiveUp(b)

-----------------------------------------------------------------------------
\* A bid settles in the newest state.
Settle ==
    /\ Now < MaxStates
    /\ \E x \in flight :
        /\ Sells(states[Now], x.limit)
        /\ states' = Append(states, Sold(states[Now]))
        /\ won' = won \cup {[sent |-> x, at |-> Now]}
        /\ flight' = flight \ {x}
    /\ UNCHANGED <<bidder, bids>>

Expire ==
    /\ \E x \in flight : flight' = flight \ {x}
    /\ UNCHANGED <<states, bidder, bids, won>>

\* Others trade, revenue accrues, the wallet is used elsewhere.
Elsewhere ==
    /\ Now < MaxStates
    /\ \E w \in {[states[Now] EXCEPT !.price = @ + 1], [states[Now] EXCEPT !.price = @ - 1],
                 [states[Now] EXCEPT !.lots = @ + 1], [states[Now] EXCEPT !.lots = @ - 1],
                 [states[Now] EXCEPT !.funds = @ + 1], [states[Now] EXCEPT !.funds = @ - 1]} :
        w \in World /\ states' = Append(states, w)
    /\ UNCHANGED <<bidder, flight, bids, won>>

AuctionNext == Bid \/ Settle \/ Expire \/ Elsewhere
AuctionSpec == AuctionInit /\ [][AuctionNext]_auctionVars
-----------------------------------------------------------------------------
\* Properties

(***************************************************************************)
(* A bid pays at most the tolerance more than what the sale cost in the    *)
(* state it was measured in ("bind the sent transaction to that",          *)
(* revenue/mod.rs:14-16), whatever the price does until it settles and     *)
(* whatever other bids do.  What is measured is a difference of two reads  *)
(* (revenue/mod.rs:285): what left the wallet between them counts as part  *)
(* of the price, what came in lowers it, and nothing else moves the bound. *)
(***************************************************************************)
Drift(x) == states[x.read].funds - states[x.measured].funds

PaysAsMeasured ==
    \A x \in won :
        Cost(states[x.at]) <= Ceiling(Cost(states[x.sent.measured]) + Drift(x.sent))
=============================================================================
