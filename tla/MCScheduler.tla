----------------------------- MODULE MCScheduler -----------------------------
(***************************************************************************)
(* What gets its turn, in three parts that share no state and are checked  *)
(* in one run: the scheduler of keeper-core, the loops of the workers, and *)
(* a bid at an auction.  A behaviour belongs to one part; the others stay  *)
(* in one initial state.                                                   *)
(***************************************************************************)
EXTENDS Scheduler, Turns, AuctionBid

CONSTANTS k1, k2, k3

VARIABLE part   \* "scheduler", "turns" or "auction"

Cand(key, kind, slot, id, revision) ==
    [key |-> key, kind |-> kind, slot |-> slot, id |-> id, revision |-> revision]

\* Ranks that differ in priority, in slot and in the identifier alone; two
\* keys with the same identifier; a candidate of another revision.
MCKeys == {k1, k2, k3}
MCCandidates ==
    {Cand(k1, "leverage_liquidation", 1, 1, "r1"), Cand(k1, "stop_loss", 2, 2, "r1"),
     Cand(k1, "stop_loss", 2, 3, "r1"),
     Cand(k2, "hlp_order", 2, 2, "r1"), Cand(k2, "take_profit", 2, 1, "r1"),
     Cand(k2, "leverage_liquidation", 2, 1, "other"),
     Cand(k3, "sentinel", 2, 4, "r1"), Cand(k3, "hlp_order", 1, 4, "r1"),
     Cand(k3, "hlp_order", 1, 3, "r1")}

-----------------------------------------------------------------------------
\* A lot costs twice its price.
MCCost(w) == 2 * w.price
MCOpenings == [lots : {2}, price : {1, 2}, funds : {4}]

-----------------------------------------------------------------------------
mcVars == <<part, vars, turnVars, auctionVars>>

MCInit ==
    /\ part \in {"scheduler", "turns", "auction"}
    /\ Init
    /\ TurnsInit /\ (part # "turns" => /\ worker = CHOOSE w \in Workers : TRUE
                                      /\ urgent = {}
                                      /\ condition = [t \in 1..Targets |-> "idle"])
    /\ AuctionInit /\ (part # "auction" => states[1] = CHOOSE w \in Openings : TRUE)

TurnsPart(A) == part = "turns" /\ A /\ UNCHANGED <<part, vars, auctionVars>>

MCNext ==
    \/ part = "scheduler" /\ Next /\ UNCHANGED <<part, turnVars, auctionVars>>
    \/ TurnsPart(TurnsNext)
    \/ part = "auction" /\ AuctionNext /\ UNCHANGED <<part, vars, turnVars>>

MCSpec ==
    /\ MCInit /\ [][MCNext]_mcVars
    /\ WF_mcVars(TurnsPart(Loops)) /\ WF_mcVars(TurnsPart(Settles))
=============================================================================
