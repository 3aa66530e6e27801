---------------------------- MODULE WorkerProofs -----------------------------
(***************************************************************************)
(* Proofs about the work that is queued and the bids that are sent, for    *)
(* every set of keys, candidates and bidders.                              *)
(*                                                                         *)
(* The four invariants of Scheduler are inductive together: BestOffer      *)
(* carries over an enqueue because the rank is a strict weak order         *)
(* (RankOrder), and DrainOrder over a pop because what is popped has the   *)
(* highest rank.  A bid of AuctionBid pays what was measured and no more   *)
(* than the tolerance above it.                                            *)
(***************************************************************************)
EXTENDS Scheduler, AuctionBid, TLAPS

-----------------------------------------------------------------------------
\* The queue

Inv == TypeOK /\ Exclusive /\ BestOffer /\ DrainOrder

\* Priorities are natural numbers (JobKind::priority).
LEMMA PriorityIsNat == \A j \in JobKind : Priority[j] \in Nat
BY DEF JobKind, Priority

\* A candidate's fields have the types that its rank compares.
LEMMA CandidateFields ==
    ASSUME NEW c \in Candidates
    PROVE  /\ c.key \in Keys /\ c.slot \in Nat /\ c.id \in Nat
           /\ Priority[c.kind] \in Nat /\ c # None
BY SchedulerAssumption, PriorityIsNat DEF Candidate

\* What is not above d is not above anything d is not above (candidate_rank).
LEMMA RankOrder ==
    ASSUME NEW b \in Candidates, NEW c \in Candidates, NEW d \in Candidates,
           ~Outranks(b, c), Outranks(d, c)
    PROVE  ~Outranks(b, d) /\ ~Outranks(d, d)
BY CandidateFields DEF Outranks

\* Nothing outranks itself.
LEMMA RankIrreflexive == \A c \in Candidates : ~Outranks(c, c)
BY CandidateFields DEF Outranks

\* Init establishes the invariant.
LEMMA InitInv == Init => Inv
BY DEF Init, Inv, TypeOK, Exclusive, BestOffer, DrainOrder

\* An offer keeps the best of what was offered.
LEMMA EnqueueInv ==
    ASSUME Inv, NEW c \in Candidates, Enqueue(c)
    PROVE  Inv'
<1> USE DEF Inv, Current
<1> DEFINE k == c.key
           p == IF pending[k] = None \/ Outranks(c, pending[k]) THEN c ELSE pending[k]
<1>1. k \in Keys /\ c \in Current /\ c # None
  BY CandidateFields DEF Enqueue
<1>2. /\ pending' = [pending EXCEPT ![k] = p]
      /\ offers' = [offers EXCEPT ![k] = @ \cup {c}]
      /\ last' = None /\ inFlight' = inFlight /\ k \notin inFlight
  BY DEF Enqueue
<1>3. p \in Current /\ p # None /\ p.key = k
  BY <1>1, CandidateFields DEF TypeOK
<1> HIDE DEF p, k
<1>4. TypeOK'
  BY <1>1, <1>2, <1>3 DEF TypeOK
<1>5. Exclusive'
  BY <1>1, <1>2 DEF Exclusive, TypeOK
<1>6. ASSUME NEW j \in Keys, j # k
      PROVE  pending'[j] = pending[j] /\ offers'[j] = offers[j]
  BY <1>1, <1>2, <1>6 DEF TypeOK
<1>7. pending'[k] = p /\ offers'[k] = offers[k] \cup {c}
  BY <1>1, <1>2 DEF TypeOK
<1>8. p \in offers[k] \cup {c}
  BY <1>1 DEF p, BestOffer, k
<1>9. \A d \in offers[k] \cup {c} : ~Outranks(d, p)
  <2> TAKE d \in offers[k] \cup {c}
  <2>1. d \in Candidates /\ c \in Candidates
    BY <1>1 DEF TypeOK
  <2>2. CASE pending[k] = None
    <3>1. d = c /\ p = c
      BY <1>1, <2>2 DEF BestOffer, p, k
    <3> QED BY <3>1, RankIrreflexive
  <2>3. CASE pending[k] # None /\ Outranks(c, pending[k])
    <3>1. p = c /\ pending[k] \in Candidates
      BY <1>1, <2>3 DEF p, TypeOK
    <3>2. CASE d = c
      BY <3>1, <3>2, RankIrreflexive
    <3>3. CASE d \in offers[k]
      <4>1. ~Outranks(d, pending[k])
        BY <1>1, <3>3 DEF BestOffer
      <4> QED BY <2>1, <2>3, <3>1, <4>1, RankOrder
    <3> QED BY <3>2, <3>3
  <2>4. CASE pending[k] # None /\ ~Outranks(c, pending[k])
    <3>1. p = pending[k]
      BY <2>4 DEF p, k
    <3> QED BY <1>1, <2>4, <3>1 DEF BestOffer
  <2> QED BY <2>2, <2>3, <2>4
<1>10. BestOffer'
  BY <1>3, <1>6, <1>7, <1>8, <1>9 DEF BestOffer
<1>11. DrainOrder'
  BY <1>2 DEF DrainOrder
<1> QED BY <1>4, <1>5, <1>10, <1>11

\* Handing a key out empties its place, whoever takes it.
LEMMA HandOutKeeps ==
    ASSUME Inv, NEW k \in Keys, HandOut(k)
    PROVE  /\ Exclusive' /\ BestOffer'
           /\ \A j \in Keys : pending'[j] = None \/ pending'[j] = pending[j]
           /\ pending' \in [Keys -> Current \cup {None}]
           /\ \A j \in Keys : pending'[j] # None => pending'[j].key = j
           /\ inFlight' \subseteq Keys /\ offers' \in [Keys -> SUBSET Current]
BY DEF Inv, HandOut, TypeOK, Exclusive, BestOffer

\* What was the best of all outranks what is left.
LEMMA PopInv == ASSUME Inv, PopNext PROVE Inv'
<1>1. PICK k \in Keys :
        /\ pending[k] # None
        /\ \A j \in Keys : pending[j] # None => ~Outranks(pending[j], pending[k])
        /\ last' = pending[k] /\ HandOut(k)
  BY DEF PopNext
<1>2. pending[k] \in Candidates /\ last' \in Current
  BY <1>1 DEF Inv, TypeOK, Current
<1>3. TypeOK' /\ Exclusive' /\ BestOffer'
  BY <1>1, <1>2, HandOutKeeps DEF TypeOK
<1>4. DrainOrder'
  <2> SUFFICES ASSUME NEW j \in Keys, pending'[j] # None
               PROVE  LET p == Priority[pending'[j].kind]
                          q == Priority[last'.kind]
                      IN  p < q \/ (p = q /\ pending'[j].slot <= last'.slot)
    BY DEF DrainOrder
  <2>1. pending'[j] = pending[j] /\ pending[j] \in Candidates
    BY <1>1, HandOutKeeps DEF Inv, TypeOK, Current
  <2>2. ~Outranks(pending[j], pending[k])
    BY <1>1, <2>1
  <2> QED BY <1>1, <1>2, <2>1, <2>2, CandidateFields DEF Outranks
<1> QED BY <1>3, <1>4 DEF Inv

\* Every step preserves the invariant.
LEMMA StepInv == Inv /\ [Next]_vars => Inv'
<1> SUFFICES ASSUME Inv, [Next]_vars PROVE Inv'
  OBVIOUS
<1>1. ASSUME NEW c \in Candidates, Enqueue(c) PROVE Inv'
  BY <1>1, EnqueueInv
<1>2. CASE PopNext
  BY <1>2, PopInv
<1>3. ASSUME NEW k \in Keys, MarkInFlight(k) PROVE Inv'
  <2>1. HandOut(k) /\ last' = last
    BY <1>3 DEF MarkInFlight
  <2>2. TypeOK' /\ Exclusive' /\ BestOffer'
    BY <2>1, HandOutKeeps DEF TypeOK, Inv
  <2>3. DrainOrder'
    BY <2>1, HandOutKeeps DEF DrainOrder, Inv
  <2> QED BY <2>2, <2>3 DEF Inv
<1>4. ASSUME NEW k \in Keys, Finish(k) PROVE Inv'
  BY <1>4 DEF Finish, Inv, TypeOK, Exclusive, BestOffer, DrainOrder
<1>5. CASE UNCHANGED vars
  BY <1>5 DEF vars, Inv, TypeOK, Exclusive, BestOffer, DrainOrder
<1> QED BY <1>1, <1>2, <1>3, <1>4, <1>5 DEF Next

\* Every reachable state satisfies the four invariants.
THEOREM SpecInv == Spec => []Inv
BY InitInv, StepInv, PTL DEF Spec

\* Only candidates of this revision wait or are handed out (lib.rs:78-80).
THEOREM TypeCorrect == Spec => []TypeOK
<1>1. Inv => TypeOK
  BY DEF Inv
<1> QED BY SpecInv, <1>1, PTL

\* Nothing waits for a key whose work is in flight (lib.rs:81-83).
THEOREM KeysAreExclusive == Spec => []Exclusive
<1>1. Inv => Exclusive
  BY DEF Inv
<1> QED BY SpecInv, <1>1, PTL

\* What waits is the best of what was offered, in whatever order (lib.rs:85-95).
THEOREM OrderDoesNotMatter == Spec => []BestOffer
<1>1. Inv => BestOffer
  BY DEF Inv
<1> QED BY SpecInv, <1>1, PTL

\* Draining goes from the urgent to the less urgent (lib.rs:98-107, 126-132).
THEOREM DrainsByPriority == Spec => []DrainOrder
<1>1. Inv => DrainOrder
  BY DEF Inv
<1> QED BY SpecInv, <1>1, PTL

-----------------------------------------------------------------------------
(***************************************************************************)
(* The auction: what a bid pays, for every cost of a lot, every number of  *)
(* bidders, and every course of the chain.                                 *)
(***************************************************************************)

\* The inductive invariant

\* A bid, or a bidder that is about to send one, carries the bound of what it
\* measured, with what left the wallet between its two reads.
Bound(s, x) ==
    /\ x.read \in 1..Len(s) /\ x.measured \in 1..Len(s)
    /\ x.limit = Ceiling(Cost(s[x.measured]) + (s[x.read].funds - s[x.measured].funds))

\* A bid that settled cost no more than it carried.
Paid(s, x) ==
    /\ Bound(s, x.sent) /\ x.at \in 1..Len(s)
    /\ Cost(s[x.at]) <= x.sent.limit

BidderInv ==
    \A b \in Bidders :
        /\ bidder[b].read \in 1..Now
        /\ bidder[b].pc = "send" => Bound(states, bidder[b])

AuctionInv ==
    /\ states \in Seq(World) /\ states # <<>>
    /\ DOMAIN bidder = Bidders /\ BidderInv
    /\ \A x \in flight : Bound(states, x)
    /\ \A x \in won : Paid(states, x)

-----------------------------------------------------------------------------
(***************************************************************************)
(* A chain that grows keeps what a bid carries and what it paid, since the *)
(* states that were stay as they were.                                     *)
(***************************************************************************)
LEMMA Grows ==
    ASSUME NEW s \in Seq(World), NEW w \in World, NEW t, t = Append(s, w)
    PROVE  /\ t \in Seq(World) /\ t # <<>>
           /\ \A k \in 1..Len(s) : k \in 1..Len(t) /\ t[k] = s[k]
PROOF OBVIOUS

LEMMA BoundStays ==
    ASSUME NEW s \in Seq(World), NEW w \in World, NEW t, t = Append(s, w)
    PROVE  /\ \A x : Bound(s, x) => Bound(t, x)
           /\ \A x : Paid(s, x) => Paid(t, x)
PROOF
<1>1. \A k \in 1..Len(s) : k \in 1..Len(t) /\ t[k] = s[k]
    BY Grows
<1>2. ASSUME NEW x, Bound(s, x) PROVE Bound(t, x)
    BY <1>1, <1>2 DEF Bound
<1>3. ASSUME NEW x, Paid(s, x) PROVE Paid(t, x)
    BY <1>1, <1>2, <1>3 DEF Paid
<1> QED BY <1>2, <1>3

-----------------------------------------------------------------------------
(***************************************************************************)
(* What a state holds and what a lot costs in it are numbers.              *)
(***************************************************************************)
LEMMA StateNumbers ==
    ASSUME NEW w \in World
    PROVE  w.funds \in Int /\ Cost(w) \in Int
PROOF
<1>1. Cost(w) \in Nat
    BY AuctionAssumption
<1>2. w.funds \in Int
    BY DEF World
<1> QED BY <1>1, <1>2

(***************************************************************************)
(* A state is a state after a sale.                                        *)
(***************************************************************************)
LEMMA SoldIsWorld ==
    ASSUME NEW w \in World, NEW most, Sells(w, most)
    PROVE  Sold(w) \in World /\ Sold(w).funds = w.funds - Cost(w)
BY AuctionAssumption DEF World, Sells, Sold

(***************************************************************************)
(* A new state of the chain disturbs no bidder and no bid.                 *)
(***************************************************************************)
LEMMA ChainStep ==
    ASSUME AuctionInv, NEW w \in World, states' = Append(states, w),
           bidder' = bidder, flight' \subseteq flight,
           \A x \in won' : x \in won \/ Paid(states, x)
    PROVE  AuctionInv'
PROOF
<1>1. /\ states' \in Seq(World) /\ states' # <<>>
      /\ \A k \in 1..Len(states) : k \in 1..Len(states')
    BY Grows DEF AuctionInv
<1>2. /\ \A x : Bound(states, x) => Bound(states', x)
      /\ \A x : Paid(states, x) => Paid(states', x)
    BY BoundStays DEF AuctionInv
<1>3. BidderInv'
    BY <1>1, <1>2 DEF AuctionInv, BidderInv, Now
<1>4. (\A x \in flight : Bound(states, x))'
    BY <1>2 DEF AuctionInv
<1>5. (\A x \in won : Paid(states, x))'
    BY <1>2 DEF AuctionInv
<1> QED BY <1>1, <1>3, <1>4, <1>5 DEF AuctionInv

LEMMA InitBound ==
    ASSUME AuctionInit
    PROVE  AuctionInv
PROOF
<1>1. PICK w \in Openings : states = <<w>>
    BY DEF AuctionInit
<1>2. states \in Seq(World) /\ states # <<>> /\ Len(states) = 1
    BY <1>1, AuctionAssumption
<1>3. BidderInv
  <2>1. \A b \in Bidders : bidder[b] = Resting
      BY DEF AuctionInit
  <2>2. Resting.read = 1 /\ Resting.pc # "send"
      BY DEF Resting
  <2>3. ASSUME NEW b \in Bidders PROVE bidder[b].read = 1 /\ bidder[b].pc # "send"
    <3>1. bidder[b] = Resting
        BY <2>1
    <3> QED BY <2>2, <3>1
  <2>4. 1 \in 1..Len(states)
      BY <1>2
  <2> QED BY <2>3, <2>4 DEF BidderInv, Now
<1> QED BY <1>2, <1>3 DEF AuctionInv, AuctionInit

-----------------------------------------------------------------------------
(***************************************************************************)
(* The step lemma: measuring makes the bound, sending hands it on, and     *)
(* settling keeps to it.                                                   *)
(***************************************************************************)
LEMMA StepBound ==
    ASSUME AuctionInv, [AuctionNext]_auctionVars
    PROVE  AuctionInv'
PROOF
<1> USE DEF AuctionInv
<1>0. /\ Len(states) \in Nat \ {0} /\ Now \in 1..Now
      /\ \A k \in 1..Len(states) : states[k] \in World
    BY DEF Now
<1>1. ASSUME NEW b \in Bidders, ReadBalance(b) PROVE AuctionInv'
  <2>1. PICK k \in 1..Now : Turn(b, [pc |-> "measure", read |-> k, measured |-> 1, limit |-> 0])
      BY <1>1 DEF ReadBalance
  <2>2. BidderInv'
      BY <1>1, <2>1 DEF BidderInv, ReadBalance, Turn, Resting, Now
  <2> QED BY <1>1, <2>1, <2>2 DEF ReadBalance, Turn
<1>2. ASSUME NEW b \in Bidders, Measure(b) PROVE AuctionInv'
  <2>1. PICK k \in 1..Now :
            Turn(b, IF Sells(states[k], Unbounded)
                        /\ states[bidder[b].read].funds - Sold(states[k]).funds > 0
                    THEN [pc |-> "send", read |-> bidder[b].read, measured |-> k,
                          limit |-> Ceiling(states[bidder[b].read].funds
                                            - Sold(states[k]).funds)]
                    ELSE Resting)
      BY <1>2 DEF Measure
  <2>2. UNCHANGED <<states, flight, bids, won>>
      BY <1>2 DEF Measure
  <2>3. BidderInv'
    <3>1. CASE Sells(states[k], Unbounded)
                /\ states[bidder[b].read].funds - Sold(states[k]).funds > 0
      <4> DEFINE paid == states[bidder[b].read].funds - Sold(states[k]).funds
                 y == [pc |-> "send", read |-> bidder[b].read, measured |-> k, limit |-> Ceiling(paid)]
      <4>1. bidder' = [bidder EXCEPT ![b] = y]
          BY <2>1, <3>1 DEF Turn
      <4>2. Sold(states[k]).funds = states[k].funds - Cost(states[k])
          BY <1>0, <3>1, SoldIsWorld DEF Now
      <4>3. /\ bidder[b].read \in 1..Len(states) /\ k \in 1..Len(states)
            /\ states[bidder[b].read] \in World /\ states[k] \in World
          BY <1>0 DEF BidderInv, Now
      <4>4. paid = Cost(states[k]) + (states[bidder[b].read].funds - states[k].funds)
        <5>1. /\ states[k].funds \in Int /\ Cost(states[k]) \in Int
              /\ states[bidder[b].read].funds \in Int
            BY <4>3, StateNumbers
        <5>2. \A f, g, c \in Int : g - (f - c) = c + (g - f)
            OBVIOUS
        <5> QED BY <4>2, <5>1, <5>2
      <4>5. Bound(states, y)
          BY <4>3, <4>4 DEF Bound
      <4>6. y.read = bidder[b].read
          OBVIOUS
      <4> HIDE DEF y
      <4> QED BY <2>2, <4>1, <4>3, <4>5, <4>6 DEF BidderInv, Now
    <3>2. CASE ~(Sells(states[k], Unbounded)
                 /\ states[bidder[b].read].funds - Sold(states[k]).funds > 0)
        BY <1>0, <2>1, <2>2, <3>2 DEF BidderInv, Turn, Resting, Now
    <3> QED BY <3>1, <3>2
  <2> QED BY <2>1, <2>2, <2>3 DEF Turn
<1>3. ASSUME NEW b \in Bidders, Send(b) PROVE AuctionInv'
  <2>1. BidderInv'
      BY <1>0, <1>3 DEF BidderInv, Send, Turn, Resting, Now
  <2>2. (\A x \in flight : Bound(states, x))'
      BY <1>3 DEF BidderInv, Send, Bound
  <2> QED BY <1>3, <2>1, <2>2 DEF Send, Turn
<1>4. ASSUME NEW b \in Bidders, GiveUp(b) PROVE AuctionInv'
  <2>1. BidderInv'
      BY <1>0, <1>4 DEF BidderInv, GiveUp, Turn, Resting, Now
  <2> QED BY <1>4, <2>1 DEF GiveUp, Turn
<1>5. CASE Settle
  <2>1. PICK x \in flight :
            /\ Sells(states[Now], x.limit)
            /\ states' = Append(states, Sold(states[Now]))
            /\ won' = won \cup {[sent |-> x, at |-> Now]}
            /\ flight' = flight \ {x}
      BY <1>5 DEF Settle
  <2>2. Sold(states[Now]) \in World
      BY <1>0, <2>1, SoldIsWorld DEF Now
  <2>3. Paid(states, [sent |-> x, at |-> Now])
      BY <1>0, <2>1 DEF Paid, Sells, Now
  <2> QED BY <1>5, <2>1, <2>2, <2>3, ChainStep DEF Settle
<1>6. CASE Expire
    BY <1>6 DEF Expire, BidderInv, Now
<1>7. CASE Elsewhere
  <2>1. PICK w \in World : states' = Append(states, w)
      BY <1>7 DEF Elsewhere
  <2> QED BY <1>7, <2>1, ChainStep DEF Elsewhere
<1>8. CASE UNCHANGED auctionVars
    BY <1>8 DEF auctionVars, BidderInv, Now
<1> QED BY <1>1, <1>2, <1>3, <1>4, <1>5, <1>6, <1>7, <1>8 DEF AuctionNext, Bid

-----------------------------------------------------------------------------
(***************************************************************************)
(* Whatever the price does until it settles, and whoever bids besides, a   *)
(* bid pays at most the tolerance more than what was measured, which is    *)
(* the price and what left the wallet between the two reads.               *)
(***************************************************************************)
THEOREM BidPaysAsMeasured == AuctionSpec => []PaysAsMeasured
PROOF
<1>1. AuctionInv => PaysAsMeasured
    BY DEF AuctionInv, Paid, Bound, PaysAsMeasured, Drift
<1> QED BY <1>1, InitBound, StepBound, PTL DEF AuctionSpec
=============================================================================
