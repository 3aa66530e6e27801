--------------------------- MODULE PositionAttempt ---------------------------
(***************************************************************************)
(* One attempt to liquidate a position, LiquidationJob::attempt and submit *)
(* in rust/apps/keeper/src/liquidation/engine.rs with plan.rs, policy.rs   *)
(* and validation.rs: snapshot, health, a size and a route found by        *)
(* simulation, the second snapshot, the last simulation, the signature;    *)
(* and the chain, which moves between any two of these calls and answers   *)
(* each from any state that is not older than minContextSlot.              *)
(*                                                                         *)
(* Abstractions: a state of the chain is what the attempt depends on, and  *)
(* a snapshot is the slot it was answered from.  The search tries sizes in *)
(* any order and may give up at any time; which sizes it tries is          *)
(* ProfitSearch.  Of the four previews and instructions of the program,    *)
(* what a liquidation of a size does is one function of state and size.    *)
(* The swap output of an emergency quote is left out: it is carried beside *)
(* its reward.  When a signature may be replaced is FlashJournal.          *)
(***************************************************************************)
EXTENDS Integers, Sequences

CONSTANTS
    MinProfit,  \* KEEPER_LIQUIDATION_MIN_PROFIT
    MaxRepay,   \* KEEPER_FLASH_MAX_REPAY
    MaxDebit,   \* KEEPER_FLASH_MAX_PAYMENT_DEBIT
    MinCredit,  \* KEEPER_FLASH_MIN_COLLATERAL_CREDIT
    Configs,    \* the rest of the configuration
    Eligible(_),        \* what the health preview says in a state
    Fill(_, _, _, _),   \* what a route does in a state with a size, full or not
    FeeOf(_),   \* the fee on a transfer of debt tokens in an epoch
    Starts,     \* states to start from
    Prices, MaxDebt, MaxPledge, MaxEpoch, MaxWallet, \* bounds: what states hold
    MaxSlot,    \* bound: states of the chain, one more when something lands
    None        \* refused; nothing signed; nothing landed

Routes == {"flash", "emergency"}
Config == [mode : {"ordinary", "emergency", "both"},
           settlement : {"dusk", "inventory", "elsewhere"}, live : BOOLEAN]

\* debt, pledged: the position.  price: market and oracles.  wallet: the debt
\* tokens of the buyer.  ready: whether the token accounts exist.
World == [debt : 0..MaxDebt, pledged : 0..MaxPledge, price : Prices, epoch : 0..MaxEpoch,
          wallet : 0..MaxWallet, ready : BOOLEAN]

\* What a liquidation can be asked for.
Quantities == 0..MaxPledge \cup 0..MaxDebt \cup {MaxRepay}

\* What is paid, credited in collateral, and gained; and what is left.
Filled == [payment : Nat, collateral : Nat, gain : Nat, debt : 0..MaxDebt, pledged : 0..MaxPledge]
Bounds == [maxPayment : Nat, minCollateral : Nat, minGain : Nat, gross : Nat]
Plan == [route : Routes \cup {"prepare"}, size : Nat, full : BOOLEAN, internal : BOOLEAN,
         bounds : Bounds]

ASSUME AttemptAssumption ==
    /\ MinProfit \in Nat /\ MaxRepay \in Nat \ {0} /\ MaxDebit \in Nat /\ MinCredit \in Nat
    /\ Configs \subseteq Config /\ Starts \subseteq World
    /\ MaxDebt \in Nat /\ MaxPledge \in Nat /\ MaxEpoch \in Nat /\ MaxWallet \in Nat
    /\ MaxSlot \in Nat \ {0}
    /\ None \notin Filled /\ None \notin Plan

ASSUME ProgramAssumption ==
    /\ \A e \in 0..MaxEpoch : FeeOf(e) \in Nat
    /\ \A w \in World, route \in Routes, full \in BOOLEAN :
        \A size \in Quantities : Fill(w, route, size, full) \in Filled \cup {None}

VARIABLES
    config,     \* the configuration of the process
    chain,      \* the states of the chain, one for each slot
    pc,         \* idle, read, health, probe, score, protect, reread, recheck
    at,         \* the slot of the last snapshot
    snap,       \* the slot of the snapshot the plan is made from
    debt,       \* the debt that the health preview returned
    route, full,\* the route being tried, and whether for the whole position
    plan,       \* the plan, from the first size that previews
    signed,     \* what is signed and has not landed
    landed      \* the last liquidation that landed

local == <<pc, at, snap, debt, route, full, plan>>
attemptVars == <<config, chain, local, signed, landed>>

Tip == Len(chain)
Answers(slot) == slot..Tip

-----------------------------------------------------------------------------
\* The program

Result(w, tx) == Fill(w, tx.route, tx.size, tx.full)

\* What the buyer's wallet changes by.
Earned(w, tx) == IF tx.internal THEN Result(w, tx).gain ELSE -tx.bounds.gross

\* The bounds that begin, settle and the emergency instruction enforce.
Executes(w, tx) ==
    /\ Result(w, tx) # None
    /\ tx.route = "flash" =>
        /\ Result(w, tx).payment <= tx.bounds.maxPayment
        /\ Result(w, tx).collateral >= tx.bounds.minCollateral
    /\ IF tx.internal THEN Result(w, tx).gain >= tx.bounds.minGain
       ELSE /\ tx.bounds.gross <= w.wallet
            /\ tx.bounds.gross - FeeOf(w.epoch) >= Result(w, tx).payment

After(w, tx) ==
    [w EXCEPT !.debt = Result(w, tx).debt, !.pledged = Result(w, tx).pledged,
              !.wallet = w.wallet + Earned(w, tx)]

-----------------------------------------------------------------------------
\* Plans and their evaluation

Internal == config.settlement = "dusk"
MinimumOf(r) == IF r = "flash" /\ ~Internal THEN 0 ELSE MinProfit

\* inventory_payment: what credits the payment after the fee of the snapshot's epoch.
InventoryPayment(payment) == payment + FeeOf(chain[snap].epoch)

\* flash_plan and Context::flash: payment and collateral of the quote are the bounds.
FlashPlan(quote, size, minGain) ==
    [route |-> "flash", size |-> size, full |-> full, internal |-> Internal,
     bounds |-> [maxPayment |-> quote.payment, minCollateral |-> quote.collateral,
                 minGain |-> IF Internal THEN minGain ELSE 0,
                 gross |-> IF Internal THEN 0 ELSE InventoryPayment(quote.payment)]]

\* flash_plan returns no plan outside the limits of the inventory.
Affordable(tx) ==
    tx.internal \/ (tx.bounds.gross <= MaxDebit /\ tx.bounds.minCollateral >= MinCredit)

\* Context::emergency: the reward of the quote is the bound.
EmergencyPlan(quote, size) ==
    [route |-> "emergency", size |-> size, full |-> full, internal |-> TRUE,
     bounds |-> [maxPayment |-> 0, minCollateral |-> 0, minGain |-> quote.gain, gross |-> 0]]

PreparePlan ==
    [route |-> "prepare", size |-> 0, full |-> FALSE, internal |-> TRUE,
     bounds |-> [maxPayment |-> 0, minCollateral |-> 0, minGain |-> 0, gross |-> 0]]

\* A size is scored without the floor; the whole position is planned with it.
Offer(quote, size) ==
    IF route = "flash" THEN FlashPlan(quote, size, IF full THEN MinProfit ELSE 0)
    ELSE EmergencyPlan(quote, size)

\* Mutant: the plan that was scored is the plan that is submitted.
ProtectedByScore(tx) == tx

\* The winner is rebuilt with the floor.
Protected(tx) == [tx EXCEPT !.bounds.minGain = IF tx.internal THEN MinProfit ELSE 0]

\* The amounts a route may try.
Sizes ==
    CASE route = "flash" /\ ~full -> 1..(IF debt < MaxRepay THEN debt ELSE MaxRepay)
      [] route = "flash" /\ full -> {s \in {MaxRepay} : s >= debt}
      [] route = "emergency" /\ ~full -> 1..(chain[snap].pledged - 1)
      [] route = "emergency" /\ full -> {chain[snap].pledged}

\* liquidation_profit: the balances after a simulation in w against those of
\* the snapshot s.
Pays(w, s, tx) ==
    LET wallet == w.wallet + Earned(w, tx) IN
    IF tx.internal THEN wallet - s.wallet >= MinimumOf(tx.route)
    ELSE s.wallet - wallet <= MaxDebit /\ Result(w, tx).collateral >= MinCredit

\* profitable: slot k answers the simulation, slot base the snapshot.
Reaches(k, base, tx, whole) ==
    /\ Executes(chain[k], tx) /\ Pays(chain[k], chain[base], tx)
    /\ Result(chain[k], tx).debt < chain[base].debt
    /\ whole => Result(chain[k], tx).debt = 0

-----------------------------------------------------------------------------
\* The attempt

Quiet ==
    /\ pc = "idle" /\ at = 1 /\ snap = 1 /\ debt = 0
    /\ route = "flash" /\ full = FALSE /\ plan = None

AttemptInit ==
    /\ config \in Configs /\ chain \in {<<w>> : w \in Starts} /\ Quiet
    /\ signed = None /\ landed = None

Shared == <<config, chain, signed, landed>>

\* The attempt is over: with an error, unfilled, or signed.
Return ==
    /\ pc' = "idle" /\ at' = 1 /\ snap' = 1 /\ debt' = 0
    /\ route' = "flash" /\ full' = FALSE /\ plan' = None

\* Into submit: outside live mode it ends there.
Submit(tx) ==
    IF config.live
    THEN /\ pc' = "reread" /\ at' = 1 /\ plan' = tx
         /\ UNCHANGED <<snap, debt, route, full>>
    ELSE Return

\* While a signature is pending the journal signs no other (FlashJournal); bound:
\* no attempt begins after a liquidation has landed.
Begin ==
    /\ pc = "idle" /\ signed = None /\ landed = None /\ pc' = "read"
    /\ UNCHANGED <<at, snap, debt, route, full, plan, Shared>>

\* fresh: of its four fetches each is at least as new as the one before it; the
\* first accepts any slot, also one older than an earlier snapshot, and the last
\* one is the snapshot.
Fetch ==
    /\ pc \in {"read", "reread"}
    /\ \E k \in Answers(1) :
        /\ at' = k
        /\ IF pc = "read" THEN pc' = "health" /\ snap' = k ELSE pc' = "recheck" /\ UNCHANGED snap
    /\ UNCHANGED <<debt, route, full, plan, Shared>>

\* The health preview, on a state of its own, and the accounts of the snapshot.
Assess ==
    /\ pc = "health"
    /\ \E k \in Answers(snap) :
        IF chain[snap].debt = 0 \/ ~Eligible(chain[k]) THEN Return
        ELSE IF ~chain[snap].ready THEN Submit(PreparePlan)
        ELSE /\ pc' = "probe" /\ debt' = chain[k].debt
             /\ route' \in {r \in Routes :
                    \/ r = "flash" /\ config.mode # "emergency" /\ config.settlement # "elsewhere"
                    \/ r = "emergency" /\ config.mode = "emergency"
                    \/ r = "emergency" /\ config.mode = "both" /\ config.settlement = "elsewhere"}
             /\ UNCHANGED <<at, snap, full, plan>>
    /\ UNCHANGED Shared

\* A preview of a size, answered from one state, ...
Preview ==
    /\ pc = "probe"
    /\ \E k \in Answers(snap), size \in Sizes :
        LET quote == Fill(chain[k], route, size, full) IN
        /\ quote # None /\ Affordable(Offer(quote, size))
        /\ plan' = Offer(quote, size)
    /\ pc' = "score" /\ UNCHANGED <<at, snap, debt, route, full, Shared>>

\* ... and its execution simulated in another.
Score ==
    /\ pc = "score"
    /\ \E k \in Answers(snap) : Reaches(k, snap, plan, full)
    /\ IF route = "flash" /\ ~full
       THEN pc' = "protect" /\ plan' = Protected(plan) /\ UNCHANGED <<at, snap, debt, route, full>>
       ELSE Submit(plan)
    /\ UNCHANGED Shared

\* Not enough: another size.
ScoreLow ==
    /\ pc = "score"
    /\ \E k \in Answers(snap) : ~Reaches(k, snap, plan, full)
    /\ pc' = "probe" /\ plan' = None /\ UNCHANGED <<at, snap, debt, route, full, Shared>>

\* select_liquidation: no size of this route; the whole position, then the
\* other route, where the mode allows it.
NextRoute ==
    /\ pc = "probe"
    /\ \/ ~full /\ full' = TRUE /\ UNCHANGED <<pc, at, snap, debt, route, plan>>
       \/ /\ full /\ route = "flash" /\ config.mode = "both"
          /\ route' = "emergency" /\ full' = FALSE
          /\ UNCHANGED <<pc, at, snap, debt, plan>>
       \/ full /\ (route = "emergency" \/ config.mode # "both") /\ Return
    /\ UNCHANGED Shared

\* The plan with its floor is simulated again.
Protect ==
    /\ pc = "protect"
    /\ \E k \in Answers(snap) : Reaches(k, snap, plan, FALSE)
    /\ Submit(plan) /\ UNCHANGED Shared

\* Mutant: the second snapshot is trusted without another simulation.
RecheckState ==
    /\ pc = "recheck" /\ chain[at] = chain[snap]
    /\ signed' = [plan |-> plan, snap |-> snap, checked |-> at]
    /\ Return /\ UNCHANGED <<config, chain, landed>>

\* The second snapshot equals the first, slots aside, and the plan still
\* reaches its minimum: it is signed.
Recheck ==
    /\ pc = "recheck" /\ chain[at] = chain[snap]
    /\ \E k \in Answers(at) :
        /\ plan.route # "prepare" => Reaches(k, at, plan, full)
        /\ signed' = [plan |-> plan, snap |-> snap, checked |-> k]
    /\ Return /\ UNCHANGED <<config, chain, landed>>

\* A call fails, a state changed, a bound is missed, or no route is open.
Fail == pc # "idle" /\ Return /\ UNCHANGED Shared

AttemptStep ==
    \/ Begin \/ Fetch \/ Assess \/ Preview \/ Score \/ ScoreLow \/ NextRoute
    \/ Protect \/ Recheck \/ Fail

-----------------------------------------------------------------------------
\* The chain

\* The signed transaction executes in the newest state, whatever it is.
Land ==
    /\ signed # None /\ Tip <= MaxSlot
    /\ IF signed.plan.route = "prepare"
       THEN chain' = Append(chain, [chain[Tip] EXCEPT !.ready = TRUE]) /\ UNCHANGED landed
       ELSE /\ Executes(chain[Tip], signed.plan) /\ After(chain[Tip], signed.plan) \in World
            /\ chain' = Append(chain, After(chain[Tip], signed.plan))
            /\ landed' = [plan |-> signed.plan, snap |-> signed.snap, checked |-> signed.checked,
                          at |-> Tip, earned |-> Earned(chain[Tip], signed.plan),
                          collateral |-> Result(chain[Tip], signed.plan).collateral]
    /\ signed' = None /\ UNCHANGED <<config, local>>

\* It is rejected, or its blockhash expires.
Lapse == signed # None /\ signed' = None /\ UNCHANGED <<config, chain, local, landed>>

\* Somebody else moves the market, the position or the wallet, or an epoch ends.
Others ==
    /\ Tip < MaxSlot
    /\ \E w \in {[chain[Tip] EXCEPT !.price = p] : p \in Prices \ {chain[Tip].price}}
            \cup {[chain[Tip] EXCEPT !.debt = @ - 1], [chain[Tip] EXCEPT !.epoch = @ + 1],
                  [chain[Tip] EXCEPT !.wallet = @ + 1], [chain[Tip] EXCEPT !.wallet = @ - 1]} :
        w \in World /\ chain' = Append(chain, w)
    /\ UNCHANGED <<config, local, signed, landed>>

AttemptNext == AttemptStep \/ Land \/ Lapse \/ Others
AttemptSpec == AttemptInit /\ [][AttemptNext]_attemptVars
-----------------------------------------------------------------------------
\* Properties

(***************************************************************************)
(* What lands keeps the limits of the configuration, although each call of *)
(* the attempt saw a state of its own and the transaction executes in yet  *)
(* another: an internal flash liquidation gains the minimum in whatever    *)
(* state it lands; one from inventory pays at most its cap and is credited *)
(* at least the least collateral; an emergency liquidation, which carries  *)
(* the reward of a quote and not the minimum, gains it if it lands in the  *)
(* state it was last simulated in and nobody else moved the wallet since   *)
(* it was planned.  (engine.rs: attempt, ordinary_plan, submit.)           *)
(***************************************************************************)
LandedWithinBounds ==
    landed # None =>
        /\ landed.plan.route = "flash" /\ landed.plan.internal => landed.earned >= MinProfit
        /\ landed.plan.route = "flash" /\ ~landed.plan.internal =>
            -landed.earned <= MaxDebit /\ landed.collateral >= MinCredit
        /\ /\ landed.plan.route = "emergency"
           /\ chain[landed.at] = chain[landed.checked]
           /\ chain[landed.at].wallet = chain[landed.snap].wallet
           => landed.earned >= MinProfit
=============================================================================
