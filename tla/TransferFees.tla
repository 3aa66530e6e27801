---------------------------- MODULE TransferFees ----------------------------
(***************************************************************************)
(* The reader of announced transfer fees, typescript/packages/dusk-adapter *)
(* /src/transfer-fees.ts (its twin is rust/crates/dusk-adapter/src/        *)
(* transfer_fees.rs), beside the token program whose fee authority may     *)
(* announce, replace or cancel a fee at any time.                          *)
(*                                                                         *)
(* Abstractions: a mint account is what its bytes decide: its owner,       *)
(* whether it has an extension area, how many fee configurations are in it *)
(* and whether its records are intact.  The rate is a fraction of Scale,   *)
(* 10000 in the code.                                                      *)
(***************************************************************************)
EXTENDS Integers

CONSTANTS
    Scale,      \* the denominator of a rate
    Rates,      \* rates that the authority may announce
    Maxima,     \* caps that it may announce
    Amounts,    \* gross amounts that are valued
    Mints,      \* the shapes a mint account may have
    MaxEpoch,   \* bound: epochs
    MaxSlot,    \* bound: slots
    None        \* no fee configuration; no valuation

ASSUME FeeAssumption ==
    /\ Scale \in Nat \ {0} /\ Rates \subseteq 0..Scale
    /\ Maxima \subseteq Nat /\ Amounts \subseteq Nat /\ MaxEpoch \in Nat /\ MaxSlot \in Nat

Fee == [epoch : Nat, bps : Rates, maximum : Maxima]
FeeSchedule == [older : Fee, newer : Fee]
Mint == [owner : {"token", "token_2022", "other"}, extended : BOOLEAN,
         configs : Nat, intact : BOOLEAN]
Clock == [slot : Nat, epoch : Nat]
Modes == {"effective", "admission", "liquidation"}

ASSUME MintAssumption ==
    /\ Mints \subseteq Mint
    /\ None \notin FeeSchedule /\ None \notin [Modes \cup {"gross", "epoch", "reset"} -> Int]

VARIABLES
    mint,       \* the shape of the mint account
    schedule,   \* the schedule in its fee configuration
    clock,      \* the Clock account of the bank
    stale,      \* the Clock account before its last change
    quote       \* a valuation somebody relies on, or None

vars == <<mint, schedule, clock, stale, quote>>

-----------------------------------------------------------------------------
\* The reader

\* decodeMintFees: the schedule in a mint account, None without one; the empty
\* set when the account is refused.
DecodeMintFees(m, s) ==
    IF \/ m.owner = "other" \/ ~m.intact
       \/ m.extended /\ (m.owner = "token" \/ m.configs > 1)
    THEN {}
    ELSE {IF m.extended /\ m.configs = 1 THEN s ELSE None}

\* decodeClockEpoch
DecodeClockEpoch(c, slot) == IF c.slot = slot THEN {c.epoch} ELSE {}

FeePhase(s, epoch) ==
    CASE s = None -> "none"
      [] s # None /\ s.newer.epoch <= epoch -> "none"
      [] s # None /\ s.newer.epoch = epoch + 1 -> "finalNotice"
      [] s # None /\ s.newer.epoch > epoch + 1 -> "notice"

\* What the receiver is credited under one fee: the rate rounds up, capped.
CreditUnder(fee, gross) ==
    LET rounded == (gross * fee.bps + Scale - 1) \div Scale
    IN  gross - (IF rounded < fee.maximum THEN rounded ELSE fee.maximum)

\* Mutant: a pending fee counts for a liquidation only once it is in force.
CreditCurrent(s, epoch, gross, mode) ==
    IF s = None THEN gross
    ELSE LET phase   == FeePhase(s, epoch)
             current == CreditUnder(IF phase = "none" THEN s.newer ELSE s.older, gross)
             future  == CreditUnder(s.newer, gross)
         IN  IF phase # "none" /\ mode = "admission" /\ future < current
             THEN future ELSE current

FeeCredit(s, epoch, gross, mode) ==
    IF s = None THEN gross
    ELSE LET phase   == FeePhase(s, epoch)
             current == CreditUnder(IF phase = "none" THEN s.newer ELSE s.older, gross)
             future  == CreditUnder(s.newer, gross)
             worse   == \/ mode = "admission" /\ phase # "none"
                        \/ mode = "liquidation" /\ phase = "finalNotice"
         IN  IF worse /\ future < current THEN future ELSE current

-----------------------------------------------------------------------------
Init ==
    /\ mint \in Mints
    /\ schedule \in {[older |-> f, newer |-> f] : f \in [epoch : {0}, bps : Rates, maximum : Maxima]}
    /\ clock = [slot |-> 0, epoch |-> 0] /\ stale = clock
    /\ quote = None

\* A slot passes, in the same epoch or into the next one.
Tick(epoch) ==
    /\ epoch \in {clock.epoch, clock.epoch + 1} /\ epoch <= MaxEpoch /\ clock.slot < MaxSlot
    /\ clock' = [slot |-> clock.slot + 1, epoch |-> epoch] /\ stale' = clock
    /\ UNCHANGED <<mint, schedule, quote>>

\* The token program takes a new fee two epochs ahead.  A pending one is
\* replaced; one that is in force becomes the older one.
SetTransferFee(bps, maximum) ==
    /\ schedule' = [older |-> IF schedule.newer.epoch <= clock.epoch
                              THEN schedule.newer ELSE schedule.older,
                    newer |-> [epoch |-> clock.epoch + 2, bps |-> bps, maximum |-> maximum]]
    /\ quote' = IF quote = None THEN None ELSE [quote EXCEPT !.reset = 1]
    /\ UNCHANGED <<mint, clock, stale>>

\* A reader values an amount with a mint and a Clock account; the Clock may be
\* the one of an earlier snapshot.
Value(gross, c) ==
    /\ quote = None
    /\ \E s \in DecodeMintFees(mint, schedule), e \in DecodeClockEpoch(c, clock.slot) :
        quote' = [gross |-> gross, epoch |-> clock.epoch, reset |-> 0,
                  effective |-> FeeCredit(s, e, gross, "effective"),
                  admission |-> FeeCredit(s, e, gross, "admission"),
                  liquidation |-> FeeCredit(s, e, gross, "liquidation")]
    /\ UNCHANGED <<mint, schedule, clock, stale>>

Next ==
    \/ \E e \in 0..MaxEpoch : Tick(e)
    \/ \E b \in Rates, m \in Maxima : SetTransferFee(b, m)
    \/ \E g \in Amounts, c \in {clock, stale} : Value(g, c)

Spec == Init /\ [][Next]_vars
-----------------------------------------------------------------------------
\* Properties

TypeOK ==
    /\ mint \in Mint /\ schedule \in FeeSchedule /\ clock \in Clock /\ stale \in Clock
    /\ quote \in [Modes \cup {"gross", "epoch", "reset"} -> Int] \cup {None}

\* What a transfer of the valued amount is credited in an epoch: the fee then
\* in force, if the mint has a fee configuration at all.
Charges == mint.extended /\ mint.configs = 1
InForce(epoch) == IF schedule.newer.epoch <= epoch THEN schedule.newer ELSE schedule.older
Credited(gross) == IF Charges THEN CreditUnder(InForce(clock.epoch), gross) ELSE gross

(***************************************************************************)
(* A valuation is kept, whatever the fee authority announces, replaces or  *)
(* cancels afterwards: a transfer in the epoch of the valuation or in the  *)
(* next one is credited at least what a liquidation was valued at, and     *)
(* while the authority leaves the schedule alone every later transfer is   *)
(* credited at least the admission value.  (The table in                   *)
(* docs/transfer-fee-notice.md; the code is feeCredit.)                    *)
(***************************************************************************)
ValuationKept ==
    quote # None =>
        /\ clock.epoch <= quote.epoch + 1 => quote.liquidation <= Credited(quote.gross)
        /\ quote.reset = 0 => quote.admission <= Credited(quote.gross)
=============================================================================
