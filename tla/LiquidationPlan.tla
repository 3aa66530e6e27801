--------------------------- MODULE LiquidationPlan ---------------------------
(***************************************************************************)
(* The atomic liquidation plans of the TypeScript adapter, typescript/     *)
(* packages/dusk-adapter/src/liquidation.ts: from a snapshot of the bank   *)
(* and a quote to the instructions of one transaction, that begins a flash *)
(* liquidation and settles it at an index it names.                        *)
(*                                                                         *)
(* A public key is its 32 bytes; KeyOf is its address.  A snapshot maps a  *)
(* key to its account, [owner, executable, data, mint]; "mint" is whether  *)
(* decodeMintFees takes it (module TransferFees), and the Clock account    *)
(* holds its slot.  An operation returns the set of its result, empty when *)
(* it throws.                                                              *)
(***************************************************************************)
EXTENDS AccountLayout, Codec

CONSTANTS
    ClockKey,       \* the key of the Clock account
    AtaProgram,     \* the address of the program of token accounts
    ProgramKey,     \* the keys of the token programs, by address
    Text            \* the bytes of the seeds that are text in the code

KeyOf(bytes) == <<"key", ToString(bytes)>>
Zero == [i \in 1..32 |-> 0]

-----------------------------------------------------------------------------
\* resolveLiquidationAccounts

Sides(debtAsset) == IF debtAsset = 0 THEN <<"base", "quote">> ELSE <<"quote", "base">>
SideOf(asset) == IF asset = "base" THEN "base_side" ELSE "quote_side"
VaultOf(asset) == IF asset = "base" THEN "base_hlp_vault" ELSE "quote_hlp_vault"

Usable(snapshot, key) == key \in DOMAIN snapshot.accounts /\ ~snapshot.accounts[key].executable

OwnedBy(snapshot, key, owner) == Usable(snapshot, key) /\ snapshot.accounts[key].owner = owner

\* The accounts that the oracle policy calls for, in a set that is empty when
\* the policy is refused.
OracleAccounts(layout, mdata) ==
    LET int(path) == IntField(layout, "Market", mdata, path)
        key(path) == KeyField(layout, "Market", mdata, path)
        weight == int(<<"oracle", "policy", "lambda_bps">>)
        format == int(<<"oracle", "policy", "format">>)
        base   == key(<<"oracle", "policy", "base_account">>)
        quote  == key(<<"oracle", "policy", "quote_account">>)
        paired == format \in {2, 4}
    IN  IF weight = 0 THEN {<<>>}
        ELSE IF \/ weight >= Everything \/ format \notin 1..4 \/ base = Zero
                \/ paired /\ quote \in {Zero, base}
        THEN {}
        ELSE {IF paired THEN <<base, quote>> ELSE <<base>>}

Pda(layout, seeds) == FindProgramAddress(seeds, layout.id).address
AtaOf(owner, mint, token) == FindProgramAddress(<<owner, ProgramKey[token], mint>>, AtaProgram).address

\* What the position says about its referral partner.
Referral(partner, market, debtMint, layout) ==
    IF partner = Zero THEN <<>>
    ELSE [referral_partner |-> KeyOf(partner),
          referral_accrual |-> Pda(layout, <<Text["referral_accrual"], partner, market, debtMint>>)]

\* The hLP accounts, when a vault has supply or exposure.
HlpAccounts(layout, mdata) ==
    LET int(path) == IntField(layout, "Market", mdata, path)
        key(path) == KeyField(layout, "Market", mdata, path)
    IN
    IF \A asset \in {"base", "quote"}, f \in {"hlp_supply", "residual_exposure"} :
        int(<<VaultOf(asset), f>>) = 0
    THEN <<>>
    ELSE <<key(<<"srlp_mint">>), key(<<"base_hlp_vault", "srlp_vault">>),
           key(<<"quote_hlp_vault", "srlp_vault">>), key(<<"base_side", "interest_vault">>),
           key(<<"quote_side", "interest_vault">>)>>

\* Once the position and the market have been read.
NamedAccounts(layout, snapshot, position, buyer, kind, debtAsset) ==
    LET pdata == snapshot.accounts[position].data
        p(path) == KeyField(layout, kind, pdata, path)
        market == p(<<"market">>)
        mdata == snapshot.accounts[market].data
        m(path) == KeyField(layout, "Market", mdata, path)
        leverage == kind = "LeveragePosition"
        debt == Sides(debtAsset)[1]
        collateral == Sides(debtAsset)[2]
        debtMint == m(<<SideOf(debt), "asset_mint">>)
        collateralMint == m(<<SideOf(collateral), "asset_mint">>)
        mint(key) == snapshot.accounts[key]
        partner == p(IF leverage THEN <<"referral_partner">>
                     ELSE IF debt = "base" THEN <<"base_referral_partner">>
                     ELSE <<"quote_referral_partner">>)
        named ==
            [market |-> KeyOf(market), buyer |-> KeyOf(buyer),
             collateral_mint |-> KeyOf(collateralMint), debt_mint |-> KeyOf(debtMint),
             collateral_vault |->
                IF leverage THEN Pda(layout, <<Text["leverage_collateral"], market, collateralMint>>)
                ELSE KeyOf(m(<<SideOf(collateral), "collateral_vault">>)),
             reserve_vault |-> KeyOf(m(<<SideOf(debt), "reserve_vault">>)),
             interest_vault |-> KeyOf(m(<<SideOf(debt), "interest_vault">>)),
             buyer_collateral_account |-> AtaOf(buyer, collateralMint, mint(collateralMint).owner),
             buyer_refund_account |-> AtaOf(buyer, debtMint, mint(debtMint).owner),
             owner_debt_account |-> AtaOf(p(<<"owner">>), debtMint, mint(debtMint).owner),
             debt_token_program |-> mint(debtMint).owner,
             futarchy_authority |-> Pda(layout, <<Text["futarchy_authority"]>>),
             session |-> Pda(layout, <<Text["liquidation-session"], position>>),
             repayment_vault |-> Pda(layout, <<Text["liquidation-payment"], position, debtMint>>),
             event_authority |-> Pda(layout, <<Text["__event_authority"]>>),
             program |-> layout.id]
            @@ [f \in {IF leverage THEN "leverage_position" ELSE "borrow_position"} |-> KeyOf(position)]
            @@ Referral(partner, market, debtMint, layout)
    IN  IF \/ ~Usable(snapshot, debtMint) \/ ~Usable(snapshot, collateralMint)
           \/ ~mint(debtMint).mint \/ ~mint(collateralMint).mint
           \/ ~Usable(snapshot, ClockKey)
           \/ LeValue(mint(ClockKey).data) # snapshot.slot
        THEN {}
        ELSE {[named |-> named, hlp |-> HlpAccounts(layout, mdata), oracle |-> oracle,
               reserve |-> KeyOf(m(<<SideOf(collateral), "reserve_vault">>)),
               id |-> layout.id, position |-> position, debtAsset |-> debtAsset] :
                 oracle \in OracleAccounts(layout, mdata)}

\* A position of another side, or one that a session holds, is refused.
ResolveLiquidationAccounts(layout, snapshot, position, buyer, kind, debtAsset) ==
    LET pdata == snapshot.accounts[position].data
        market == KeyField(layout, kind, pdata, <<"market">>)
    IN  IF /\ debtAsset \in {0, 1}
           /\ OwnedBy(snapshot, position, layout.id) /\ Readable(layout, kind, pdata)
           /\ OwnedBy(snapshot, market, layout.id)
           /\ Readable(layout, "Market", snapshot.accounts[market].data)
           /\ kind = "LeveragePosition" =>
                IntField(layout, kind, pdata, <<"debt_asset">>) = debtAsset
           /\ KeyField(layout, kind, pdata, <<"active_liquidation_session">>) = Zero
        THEN NamedAccounts(layout, snapshot, position, buyer, kind, debtAsset)
        ELSE {}

-----------------------------------------------------------------------------
\* The instructions

Meta(address, signer, writable) == [address |-> address, signer |-> signer, writable |-> writable]

\* An optional account that has no address is the program, without its flags.
Listed(spec, context, named, account) ==
    LET found == IF account.name \in DOMAIN named THEN named[account.name] ELSE account.fixed
    IN  IF found = <<>> THEN Meta(context.id, FALSE, FALSE)
        ELSE Meta(found, account.signer, account.writable)

LiquidationInstruction(contract, context, name, args, internal) ==
    LET key == <<"dusk", name>>
        spec == contract.instructions[key]
        named == IF internal THEN [collateral_reserve_vault |-> context.reserve] @@ context.named
                 ELSE context.named
        encoded == EncodeJson(contract, key, args)
        known(a) == a.name \in DOMAIN named \/ a.fixed # <<>>
        readonly(k) == Meta(KeyOf(k), FALSE, FALSE)
        hlp == [i \in DOMAIN context.hlp |-> Meta(KeyOf(context.hlp[i]), FALSE, TRUE)]
    IN  IF \/ key \notin DOMAIN contract.instructions \/ spec.id # context.id
           \/ \E a \in ToSet(spec.accounts) : ~known(a) /\ ~a.optional
           \/ encoded.code # "ok"
        THEN {}
        ELSE {[name |-> name, id |-> context.id, data |-> encoded.data,
               accounts |-> [i \in DOMAIN spec.accounts |->
                                Listed(spec, context, named, spec.accounts[i])]
                            \o (IF internal THEN hlp ELSE <<>>)
                            \o [i \in DOMAIN context.oracle |-> readonly(context.oracle[i])]]}

\* The compute budget: two instructions of another program.
LiquidationResources ==
    [i \in 1..2 |-> [name |-> "compute_budget", id |-> <<"key", "compute budget">>,
                     data |-> <<i>>, accounts |-> <<>>]]

-----------------------------------------------------------------------------
\* The return data of a preview: integers of these widths in this order, a
\* boolean being one byte.

Health(name) == << <<name, "collateralValue", 8>>, <<name, "debt", 8>>, <<name, "maintenanceBps", 2>> >>
FeeFields == << <<"fee", "total", 8>>, <<"fee", "protocol", 8>>, <<"fee", "junior", 8>> >>
RateFields == << <<"rates", "buyerDiscountBps", 2>>, <<"rates", "emergencyRewardBps", 2>> >>

FlashQuote ==
    << <<"", "full", 1>>, <<"", "collateralDebit", 8>>, <<"", "collateralCredit", 8>>,
       <<"", "payment", 8>>, <<"", "repayment", 8>>, <<"", "ownerSurplus", 8>> >>
    \o FeeFields \o << <<"", "debtSharesToBurn", 16>> >>
    \o Health("healthBefore") \o Health("healthAfter") \o RateFields

EmergencyQuote ==
    << <<"", "referencePriceNad", 8>>, <<"", "referenceDepthNad", 16>>, <<"", "full", 1>>,
       <<"", "collateralDebit", 8>>, <<"", "collateralCredit", 8>>, <<"", "swapOutput", 8>>,
       <<"", "repayment", 8>>, <<"", "sharesToBurn", 16>>, <<"", "rewardCredit", 8>>,
       <<"", "rewardDebit", 8>> >>
    \o FeeFields
    \o << <<"", "juniorFeeDebit", 8>>, <<"", "revenueFeeDebit", 8>>, <<"", "ownerDebit", 8>>,
          <<"", "ownerCredit", 8>>, <<"loss", "principalRepaid", 8>>, <<"loss", "interestPaid", 8>>,
          <<"loss", "principalWrittenOff", 8>>, <<"loss", "interestCanceled", 8>>,
          <<"loss", "surplus", 8>> >>
    \o Health("healthBefore") \o Health("healthAfter") \o RateFields

\* decodeLiquidationQuote
DecodeQuote(kind, data) ==
    LET fields == IF kind = "flash" THEN FlashQuote ELSE EmergencyQuote
        start[i \in 1..Len(fields) + 1] == IF i = 1 THEN 0 ELSE start[i - 1] + fields[i - 1][3]
        at(i) == LeValue(SubSeq(data, start[i] + 1, start[i] + fields[i][3]))
        index == [f \in {<<fields[i][1], fields[i][2]>> : i \in DOMAIN fields} |->
                    CHOOSE i \in DOMAIN fields : <<fields[i][1], fields[i][2]>> = f]
    IN  IF Len(data) # start[Len(fields) + 1] \/ at(index[<<"", "full">>]) > 1 THEN {}
        ELSE {[f \in DOMAIN index |-> at(index[f])]}

-----------------------------------------------------------------------------
\* The plans

Quoted(quote, field) == quote[<<"", field>>]
FullOf(quote) == Bool(Quoted(quote, "full") = 1)

\* Mutant: the index is that of the instruction in front of the settlement.
SettleIndexShort(prefix, route) == Len(prefix) + Len(route)

\* The index of the settlement, from zero.
SettleIndex(prefix, route) == Len(prefix) + 1 + Len(route)

BeginArguments(context, quote, maxRepayment, minBuyerCredit, settleIndex) ==
    [position |-> Key(context.position), debtAsset |-> Number(context.debtAsset),
     maxRepayment |-> Decimal(maxRepayment), maxPayment |-> Decimal(Quoted(quote, "payment")),
     minCollateralCredit |-> Decimal(Quoted(quote, "collateralCredit")),
     minBuyerCredit |-> Decimal(minBuyerCredit), full |-> FullOf(quote),
     settleIndex |-> Number(settleIndex)]

\* The options are what goes in front, the route, whether the settlement is
\* internal and what the buyer must be credited.  An internal one has no route.
BuildFlashPlan(contract, context, quote, maxRepayment, prefix, route, internal, minBuyerCredit) ==
    LET index == SettleIndex(prefix, route)
        credit == IF internal THEN minBuyerCredit ELSE 0
        begin == LiquidationInstruction(contract, context, "begin_flash_liquidation",
                    BeginArguments(context, quote, maxRepayment, credit, index), FALSE)
        settle == LiquidationInstruction(contract, context, "settle_flash_liquidation", <<>>, internal)
    IN  IF (internal /\ route # <<>>) \/ ~Fits(index, 2) THEN {}
        ELSE {prefix \o <<b>> \o route \o <<s>> : b \in begin, s \in settle}

BuildEmergencyPlan(contract, context, quote) ==
    {LiquidationResources \o <<ix>> :
        ix \in LiquidationInstruction(contract, context, "emergency_liquidation",
            [debtAsset |-> Number(context.debtAsset),
             collateralDebit |-> Decimal(Quoted(quote, "collateralDebit")), full |-> FullOf(quote),
             minRewardCredit |-> Decimal(Quoted(quote, "rewardCredit")),
             minSwapOutput |-> Decimal(Quoted(quote, "swapOutput"))], TRUE)}
=============================================================================
