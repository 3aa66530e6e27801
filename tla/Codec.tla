------------------------------- MODULE Codec --------------------------------
(***************************************************************************)
(* The argument codec of the TypeScript adapter, typescript/packages/      *)
(* dusk-adapter/src/codec.ts, and the reference encoder of its golden      *)
(* vectors in scripts/generate-adapter-codecs.mjs.  The first is a table   *)
(* written by hand, the second walks the argument types of the pinned IDL. *)
(***************************************************************************)
EXTENDS Envelope, IdlTypes

-----------------------------------------------------------------------------
\* codec.ts: the fields of each instruction and their kinds, in the order in
\* which they are written.

OrderFields == << <<"orderId", "u64">> >>

LendingFields ==
    [preview_liquidation_health |-> << <<"debtAsset", "u8">> >>,
     preview_flash_liquidation |->
        << <<"debtAsset", "u8">>, <<"maxRepayment", "u64">>, <<"full", "bool">> >>,
     preview_emergency_liquidation |->
        << <<"debtAsset", "u8">>, <<"collateralDebit", "u64">>, <<"full", "bool">> >>,
     begin_flash_liquidation |->
        << <<"position", "pubkey">>, <<"debtAsset", "u8">>, <<"maxRepayment", "u64">>,
           <<"maxPayment", "u64">>, <<"minCollateralCredit", "u64">>, <<"minBuyerCredit", "u64">>,
           <<"full", "bool">>, <<"settleIndex", "u16">> >>,
     emergency_liquidation |->
        << <<"debtAsset", "u8">>, <<"collateralDebit", "u64">>, <<"full", "bool">>,
           <<"minRewardCredit", "u64">>, <<"minSwapOutput", "u64">> >>,
     settle_flash_liquidation |-> <<>>]

HlpFields ==
    [preview_hlp_flash |-> << <<"targetAsset", "u8">> >>,
     begin_hlp_flash |->
        << <<"targetAsset", "u8">>, <<"maxPayment", "u64">>, <<"allowFull", "bool">>,
           <<"maxSocializedLoss", "u64">>, <<"maxCollateralDebit", "u64">>,
           <<"minCollateralCredit", "u64">>, <<"settleIndex", "u16">> >>,
     settle_hlp_flash |-> <<>>,
     close_insolvent_hlp |->
        << <<"targetAsset", "u8">>, <<"maxSocializedLoss", "u64">>, <<"minCallerBountyOut", "u64">> >>]

JobFields ==
    [initialize_operator_revenue |-> <<>>, execute_operator_change |-> <<>>,
     delegated_close_leverage |->
        << <<"debtAsset", "u8">>, <<"minAmountOut", "u64">>, <<"closeBps", "u16">>,
           <<"beforeIxDataHex", "bytes">>, <<"afterIxDataHex", "bytes">>,
           <<"beforeAccountsLen", "u16">> >>,
     before_take_profit |-> OrderFields, after_close_order |-> OrderFields,
     before_stop_loss |-> OrderFields, execute_hlp_order |-> OrderFields,
     execute_leverage_entry_order |-> OrderFields \o << <<"minOwnerRefundOut", "u64">> >>,
     settle_protocol_auction |->
        << <<"lane", "lane">>, <<"source", "source">>, <<"soldAmount", "u64">>,
           <<"maxPaymentAmount", "u64">> >>]

\* The functions have disjoint domains.
Fields == LendingFields @@ HlpFields @@ JobFields

Variants(kind) == IF kind = "lane" THEN <<"fee", "buyback">> ELSE <<"swap", "interest">>

WidthOf(kind) == CASE kind = "u8" -> 1 [] kind = "u16" -> 2 [] kind = "u64" -> 8

\* What the parser takes for a field of a kind.
Parses(kind, v) ==
    CASE kind \in {"u8", "u16"} -> v.form = "number" /\ Fits(v.n, WidthOf(kind))
      [] kind = "u64" -> v.form = "decimal" /\ Fits(v.n, 8)
      [] kind = "bool" -> v.form = "boolean"
      [] kind = "pubkey" -> v.form = "key" /\ Len(v.bytes) = 32
      [] kind = "bytes" -> v.form = "hex"
      [] kind \in {"lane", "source"} -> v.form = "word" /\ Contains(Variants(kind), v.word)

\* Mutant: the fields that are there are parsed, others are ignored.
ParseLoosely(name, args) ==
    Refuse(name \notin DOMAIN Fields, "unsupported_instruction")
    ++ Refuse(\E f \in ToSet(Fields[name]) : f[1] \notin DOMAIN args \/ ~Parses(f[2], args[f[1]]),
              "invalid_arguments")

\* parseKeeperInstructionArguments: exactly the fields, each of its kind.
Parse(name, args) ==
    Refuse(name \notin DOMAIN Fields, "unsupported_instruction")
    ++ Refuse(DOMAIN args # {f[1] : f \in ToSet(Fields[name])}, "invalid_arguments")
    ++ Refuse(\E f \in ToSet(Fields[name]) : ~Parses(f[2], args[f[1]]), "invalid_arguments")

\* BorshWriter
Written(kind, v) ==
    CASE kind \in {"u8", "u16", "u64"} -> Le(v.n, WidthOf(kind))
      [] kind = "bool" -> <<v.n>>
      [] kind = "pubkey" -> v.bytes
      [] kind = "bytes" -> Vector(v.bytes)
      [] kind \in {"lane", "source"} -> <<CHOOSE i \in 0..1 : Variants(kind)[i + 1] = v.word>>

WrittenFields(name, args) ==
    FlattenSeq([i \in DOMAIN Fields[name] |->
        Written(Fields[name][i][2], args[Fields[name][i][1]])])

\* Whether the contract has the instruction that the key names.
CheckContract(contract, key) ==
    LET spec == contract.instructions[key] IN
    Refuse(key \notin DOMAIN contract.instructions, "contract_mismatch")
    ++ Refuse(spec.program # key[1] \/ spec.name # key[2], "contract_mismatch")
    ++ Refuse(spec.discriminator # AnchorHash[spec.name], "contract_mismatch")

\* encodeKeeperInstructionJson: the arguments are parsed before the contract is
\* looked at.
EncodeJson(contract, key, args) ==
    LET code == Parse(key[2], args) ++ CheckContract(contract, key)
    IN  [code |-> code,
         data |-> IF code = "ok"
                  THEN contract.instructions[key].discriminator \o WrittenFields(key[2], args)
                  ELSE <<>>]

-----------------------------------------------------------------------------
\* generate-adapter-codecs.mjs

\* What the reference takes for a scalar: any decimal string, and the even
\* part of an odd hexadecimal string.
EncodesScalar(kind, v) ==
    CASE kind = "bool" -> v.form = "boolean"
      [] kind = "pubkey" -> v.form = "key" /\ Len(v.bytes) = 32
      [] kind \in {"u8", "u16"} -> v.form = "number" /\ Fits(v.n, WidthOf(kind))
      [] kind = "u64" -> v.form \in {"decimal", "odd_decimal", "number"} /\ Fits(v.n, 8)
      [] kind = "bytes" -> v.form \in {"hex", "odd_hex"}

\* The bytes of a value of a type: a struct's value is a function of its
\* fields.  The set is empty when the value is refused.
RECURSIVE EncodeIdlType(_, _)
EncodeIdlType(type, value) ==
    CASE type.kind = "struct" ->
            LET parts == [i \in DOMAIN type.fields |->
                            EncodeIdlType(type.fields[i][2], value[type.fields[i][1]])]
            IN  IF \/ DOMAIN value # {f[1] : f \in ToSet(type.fields)}
                   \/ \E i \in DOMAIN parts : parts[i] = {}
                THEN {}
                ELSE {FlattenSeq([i \in DOMAIN parts |-> CHOOSE b \in parts[i] : TRUE])}
      [] type.kind = "enum" ->
            {<<i - 1>> : i \in {j \in DOMAIN type.variants : type.variants[j] = value.word}}
      [] OTHER -> IF EncodesScalar(type.kind, value) THEN {Written(type.kind, value)} ELSE {}

\* The IDL's names of the fields.
Snake ==
    [debtAsset |-> "debt_asset", targetAsset |-> "target_asset", position |-> "position",
     maxRepayment |-> "max_repayment", maxPayment |-> "max_payment", full |-> "full",
     collateralDebit |-> "collateral_debit", minCollateralCredit |-> "min_collateral_credit",
     minBuyerCredit |-> "min_buyer_credit", settleIndex |-> "settle_index",
     minRewardCredit |-> "min_reward_credit", minSwapOutput |-> "min_swap_output",
     allowFull |-> "allow_full", maxSocializedLoss |-> "max_socialized_loss",
     maxCollateralDebit |-> "max_collateral_debit",
     minCallerBountyOut |-> "min_caller_bounty_out", minAmountOut |-> "min_amount_out",
     closeBps |-> "close_bps", orderId |-> "order_id", lane |-> "lane", source |-> "source",
     minOwnerRefundOut |-> "min_owner_refund_out", soldAmount |-> "sold_amount",
     maxPaymentAmount |-> "max_payment_amount", beforeIxDataHex |-> "before_ix_data",
     afterIxDataHex |-> "after_ix_data", beforeAccountsLen |-> "before_accounts_len"]

Capital == [fee |-> "Fee", buyback |-> "Buyback", swap |-> "Swap", interest |-> "Interest"]

Renamed(args, names) ==
    [field \in {Snake[n] : n \in names} |->
        LET v == args[CHOOSE n \in names : Snake[n] = field]
        IN  IF v.form # "word" THEN v
            ELSE Word(IF v.word \in DOMAIN Capital THEN Capital[v.word] ELSE "undefined")]

Hooks == {"beforeIxDataHex", "afterIxDataHex", "beforeAccountsLen"}

\* wireToIdlArguments: the arguments by the names of the IDL.  The health and
\* hLP previews take one argument, not a struct of arguments.
WireToIdl(name, args) ==
    CASE Fields[name] = <<>> -> <<>>
      [] name \in {"preview_liquidation_health", "preview_hlp_flash"} ->
            Renamed(args, {Fields[name][1][1]})
      [] name = "delegated_close_leverage" ->
            [args |-> Renamed(args, DOMAIN args \ Hooks) @@ [delegated |-> Renamed(args, Hooks)]]
      [] OTHER -> [args |-> Renamed(args, DOMAIN args)]

\* referenceInstructionData: the discriminator, then the arguments in the order
\* of the IDL.
ReferenceData(contract, idls, key, args) ==
    LET ix == idls[key[1]].instructions[key[2]]
    IN  {contract.instructions[key].discriminator \o body :
            body \in EncodeIdlType(Struct(ix.args), WireToIdl(key[2], args))}
=============================================================================
