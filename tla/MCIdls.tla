------------------------------- MODULE MCIdls --------------------------------
(***************************************************************************)
(* Two versions of the pinned IDLs for model checking, with the accounts,  *)
(* seeds, arguments and types of artifacts/dusk.json and                   *)
(* leverage_delegate.json; the long account lists are cut to what differs. *)
(***************************************************************************)
EXTENDS LiquidationPlan

DuskId == <<"key", "dusk">>
DelegateId == <<"key", "delegate">>
TokenId == <<"key", "token">>
Token22Id == <<"key", "token_2022">>
SystemId == <<"key", "system">>
InstructionsId == <<"key", "instructions">>

K(i) == [j \in 1..32 |-> CASE j = 1 -> i % 8 [] j = 2 -> (i \div 8) % 8 [] OTHER -> 1]

\* The texts of seeds, and hashes of names: eight bytes each.
HashOf(names) ==
    [name \in ToSet(names) |->
        LET i == CHOOSE j \in DOMAIN names : names[j] = name
        IN  <<i % 8, i \div 8, 3, 1, 4, 1, 5, 2>>]

MCText == HashOf(<<"referral_accrual", "leverage_collateral", "futarchy_authority",
    "liquidation-session", "liquidation-payment", "__event_authority", "market_v2",
    "leverage_position", "leverage_order", "operator_revenue", "operator_change", "hlp_order",
    "leverage_entry_order", "hlp-flash-payment">>)

-----------------------------------------------------------------------------
\* Accounts.  Flags: "w" writable, "s" signer, "?" optional.

Acc(name, flags, address, seeds, owner, accounts) ==
    [name |-> name, writable |-> "w" \in flags, signer |-> "s" \in flags,
     optional |-> "?" \in flags, address |-> address, seeds |-> seeds, owner |-> owner,
     accounts |-> accounts]
A(name, flags) == Acc(name, flags, <<>>, <<>>, <<>>, <<>>)
Fixed(name, address) == Acc(name, {}, address, <<>>, <<>>, <<>>)
FromSeeds(name, flags, seeds) == Acc(name, flags, <<>>, seeds, <<>>, <<>>)
Group(accounts) == Acc("accounts", {}, <<>>, <<>>, <<>>, accounts)

T(text) == ConstSeed(MCText[text])
Acct(path) == AccountSeed(path, "")
In(path, type) == AccountSeed(path, type)

EventAuthority == FromSeeds("event_authority", {}, <<T("__event_authority")>>)
DuskEventAuthority ==
    Acc("dusk_event_authority", {}, <<>>, <<T("__event_authority")>>, DuskId, <<>>)
Program == A("program", {})
MarketSeeds == <<T("market_v2"), In(<<"market", "base_side", "asset_mint">>, "Market"),
                 In(<<"market", "quote_side", "asset_mint">>, "Market"),
                 In(<<"market", "params_hash">>, "Market")>>
Futarchy == FromSeeds("futarchy_authority", {}, <<T("futarchy_authority")>>)

LiquidationAccounts(version) ==
    <<FromSeeds("market", {"w"}, MarketSeeds), A("borrow_position", {"w", "?"}),
      A("leverage_position", {"w", "?"}), A("buyer", {"w", "s"}), A("collateral_mint", {}),
      A("debt_mint", {}), A("collateral_vault", {"w"})>>
    \o (IF version = 0 THEN <<A("reserve_vault", {"w"}), A("interest_vault", {"w"})>>
        ELSE <<A("interest_vault", {"w"}), A("reserve_vault", {"w"})>>)
    \o <<A("buyer_collateral_account", {"w"}), A("buyer_refund_account", {"w"}),
         A("owner_debt_account", {"w"}), Futarchy, A("referral_partner", {"?"}),
         A("referral_accrual", {"w", "?"}), Fixed("token_program", TokenId),
         Fixed("token_2022_program", Token22Id), A("debt_token_program", {})>>

Previewed == <<A("market", {}), A("borrow_position", {"?"}), A("leverage_position", {"?"}),
               A("collateral_mint", {}), A("debt_mint", {})>>
HlpVault == FromSeeds("repayment_vault", {"w"}, <<T("hlp-flash-payment"), Acct(<<"session">>)>>)

-----------------------------------------------------------------------------
\* Instructions

Args(fields) == << <<"args", Struct(fields)>> >>
F(name, type) == <<name, Scalar(type)>>
OrderArgs == Args(<<F("order_id", "u64")>>)

Ix(accounts, args) == [accounts |-> accounts, args |-> args]

\* The instructions of a program, with their discriminators.
Hashed(instructions) ==
    [name \in DOMAIN instructions |->
        [discriminator |-> AnchorHash[name]] @@ instructions[name]]

LiquidationIxs(v) ==
    LET group == Group(LiquidationAccounts(v)) IN
    [preview_liquidation_health |->
        Ix(Previewed, <<F("debt_asset", "u8")>>),
     preview_flash_liquidation |->
        Ix(Previewed,
           Args(<<F("debt_asset", "u8"), F("max_repayment", "u64"), F("full", "bool")>>)),
     preview_emergency_liquidation |->
        Ix(Previewed,
           Args(<<F("debt_asset", "u8"), F("collateral_debit", "u64"), F("full", "bool")>>)),
     begin_flash_liquidation |->
        Ix(<<group, FromSeeds("session", {"w"}, <<T("liquidation-session"), ArgSeed(<<"args", "position">>)>>),
             FromSeeds("repayment_vault", {"w"},
                <<T("liquidation-payment"), ArgSeed(<<"args", "position">>),
                  In(<<"accounts", "debt_mint">>, "LiquidationAccounts")>>),
             Fixed("instructions", InstructionsId), Fixed("system_program", SystemId), EventAuthority, Program>>,
           Args(<<F("position", "pubkey"), F("debt_asset", "u8"), F("max_repayment", "u64"),
                  F("max_payment", "u64"), F("min_collateral_credit", "u64"),
                  F("min_buyer_credit", "u64"), F("full", "bool"), F("settle_index", "u16")>>)),
     settle_flash_liquidation |->
        Ix(<<group, FromSeeds("session", {"w"},
                <<T("liquidation-session"), In(<<"session", "position">>, "LiquidationSession")>>),
             A("repayment_vault", {"w"}), A("collateral_reserve_vault", {"w", "?"}),
             Fixed("instructions", InstructionsId),
             EventAuthority, Program>>, <<>>),
     emergency_liquidation |->
        Ix(<<group, A("collateral_reserve_vault", {"w"}), EventAuthority, Program>>,
           Args(<<F("debt_asset", "u8"), F("collateral_debit", "u64"), F("full", "bool"),
                  F("min_reward_credit", "u64"), F("min_swap_output", "u64")>>))]

HlpIxs(v) ==
    [preview_hlp_flash |-> Ix(<<A("market", {})>>, <<F("target_asset", "u8")>>),
     begin_hlp_flash |->
        Ix(<<A("market", {"w"}), A("session", {"w"}), HlpVault, Program>>,
           Args(<<F("target_asset", "u8"), F("max_payment", "u64"), F("allow_full", "bool"),
                  F("max_socialized_loss", "u64"), F("max_collateral_debit", "u64"),
                  F("min_collateral_credit", "u64"), F("settle_index", "u16")>>)),
     settle_hlp_flash |->
        Ix(<<A("market", {"w"}), A("session", {"w"}), HlpVault, Program>>, <<>>),
     close_insolvent_hlp |->
        Ix(<<A("market", {"w"}), A("caller", {"s"}), Program>>,
           Args(<<F("target_asset", "u8"), F("max_socialized_loss", "u64"),
                  F("min_caller_bounty_out", "u64")>>))]

JobIxs(v) ==
    [delegated_close_leverage |->
        Ix(<<A("market", {"w"}), A("position_owner", {"w"}),
             FromSeeds("leverage_position", {"w"},
                <<T("leverage_position"), Acct(<<"market">>),
                  In(<<"leverage_position", "owner">>, "LeveragePosition"),
                  In(<<"leverage_position", "position_id">>, "LeveragePosition")>>),
             A("referral_partner", {"?"}), A("leverage_delegation", {"?"}),
             A("delegated_program", {"?"}), A("authority", {"w", "s"}),
             Fixed("token_program", TokenId), Program>>,
           Args(<<F("debt_asset", "u8"), F("min_amount_out", "u64"), F("close_bps", "u16"),
                  <<"delegated", Struct(<<F("before_ix_data", "bytes"), F("after_ix_data", "bytes"),
                                          F("before_accounts_len", "u16")>>)>> >>)),
     settle_protocol_auction |->
        Ix(<<A("market", {"w"}), A("buyer", {"w", "s"}), Futarchy, EventAuthority, Program>>,
           Args(<< <<"lane", Enum(<<"Fee", "Buyback">>)>>, <<"source", Enum(<<"Swap", "Interest">>)>>,
                   F("sold_amount", "u64"), F("max_payment_amount", "u64")>>)),
     initialize_operator_revenue |->
        Ix(<<A("payer", {"w", "s"}), A("market", {}),
             FromSeeds("revenue", {"w"}, <<T("operator_revenue"), Acct(<<"market">>),
                         In(<<"market", "operator", "revenue_epoch">>, "Market")>>),
             Fixed("system_program", SystemId)>>, <<>>),
     execute_operator_change |->
        Ix(<<A("market", {"w"}),
             FromSeeds("proposal", {"w"}, <<T("operator_change"), Acct(<<"market">>),
                         In(<<"proposal", "nonce">>, "OperatorProposal")>>),
             A("previous_revenue", {"?"}), Program>>, <<>>)]

DelegateIxs(v) ==
    LET position == Acct(<<"leverage_position">>)
        hook(seed) ==
            Ix(<<FromSeeds("order", {"w"},
                    <<T("leverage_order"), seed, In(<<"order", "owner">>, "Order"),
                      ArgSeed(<<"args", "order_id">>)>>),
                 A("leverage_position", {}), A("executor", IF v = 0 THEN {"s"} ELSE {"w", "s"})>>,
               OrderArgs)
        entry(seeds, args) ==
            Ix(<<A("market", {"w"}), FromSeeds("order", {"w"}, seeds), DuskEventAuthority,
                 Fixed("dusk_program", DuskId)>>, args)
    IN  [before_take_profit |-> hook(position),
         before_stop_loss |-> hook(position),
         after_close_order |-> hook(In(<<"order", "position">>, "Order")),
         execute_hlp_order |->
            entry(<<T("hlp_order"), Acct(<<"market">>), In(<<"order", "owner">>, "Order"),
                    In(<<"order", "target_hlp_mint">>, "Order"), ArgSeed(<<"args", "order_id">>)>>,
                  OrderArgs),
         execute_leverage_entry_order |->
            entry(<<T("leverage_entry_order"), Acct(<<"market">>), In(<<"order", "owner">>, "Order"),
                    ArgSeed(<<"args", "order_id">>)>>,
                  Args(<<F("order_id", "u64"), F("min_owner_refund_out", "u64")>>))]

MCAnchorHash == HashOf([i \in DOMAIN InstructionOrder |-> InstructionOrder[i][2]])

-----------------------------------------------------------------------------
\* Types of accounts; the second version has one more field in some.

B(names, type) == [i \in DOMAIN names |-> F(names[i], type)]
Keys(names) == B(names, "pubkey")
Bytes32 == Array(Scalar("u8"), 32)

Types(v) ==
    LET reserves == Struct(<<F("flash_receivable", "u64"), F("live_reserve", "u128")>>)
        side == Struct(<<F("asset_mint", "pubkey"), F("asset_decimals", "u8")>>
                    \o Keys(<<"hlp_mint", "reserve_vault", "collateral_vault", "interest_vault">>)
                    \o << <<"reserves", reserves>> >>)
        hlp == Struct(<<F("srlp_vault", "pubkey"), F("srlp_shares", "u64"), F("debt_shares", "u128"),
                        F("debt_principal", "u64"), F("hlp_supply", "u64"),
                        F("residual_exposure", "i128")>>)
        policy == Struct(<<F("format", "u8")>> \o Keys(<<"provider", "base_account", "quote_account">>)
                    \o << <<"base_feed_id", Bytes32>>, F("lambda_bps", "u16")>>)
        operator == Struct(Keys(<<"authority", "manager">>)
                    \o <<F("epoch", "u64"), F("revenue_epoch", "u64"), F("pending", "pubkey"),
                         F("revenue_recipient", "pubkey")>>)
        auction == Struct(<<F("accepted_mint", "pubkey"),
                            <<"recipients", Struct(Keys(<<"treasury", "staking_vault">>))>>,
                            F("duration_slots", "u64")>>)
    IN  [Market |-> Struct(<< <<"oracle", Struct(<< <<"policy", policy>>, F("revision", "u64")>>)>>,
                F("version", "u8"), F("srlp_mint", "pubkey"), <<"base_side", side>>,
                <<"quote_side", side>>,
                <<"books", Array(Struct(<<F("owed", "u64"), F("paid", "u64")>>), 2)>> >>
                \o (IF v = 0 THEN <<>> ELSE <<F("junior_mint", "pubkey")>>)
                \o << <<"base_hlp_vault", hlp>>, <<"quote_hlp_vault", hlp>>, <<"params_hash", Bytes32>>,
                      <<"operator", operator>>, F("last_update_slot", "u64"), F("reduce_only", "bool")>>),
         BorrowPosition |-> Struct(Keys(<<"owner", "market", "position_id">>)
                \o B(<<"base_collateral", "quote_collateral">>, "u64")
                \o (IF v = 0 THEN <<>> ELSE <<F("base_liquidation_cf_bps", "u16")>>)
                \o Keys(<<"base_referral_partner", "quote_referral_partner">>)
                \o B(<<"fixed_base_shares", "fixed_quote_shares">>, "u128")
                \o <<F("active_liquidation_session", "pubkey"), F("opened_at", "i64")>>),
         LeveragePosition |-> Struct(
                Keys(<<"owner", "market", "namespace_authority", "position_id", "referral_partner">>)
                \o <<F("debt_asset", "u8"), F("collateral_amount", "u64"), F("debt_shares", "u128"),
                     F("active_liquidation_session", "pubkey"), F("bump", "u8")>>),
         FutarchyAuthority |-> Struct(<<F("version", "u8"), F("authority", "pubkey"),
                <<"recipients", Struct(Keys(<<"futarchy_treasury", "team_treasury">>))>>,
                <<"fee_auction", auction>>, <<"buyback_auction", auction>> >>),
         OperatorProposal |-> Struct(<<F("market", "pubkey"), F("operator", "pubkey")>>
                \o B(<<"epoch", "nonce", "policy_version">>, "u64")
                \o << <<"updates", Vec(Scalar("u16"))>>, <<"next_operator", Option(Scalar("pubkey"))>> >>),
         MarketParameterUpdate |->
                Payloads(<< <<Scalar("u64"), Scalar("u16")>>, <<Scalar("u16")>>, <<>> >>),
         Order |-> Struct(Keys(<<"position", "owner", "target_hlp_mint">>)
                          \o <<F("order_id", "u64")>>),
         LiquidationSession |-> Struct(Keys(<<"position", "buyer">>))]

MCAccountHash == HashOf(<<"Market", "BorrowPosition", "LeveragePosition", "FutarchyAuthority",
                          "OperatorProposal">>)

IdlWith(v, types, hashed(_)) ==
    [dusk |-> [address |-> DuskId, types |-> types,
               instructions |-> hashed(LiquidationIxs(v) @@ HlpIxs(v) @@ JobIxs(v))],
     leverage_delegate |-> [address |-> DelegateId, types |-> types,
                            instructions |-> hashed(DelegateIxs(v))]]

Idl(v) == IdlWith(v, Types(v), Hashed)
=============================================================================
