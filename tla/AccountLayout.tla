---------------------------- MODULE AccountLayout ----------------------------
(***************************************************************************)
(* Fields of accounts that are read by their offset: the layout that       *)
(* scripts/generate-account-layout.mjs computes from the types of the      *)
(* pinned IDL, and the reader of it in                                     *)
(* typescript/packages/dusk-adapter/src/liquidation.ts.                    *)
(*                                                                         *)
(* A type is written out: a named type of the IDL is the type it names.    *)
(* A path is the sequence of its names.                                    *)
(***************************************************************************)
EXTENDS Resolution

CONSTANT AccountHash    \* the first 8 bytes of sha256("account:<name>"), by name

Array(inner, count) == [kind |-> "array", inner |-> inner, count |-> count]
Option(inner) == [kind |-> "option", inner |-> inner]
Vec(inner) == [kind |-> "vec", inner |-> inner]
\* An enum whose variants carry data: a sequence of sequences of types.
Payloads(variants) == [kind |-> "payloads", variants |-> variants]

-----------------------------------------------------------------------------
\* The generator

BorrowPositionFields ==
    << <<"owner">>, <<"market">>, <<"position_id">>, <<"base_collateral">>, <<"quote_collateral">>,
       <<"base_referral_partner">>, <<"quote_referral_partner">>, <<"fixed_base_shares">>,
       <<"fixed_quote_shares">>, <<"active_liquidation_session">> >>

Sided(names) == FlattenSeq([i \in DOMAIN names |->
    << <<"base_side">> \o names[i], <<"quote_side">> \o names[i] >>])
Vaulted(names) == FlattenSeq([i \in DOMAIN names |->
    << <<"base_hlp_vault">> \o names[i], <<"quote_hlp_vault">> \o names[i] >>])

MarketFields ==
    << <<"oracle", "policy", "format">>, <<"oracle", "policy", "lambda_bps">>,
       <<"oracle", "policy", "base_account">>, <<"oracle", "policy", "quote_account">>,
       <<"srlp_mint">>, <<"params_hash">>, <<"last_update_slot">> >>
    \o Sided(<< <<"hlp_mint">>, <<"asset_mint">>, <<"asset_decimals">>, <<"reserve_vault">>,
                <<"collateral_vault">>, <<"interest_vault">>, <<"reserves", "live_reserve">> >>)
    \o Vaulted(<< <<"srlp_vault">>, <<"hlp_supply">>, <<"srlp_shares">>, <<"debt_principal">>,
                  <<"debt_shares">>, <<"residual_exposure">> >>)
    \o << <<"operator", "authority">>, <<"operator", "manager">>, <<"operator", "epoch">>,
          <<"operator", "pending">>, <<"operator", "revenue_epoch">>,
          <<"operator", "revenue_recipient">> >>

LeveragePositionFields ==
    << <<"owner">>, <<"market">>, <<"position_id">>, <<"debt_asset">>, <<"namespace_authority">>,
       <<"referral_partner">>, <<"collateral_amount">>, <<"debt_shares">>,
       <<"active_liquidation_session">> >>

Auctioned(auction) ==
    << <<auction, "accepted_mint">>, <<auction, "recipients", "treasury">>,
       <<auction, "recipients", "staking_vault">> >>

\* The dusk accounts; the order accounts are flat lists of the same kind.
Wanted ==
    [BorrowPosition |-> BorrowPositionFields, Market |-> MarketFields,
     LeveragePosition |-> LeveragePositionFields,
     FutarchyAuthority |-> << <<"recipients", "futarchy_treasury">> >>
                           \o Auctioned("fee_auction") \o Auctioned("buyback_auction"),
     OperatorProposal |-> << <<"market">>, <<"operator">>, <<"epoch">>, <<"nonce">>,
                             <<"policy_version">> >>]

PrimitiveSize ==
    [bool |-> 1, i8 |-> 1, i16 |-> 2, i32 |-> 4, i64 |-> 8, i128 |-> 16, pubkey |-> 32,
     u8 |-> 1, u16 |-> 2, u32 |-> 4, u64 |-> 8, u128 |-> 16]

Total(sizes) ==
    LET upTo[i \in 0..Len(sizes)] == IF i = 0 THEN 0 ELSE upTo[i - 1] + sizes[i]
    IN  upTo[Len(sizes)]

\* The size of a type, in a set that is empty when it has no fixed size.
RECURSIVE SizeOf(_)
SizeOf(type) ==
    CASE type.kind = "struct" ->
            LET sizes == [i \in DOMAIN type.fields |-> SizeOf(type.fields[i][2])]
            IN  IF \E i \in DOMAIN sizes : sizes[i] = {} THEN {}
                ELSE {Total([i \in DOMAIN sizes |-> CHOOSE n \in sizes[i] : TRUE])}
      [] type.kind = "array" -> {n * type.count : n \in SizeOf(type.inner)}
      [] type.kind = "enum" -> {1}
      [] type.kind = "payloads" ->
            IF \A i \in DOMAIN type.variants : type.variants[i] = <<>> THEN {1} ELSE {}
      [] type.kind \in {"option", "vec"} -> {}
      [] OTHER -> {PrimitiveSize[k] : k \in {type.kind} \cap DOMAIN PrimitiveSize}

\* The older name of a field: the code replaces srlp by ylp.
Older(name) ==
    CASE name = "srlp_mint" -> "ylp_mint" [] name = "srlp_vault" -> "ylp_vault"
      [] name = "srlp_shares" -> "ylp_shares" [] OTHER -> name

\* Mutant: a field in front of the one looked for counts as eight bytes.
StepPathEight(places, name) ==
    UNION {LET fields == place.type.fields
               hits == {i \in DOMAIN fields : fields[i][1] \in {name, Older(name)}}
               hit == CHOOSE i \in hits : \A j \in hits : i <= j
               front == SubSeq(fields, 1, hit - 1)
           IN  IF hits = {} THEN {}
               ELSE {[offset |-> place.offset + 8 * Len(front), type |-> fields[hit][2]]} :
           place \in places}

\* One name of a path: the offset moves past the fields in front of it.
StepPath(places, name) ==
    UNION {LET fields == place.type.fields
               hits == {i \in DOMAIN fields : fields[i][1] \in {name, Older(name)}}
               hit == CHOOSE i \in hits : \A j \in hits : i <= j
           IN  IF place.type.kind # "struct" \/ hits = {} THEN {}
               ELSE {[offset |-> place.offset + front, type |-> fields[hit][2]] :
                        front \in SizeOf(Struct(SubSeq(fields, 1, hit - 1)))} :
           place \in places}

\* The place of a field, past the discriminator; an empty set when it has no
\* fixed one.
Locate(type, path) ==
    UNION {{[path |-> path, offset |-> place.offset, size |-> size] : size \in SizeOf(place.type)} :
           place \in FoldLeft(StepPath, {[offset |-> 8, type |-> type]}, path)}

\* Where the updates of a proposal begin, and the size of each update's payload.
Updates(types) ==
    [at |-> CHOOSE n \in {place.offset : place \in
                StepPath({[offset |-> 8, type |-> types["OperatorProposal"]]}, "updates")} : TRUE,
     sizes |-> [i \in DOMAIN types["MarketParameterUpdate"].variants |->
        Total([j \in DOMAIN types["MarketParameterUpdate"].variants[i] |->
            CHOOSE n \in SizeOf(types["MarketParameterUpdate"].variants[i][j]) : TRUE])]]

\* The size of an account, 0 when it has no single one, and the least size its
\* fields need.
LayoutOf(name, type, paths) ==
    LET fields == [i \in DOMAIN paths |-> CHOOSE f \in Locate(type, paths[i]) : TRUE]
        ends == {fields[i].offset + fields[i].size : i \in DOMAIN fields}
        exact == {8 + n : n \in SizeOf(type)}
    IN  [name |-> name, exact |-> IF exact = {} THEN 0 ELSE CHOOSE n \in exact : TRUE,
         least |-> IF exact = {} THEN CHOOSE e \in ends : \A d \in ends : d <= e ELSE 0,
         fields |-> fields]

\* build: the layout, in a set that is empty when a field cannot be placed.
BuildLayout(program, types, wanted) ==
    IF \A name \in DOMAIN wanted :
        name \in DOMAIN types /\ \A p \in ToSet(wanted[name]) : Locate(types[name], p) # {}
    THEN {[id |-> program,
           accounts |-> [name \in DOMAIN wanted |-> LayoutOf(name, types[name], wanted[name])],
           dynamic |-> IF "OperatorProposal" \in DOMAIN wanted THEN {Updates(types)} ELSE {}]}
    ELSE {}

-----------------------------------------------------------------------------
\* The reader in liquidation.ts

\* Whether the account may be read: its size and its discriminator.
Readable(layout, name, data) ==
    /\ name \in DOMAIN layout.accounts /\ layout.accounts[name].exact = Len(data)
    /\ SubSeq(data, 1, 8) = AccountHash[name]

Field(layout, name, data, path) ==
    LET f == CHOOSE g \in ToSet(layout.accounts[name].fields) :
                g.path = path \/ g.path = [i \in DOMAIN path |-> Older(path[i])]
    IN  SubSeq(data, f.offset + 1, f.offset + f.size)

KeyField(layout, name, data, path) == Field(layout, name, data, path)
IntField(layout, name, data, path) == LeValue(Field(layout, name, data, path))

-----------------------------------------------------------------------------
\* The reference: an account is the discriminator, then its fields one after
\* the other, each in its width.  A value of a struct is a function of its
\* fields, and one of an enum with payloads is <<variant, bytes>>.
RECURSIVE Serialized(_, _)
Serialized(type, value) ==
    CASE type.kind = "struct" ->
            FlattenSeq([i \in DOMAIN type.fields |->
                Serialized(type.fields[i][2], value[type.fields[i][1]])])
      [] type.kind = "pubkey" -> value
      [] type.kind = "array" -> value
      [] type.kind = "payloads" -> <<value[1]>> \o value[2]
      [] type.kind = "vec" ->
            U32(Len(value)) \o FlattenSeq([i \in DOMAIN value |-> Serialized(type.inner, value[i])])
      [] type.kind = "option" -> IF value = <<>> THEN <<0>> ELSE <<1>> \o value
      [] type.kind \in {"bool", "enum"} -> <<value>>
      [] OTHER -> Le(value, PrimitiveSize[type.kind])

\* The value at a path, by the names of the type.
ValueAt(type, value, path) ==
    FoldLeft(LAMBDA place, name :
                LET i == CHOOSE j \in DOMAIN place.type.fields :
                            place.type.fields[j][1] \in {name, Older(name)}
                IN  [type |-> place.type.fields[i][2], value |-> place.value[place.type.fields[i][1]]],
             [type |-> type, value |-> value], path)
=============================================================================
