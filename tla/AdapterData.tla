----------------------------- MODULE AdapterData -----------------------------
(***************************************************************************)
(* What the calls of the adapter make of data: arguments encoded, accounts *)
(* read, liquidations planned.  The references here are recursive over     *)
(* the types of the IDL.                                                   *)
(***************************************************************************)
EXTENDS Adapter, Codec, LiquidationPlan

LayoutOfIdl(dusk) == Only(BuildLayout(dusk.address, dusk.types, Wanted))
LayoutFor(l) == LayoutOfIdl(IdlsOf[l]["dusk"])

-----------------------------------------------------------------------------
\* Properties of the codec

\* Canonical: no sign, no leading zero, whole bytes, and no numbers of 64 bits.
Canonical(name, args) ==
    \A f \in ToSet(Fields[name]) :
        args[f[1]].form \notin {"odd_decimal", "odd_hex"} \cup (IF f[2] = "u64" THEN {"number"} ELSE {})

(***************************************************************************)
(* The codec written by hand encodes the arguments that the pinned IDL     *)
(* describes, in canonical form, and no others, to the bytes of the        *)
(* reference that walks the IDL; and the hooks embedded in a delegated     *)
(* close are read back by the validator as they were put in (codec.ts      *)
(* 152-606, generate-adapter-codecs.mjs 275-519, envelope.ts 475-504).     *)
(***************************************************************************)
CodecMatchesIdl ==
    work.kind = "encode" =>
        LET contract == Contracts[live.made]
            made == EncodeJson(contract, work.key, work.args)
            known == work.key \in DOMAIN contract.instructions /\ work.key[2] \in DOMAIN Fields
            complete == known /\ DOMAIN work.args = {f[1] : f \in ToSet(Fields[work.key[2]])}
            reference == IF complete /\ Canonical(work.key[2], work.args)
                         THEN ReferenceData(contract, IdlsOf[live.made], work.key, work.args) ELSE {}
            hooks == DecodeDelegated(made.data)
        IN  /\ (IF made.code = "ok" THEN {made.data} ELSE {}) = reference
            /\ (made.code = "ok" /\ work.key[2] = "delegated_close_leverage") =>
                 hooks = {[before |-> work.args["beforeIxDataHex"].bytes,
                           after |-> work.args["afterIxDataHex"].bytes,
                           count |-> work.args["beforeAccountsLen"].n]}

-----------------------------------------------------------------------------
\* Properties of the accounts and the plans

\* One account of the chain, against the layout that the keeper was built with.
ReadsBack(there, here, layout, read, type) ==
    LET data == AccountHash[read.name] \o Serialized(type, read.value)
        at(path) == ValueAt(type, read.value, path)
    IN  \/ there = here /\ layout.accounts[read.name].exact = 0
            /\ \A f \in ToSet(layout.accounts[read.name].fields) :
                SubSeq(data, f.offset + 1, f.offset + f.size) = Serialized(at(f.path).type, at(f.path).value)
        \/ Readable(layout, read.name, data) /\ \A path \in ToSet(Wanted[read.name]) :
             Field(layout, read.name, data, path) = Serialized(at(path).type, at(path).value)
        \/ there # here /\ ~Readable(layout, read.name, data)

(***************************************************************************)
(* Every field that keepers read is read from an account's bytes as the    *)
(* program wrote it, whatever lies in front of it; an account of another   *)
(* size is not read at all (generate-account-layout.mjs, liquidation.ts    *)
(* 52-75).                                                                 *)
(***************************************************************************)
FieldsReadBack ==
    work.kind = "read" =>
        ReadsBack(IdlsOf[work.chain], IdlsOf[live.made], LayoutFor(live.made), work,
                  IdlsOf[work.chain]["dusk"].types[work.name])

\* The bank of a plan: the accounts of its market and position, as the program
\* of the chain wrote them.
Bank(w, dusk) ==
    LET account(owner, data, mint) ==
            [owner |-> owner, executable |-> FALSE, data |-> data, mint |-> mint]
        written(name, value) ==
            account(dusk.address, AccountHash[name] \o Serialized(dusk.types[name], value), FALSE)
    IN  [slot |-> w.slot, accounts |->
            (w.key :> written(w.name, w.position)) @@
            (w.position.market :> written("Market", w.market)) @@
            (w.market.base_side.asset_mint :> account(w.tokens[1], <<>>, TRUE)) @@
            (w.market.quote_side.asset_mint :> account(w.tokens[2], <<>>, w.readable)) @@
            (ClockKey :> account(<<"sysvar">>, U64(w.clock), FALSE))]

PlansWith(w, contract, layout, bank) ==
    UNION {UNION {
        IF w.quote = "flash"
        THEN BuildFlashPlan(contract, c, q, w.most, w.prefix, w.route, w.internal, w.least)
        ELSE BuildEmergencyPlan(contract, c, q) :
        q \in DecodeQuote(w.quote, w.data)} :
        c \in ResolveLiquidationAccounts(layout, bank, w.key, w.buyer, w.name, w.debt)}

Plans(w) ==
    PlansWith(w, Contracts[live.made], LayoutFor(live.made), Bank(w, IdlsOf[w.chain]["dusk"]))

\* What the seeds of the liquidation accounts name.
SeedsNamed(w, mint) ==
    (<<"args", "position">> :> Key(w.key)) @@ (<<"session", "position">> :> Key(w.key)) @@
    (<<"accounts", "debt_mint">> :> Key(mint))

\* Accounts that follow from the market, by name.
Follows(w, debt, collateral) ==
    [market |-> KeyOf(w.position.market), buyer |-> KeyOf(w.buyer),
     debt_mint |-> KeyOf(debt.asset_mint), collateral_mint |-> KeyOf(collateral.asset_mint),
     reserve_vault |-> KeyOf(debt.reserve_vault), interest_vault |-> KeyOf(debt.interest_vault),
     collateral_reserve_vault |-> KeyOf(collateral.reserve_vault)]

\* One account of an instruction against the IDL: in its place with the flags of
\* the IDL, or the program that stands for an absent one.
AccountMatchesIdl(idls, w, ix, listed, actual, follows, debtMint) ==
    LET absent == actual = Meta(ix.id, FALSE, FALSE) IN
    /\ absent => listed.optional \/ listed.name = "program"
    /\ ~absent => /\ actual.signer = listed.signer /\ actual.writable = listed.writable
                  /\ listed.name \in DOMAIN follows => actual.address = follows[listed.name]
    /\ listed.address # <<>> => actual.address = listed.address
    /\ listed.seeds # <<>> /\ listed.name # "market" =>
         actual.address = DerivedByProgram(idls, <<"dusk", ix.name>>, listed,
                                           SeedsNamed(w, debtMint)).address

ListedFor(idls, name) == FlattenAccounts(idls["dusk"].instructions[name].accounts)

AccountsMatchIdl(idls, w, ix, listed, debt, collateral) ==
    \A i \in DOMAIN listed :
        AccountMatchesIdl(idls, w, ix, listed[i], ix.accounts[i], Follows(w, debt, collateral),
                          debt.asset_mint)

\* A plan that is made, for the market's side of the debt and the other one.
Settles(idls, w, plan, debt, collateral) ==
    LET dusk == SelectSeq(plan, LAMBDA ix : ix.id = idls["dusk"].address)
        begin == dusk[1]
        index == LeValue(SubSeq(begin.data, Len(begin.data) - 1, Len(begin.data)))
        shared == Len(FlattenAccounts(<<idls["dusk"].instructions[begin.name].accounts[1]>>))
    IN  /\ w.position.active_liquidation_session = Zero /\ w.clock = w.slot /\ w.readable
        /\ \A i \in DOMAIN dusk :
            AccountsMatchIdl(idls, w, dusk[i], ListedFor(idls, dusk[i].name), debt, collateral)
        /\ w.quote = "flash" =>
            /\ plan[index + 1].name = "settle_flash_liquidation" /\ index = Len(plan) - 1
            /\ SubSeq(begin.accounts, 1, shared) = SubSeq(plan[index + 1].accounts, 1, shared)
            /\ SubSeq(begin.data, 50, 57) = SubSeq(w.data, 18, 25)
            /\ SubSeq(begin.data, 58, 65) = SubSeq(w.data, 10, 17)
        /\ w.quote = "emergency" =>
            /\ SubSeq(begin.data, 10, 17) = SubSeq(w.data, 26, 33)
            /\ SubSeq(begin.data, 19, 26) = SubSeq(w.data, 74, 81)
            /\ SubSeq(begin.data, 27, 34) = SubSeq(w.data, 42, 49)

(***************************************************************************)
(* A plan that is made settles what it begins: the index in the arguments  *)
(* is that of the settlement, whatever stands in front of it; both         *)
(* instructions have the same accounts, these are the ones that the IDL    *)
(* and the market prescribe, and the addresses that liquidation.ts derives *)
(* from seeds of its own are those of the IDL.  The payment offered and    *)
(* the collateral or outputs demanded are the bytes of the quote, at the   *)
(* places of the program's structs.  No plan is made for a position that   *)
(* is locked, or from a Clock or a layout of another time (liquidation.ts  *)
(* 76-406).                                                                *)
(***************************************************************************)
PlanSettles ==
    work.kind = "plan" =>
        \A plan \in Plans(work) :
            /\ IdlsOf[work.chain] = IdlsOf[live.made]
            /\ IF work.debt = 0
               THEN Settles(IdlsOf[live.made], work, plan, work.market.base_side, work.market.quote_side)
               ELSE Settles(IdlsOf[live.made], work, plan, work.market.quote_side, work.market.base_side)
=============================================================================
