------------------------ MODULE InstructionContract ------------------------
(***************************************************************************)
(* scripts/generate-instruction-contract.mjs: the instruction contract     *)
(* that is generated from the pinned interface descriptions (IDLs), and    *)
(* the envelopes that are generated with it as conformance fixtures.       *)
(*                                                                         *)
(* Abstractions: an address is a tuple of strings, <<>> for none; a hash   *)
(* is the content it is the hash of; tables that the code searches by name *)
(* are functions.                                                          *)
(***************************************************************************)
EXTENDS Bytes, FiniteSets

CONSTANTS
    AnchorHash,     \* the first 8 bytes of sha256("global:<name>"), by name
    Everything      \* the 10000 basis points of an envelope, within a u16

Job(kind, program, name) ==
    [kind |-> kind, primary |-> <<program, name>>, cpi |-> <<>>, required |-> {}]

DelegatedClose(kind, before) ==
    [kind |-> kind, primary |-> <<"dusk", "delegated_close_leverage">>,
     cpi |-> << <<"leverage_delegate", before>>, <<"leverage_delegate", "after_close_order">> >>,
     required |-> {"leverage_delegation", "delegated_program"}]

ActionDefinitions ==
    [limit_entry_execute |-> Job("limit_entry", "leverage_delegate", "execute_leverage_entry_order"),
     hlp_order_execute |-> Job("hlp_order", "leverage_delegate", "execute_hlp_order"),
     flash_liquidation_settle |-> Job("lending_liquidation_bid", "dusk", "settle_flash_liquidation"),
     flash_liquidation_preview |-> Job("lending_liquidation_bid", "dusk", "preview_flash_liquidation"),
     emergency_liquidation_preview |->
        Job("lending_liquidation_settle", "dusk", "preview_emergency_liquidation"),
     lending_health_preview |-> Job("lending_liquidation_bid", "dusk", "preview_liquidation_health"),
     lending_liquidation_bid |-> Job("lending_liquidation_bid", "dusk", "begin_flash_liquidation"),
     lending_liquidation_floor_settle |->
        Job("lending_liquidation_settle", "dusk", "emergency_liquidation"),
     leverage_liquidation |-> Job("leverage_liquidation", "dusk", "preview_liquidation_health"),
     hlp_flash_preview |-> Job("hlp_recovery", "dusk", "preview_hlp_flash"),
     hlp_flash_begin |-> Job("hlp_recovery", "dusk", "begin_hlp_flash"),
     hlp_flash_settle |-> Job("hlp_recovery", "dusk", "settle_hlp_flash"),
     hlp_insolvent_close |-> Job("hlp_recovery", "dusk", "close_insolvent_hlp"),
     delegated_close_take_profit |-> DelegatedClose("take_profit", "before_take_profit"),
     delegated_close_stop_loss |-> DelegatedClose("stop_loss", "before_stop_loss"),
     protocol_revenue_auction_settle |-> Job("auction_bid", "dusk", "settle_protocol_auction"),
     operator_revenue_archive_initialize |-> Job("lifecycle", "dusk", "initialize_operator_revenue"),
     operator_bundle_execute |-> Job("lifecycle", "dusk", "execute_operator_change")]

Actions == DOMAIN ActionDefinitions

\* The order of the definitions.
ActionOrder ==
    <<"limit_entry_execute", "hlp_order_execute", "flash_liquidation_settle",
      "flash_liquidation_preview", "emergency_liquidation_preview", "lending_health_preview",
      "lending_liquidation_bid", "lending_liquidation_floor_settle", "leverage_liquidation",
      "hlp_flash_preview", "hlp_flash_begin", "hlp_flash_settle", "hlp_insolvent_close",
      "delegated_close_take_profit", "delegated_close_stop_loss",
      "protocol_revenue_auction_settle", "operator_revenue_archive_initialize",
      "operator_bundle_execute">>

\* What a sequence has at a set of its indices, in order.
Sublist(s, indices) ==
    [k \in 1..Cardinality(indices) |->
        s[CHOOSE i \in indices : Cardinality({j \in indices : j <= i}) = k]]

\* The instructions that actions name, each once.
InstructionOrder ==
    LET named(a) == <<ActionDefinitions[a].primary>> \o ActionDefinitions[a].cpi
        extended(keys, more) ==
            keys \o Sublist(more, {i \in DOMAIN more : more[i] \notin ToSet(keys)})
        order[n \in 0..Len(ActionOrder)] ==
            IF n = 0 THEN <<>> ELSE extended(order[n - 1], named(ActionOrder[n]))
    IN  order[Len(ActionOrder)]

InstructionKeys ==
    UNION {{ActionDefinitions[a].primary} \cup ToSet(ActionDefinitions[a].cpi) : a \in Actions}

\* Groups of accounts are one level deep in the pinned IDLs.
FlattenAccounts(accounts) ==
    FlattenSeq([i \in DOMAIN accounts |->
        IF accounts[i].accounts = <<>> THEN <<accounts[i]>> ELSE accounts[i].accounts])

AccountSpecification(account) ==
    [name |-> account.name, writable |-> account.writable, signer |-> account.signer,
     optional |-> account.optional, fixed |-> account.address]

\* buildContract: the set of the contract, or the empty set when an assertion
\* fails.  idls maps the name of a program to its pinned IDL.
BuildContract(lock, idls) ==
    LET pinned(p) == CHOOSE q \in ToSet(lock.programs) : q.name = p
        flat(k) == FlattenAccounts(idls[k[1]].instructions[k[2]].accounts)
        sound(k) == /\ k[2] \in DOMAIN idls[k[1]].instructions
                    /\ idls[k[1]].instructions[k[2]].discriminator = AnchorHash[k[2]]
                    /\ Cardinality({flat(k)[i].name : i \in DOMAIN flat(k)}) = Len(flat(k))
    IN  IF /\ \A q \in ToSet(lock.programs) : idls[q.name].address = q.id
           /\ \A k \in InstructionKeys :
                (\E q \in ToSet(lock.programs) : q.name = k[1]) /\ sound(k)
        THEN {[schema |-> 1, revision |-> lock.revision,
               programs |-> [i \in DOMAIN lock.programs |->
                   [name |-> lock.programs[i].name, id |-> lock.programs[i].id,
                    idl |-> lock.programs[i].idl]],
               actions |-> ActionDefinitions,
               instructions |-> [k \in InstructionKeys |->
                   [program |-> k[1], id |-> pinned(k[1]).id, name |-> k[2],
                    discriminator |-> idls[k[1]].instructions[k[2]].discriminator,
                    accounts |-> [i \in DOMAIN flat(k) |-> AccountSpecification(flat(k)[i])]]]]}
        ELSE {}

-----------------------------------------------------------------------------
\* Envelopes

\* The arguments are written by hand, not from the IDL.
DirectArguments ==
    [initialize_operator_revenue |-> <<>>, execute_operator_change |-> <<>>,
     settle_flash_liquidation |-> <<>>, settle_hlp_flash |-> <<>>,
     preview_hlp_flash |-> <<0>>, preview_liquidation_health |-> <<0>>,
     begin_hlp_flash |-> <<0>> \o U64(1000) \o <<0>> \o U64(500) \o U64(250) \o U64(1100)
                         \o U64(900) \o U16(4),
     close_insolvent_hlp |-> <<0>> \o U64(500) \o U64(250) \o U64(1),
     preview_flash_liquidation |-> <<0>> \o U64(1000) \o <<0>>,
     preview_emergency_liquidation |-> <<0>> \o U64(1000) \o <<0>>,
     begin_flash_liquidation |-> [i \in 1..32 |-> 7] \o <<0>> \o U64(1000) \o U64(1100)
                                 \o U64(900) \o U64(25) \o <<0>> \o U16(1),
     emergency_liquidation |-> <<0>> \o U64(1000) \o <<0>> \o U64(1) \o U64(900),
     settle_protocol_auction |-> <<0, 0>> \o U64(1000) \o U64(950),
     before_take_profit |-> U64(7), before_stop_loss |-> U64(7), after_close_order |-> U64(7),
     execute_hlp_order |-> U64(7), execute_leverage_entry_order |-> U64(7) \o U64(0)]

DirectInstructionData(spec) == spec.discriminator \o DirectArguments[spec.name]

ResolvedMeta(contract, action, spec, account) ==
    LET delegate == CHOOSE q \in ToSet(contract.programs) : q.name = "leverage_delegate"
    IN  [name |-> account.name, writable |-> account.writable, signer |-> account.signer,
         address |-> CASE account.fixed # <<>> -> account.fixed
                       [] account.fixed = <<>> /\ account.name = "program" -> spec.id
                       [] account.fixed = <<>> /\ account.name = "delegated_program" -> delegate.id
                       [] OTHER -> <<"key", action, spec.name, account.name>>]

\* Optional accounts are left out unless the action requires them.
ResolvedAccounts(contract, action, spec) ==
    LET needed(a) == ~a.optional \/ a.name \in contract.actions[action].required
        listed == Sublist(spec.accounts, {i \in DOMAIN spec.accounts : needed(spec.accounts[i])})
    IN  [i \in DOMAIN listed |-> ResolvedMeta(contract, action, spec, listed[i])]

Instruction(contract, action, key, data) ==
    LET spec == contract.instructions[key]
    IN  [key |-> key, program |-> spec.program, id |-> spec.id, name |-> spec.name,
         data |-> data, accounts |-> ResolvedAccounts(contract, action, spec), remaining |-> <<>>]

\* envelopeParitySha256: all that the canonical writer writes, which is every
\* field but the digest itself.
Parity(e) == <<e.schema, e.intent, e.primary, e.hooks>>

Sealed(e) == [e EXCEPT !.parity = Parity(e)]

PrimaryData(contract, action, hooks) ==
    LET spec == contract.instructions[contract.actions[action].primary]
    IN  IF spec.name = "delegated_close_leverage"
        THEN spec.discriminator \o <<0>> \o U64(800) \o U16(Everything)
             \o Vector(hooks[1].data) \o Vector(hooks[2].data) \o U16(Len(hooks[1].accounts))
        ELSE DirectInstructionData(spec)

BuildValidEnvelope(contract, action) ==
    LET keys == contract.actions[action].cpi
        hooks == [i \in DOMAIN keys |->
            Instruction(contract, action, keys[i], DirectInstructionData(contract.instructions[keys[i]]))]
    IN  Sealed([schema |-> 1,
                intent |-> [schema |-> 1, revision |-> contract.revision, action |-> action,
                            kind |-> contract.actions[action].kind],
                primary |-> [Instruction(contract, action, contract.actions[action].primary,
                                         PrimaryData(contract, action, hooks))
                             EXCEPT !.remaining = FlattenSeq([i \in DOMAIN hooks |-> hooks[i].accounts])],
                hooks |-> hooks, parity |-> <<>>])

-----------------------------------------------------------------------------
\* The invalid fixtures: the code that refuses each, and the action whose valid
\* envelope it is made from.
InvalidCases ==
    [revision_mismatch |-> "lending_health_preview", job_kind_mismatch |-> "lending_health_preview",
     instruction_mismatch |-> "lending_health_preview",
     program_id_mismatch |-> "lending_health_preview", invalid_pubkey |-> "lending_health_preview",
     discriminator_mismatch |-> "lending_health_preview",
     missing_required_account |-> "operator_revenue_archive_initialize",
     account_order_mismatch |-> "lending_health_preview",
     account_flags_mismatch |-> "lending_health_preview",
     fixed_address_mismatch |-> "lending_liquidation_bid",
     required_optional_account_missing |-> "delegated_close_take_profit",
     cpi_hook_mismatch |-> "delegated_close_take_profit",
     remaining_accounts_mismatch |-> "delegated_close_stop_loss",
     delegated_hook_data_mismatch |-> "delegated_close_stop_loss",
     parity_mismatch |-> "operator_bundle_execute"]

Swapped(s) == <<s[2], s[1]>> \o SubSeq(s, 3, Len(s))

\* One change of an envelope each; the digest is not renewed.
Mutated(case, e) ==
    CASE case = "revision_mismatch" -> [e EXCEPT !.intent.revision = "another-revision"]
      [] case = "job_kind_mismatch" -> [e EXCEPT !.intent.kind = "take_profit"]
      [] case = "instruction_mismatch" -> [e EXCEPT !.primary.name = "execute_operator_change"]
      [] case = "program_id_mismatch" -> [e EXCEPT !.primary.id = <<"key", "wrong-program">>]
      [] case = "invalid_pubkey" -> [e EXCEPT !.primary.accounts[1].address = <<"not a key">>]
      [] case = "discriminator_mismatch" ->
            [e EXCEPT !.primary.data[1] = IF @ = 0 THEN 1 ELSE 0]
      [] case = "missing_required_account" ->
            [e EXCEPT !.primary.accounts = RemoveAt(@, 2)]
      [] case = "account_order_mismatch" -> [e EXCEPT !.primary.accounts = Swapped(@)]
      [] case = "account_flags_mismatch" -> [e EXCEPT !.primary.accounts[1].writable = ~@]
      [] case = "fixed_address_mismatch" ->
            [e EXCEPT !.primary.accounts = [i \in DOMAIN @ |->
                IF @[i].name = "token_program"
                THEN [@[i] EXCEPT !.address = <<"key", "wrong-token-program">>] ELSE @[i]]]
      [] case = "required_optional_account_missing" ->
            [e EXCEPT !.primary.accounts =
                Sublist(@, {i \in DOMAIN @ : @[i].name # "leverage_delegation"})]
      [] case = "cpi_hook_mismatch" -> [e EXCEPT !.hooks = Reverse(@)]
      [] case = "remaining_accounts_mismatch" -> [e EXCEPT !.primary.remaining = Swapped(@)]
      [] case = "delegated_hook_data_mismatch" ->
            [e EXCEPT !.hooks[1].data[Len(e.hooks[1].data)] = 1]
      [] case = "parity_mismatch" -> [e EXCEPT !.parity = <<"0">>]
=============================================================================
