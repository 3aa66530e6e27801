------------------------------ MODULE Envelope ------------------------------
(***************************************************************************)
(* The envelope validator of the TypeScript adapter, typescript/packages/  *)
(* dusk-adapter/src/envelope.ts, and the protocol lock it was made with,   *)
(* protocol-lock.ts: the last gate between a built transaction and its     *)
(* signature.                                                              *)
(*                                                                         *)
(* A verdict is the code of the first check that fails, "ok" if none does. *)
(* Abstractions: an address that does not decode to 32 bytes is any tuple  *)
(* that begins with "not a key"; a byte outside 0..Radix-1 stands for      *)
(* characters that are not lowercase hexadecimal.                          *)
(***************************************************************************)
EXTENDS InstructionContract

Refuse(bad, code) == IF bad THEN code ELSE "ok"

\* The later check is made only when the earlier one passes.
a ++ b == IF a = "ok" THEN b ELSE a

-----------------------------------------------------------------------------
\* protocol-lock.ts

\* assertLiveReady: frozen, with every value and every hash in place.
LiveReady(lock) ==
    /\ lock.status = "frozen"
    /\ lock.complete
    /\ \A p \in ToSet(lock.programs) : p.id # <<>> /\ p.idl # <<>> /\ p.binary # <<>>

\* The constructor: the contract must be of this lock.
ConstructValidator(lock, contract) ==
    LET listed == contract.programs
        pinned(p) == {q \in ToSet(lock.programs) : q.name = p.name}
    IN  Refuse(contract.schema # 1 \/ contract.revision # lock.revision, "revision_mismatch")
        ++ Refuse(\E i, j \in DOMAIN listed : i < j /\ listed[i].name = listed[j].name,
                  "instruction_mismatch")
        ++ Refuse(\E p \in ToSet(listed) :
                      ~\E q \in pinned(p) : q.id = p.id /\ q.idl = p.idl,
                  "program_id_mismatch")

-----------------------------------------------------------------------------
\* One instruction

IsPubkey(address) == address[1] # "not a key"

IsHex(data) == Len(data) >= 8 /\ \A i \in DOMAIN data : data[i] \in Byte

\* The address that the contract prescribes, <<>> when it leaves it open.
Prescribed(spec, expected) ==
    IF expected.fixed # <<>> THEN expected.fixed
    ELSE IF expected.name = "program" THEN spec.id ELSE <<>>

CheckAccount(spec, expected, actual) ==
    LET fixed == Prescribed(spec, expected) IN
    Refuse(~IsPubkey(actual.address), "invalid_pubkey")
    ++ Refuse(actual.writable # expected.writable \/ actual.signer # expected.signer,
              "account_flags_mismatch")
    ++ Refuse(fixed # <<>> /\ fixed # actual.address, "fixed_address_mismatch")

\* Mutant: an optional account is skipped together with the one in its place.
WalkSkipping(accounts, spec, walk, expected) ==
    LET present == walk.at <= Len(accounts)
        later == \E i \in walk.at + 1..Len(accounts) : accounts[i].name = expected.name
    IN  CASE walk.code # "ok" -> walk
          [] expected.optional -> [walk EXCEPT !.at = IF present THEN @ + 1 ELSE @]
          [] OTHER ->
               [at |-> walk.at + 1,
                code |-> Refuse(~present, "missing_required_account")
                         ++ Refuse(present /\ accounts[walk.at].name # expected.name,
                                   IF later THEN "account_order_mismatch"
                                   ELSE "missing_required_account")
                         ++ CheckAccount(spec, expected, accounts[walk.at])]

\* One expected account against the next actual one.
Walk(accounts, spec, walk, expected) ==
    LET present == walk.at <= Len(accounts)
        named == present /\ accounts[walk.at].name = expected.name
        later == \E i \in walk.at + 1..Len(accounts) : accounts[i].name = expected.name
    IN  IF walk.code # "ok" \/ (expected.optional /\ ~named) THEN walk
        ELSE [at |-> walk.at + 1,
              code |-> Refuse(~present, "missing_required_account")
                       ++ Refuse(~named, IF later THEN "account_order_mismatch"
                                         ELSE "missing_required_account")
                       ++ CheckAccount(spec, expected, accounts[walk.at])]

ValidateAccounts(ix, spec) ==
    LET count == Len(spec.accounts)
        walked[i \in 0..count] ==
            IF i = 0 THEN [at |-> 1, code |-> "ok"]
            ELSE Walk(ix.accounts, spec, walked[i - 1], spec.accounts[i])
    IN  walked[count].code ++ Refuse(walked[count].at # Len(ix.accounts) + 1, "account_order_mismatch")

ValidateExpectedInstruction(contract, ix, key) ==
    LET spec == contract.instructions[key] IN
    Refuse(ix.key # key, "instruction_mismatch")
    ++ Refuse(key \notin DOMAIN contract.instructions, "instruction_mismatch")
    ++ Refuse(ix.program # spec.program \/ ix.name # spec.name, "instruction_mismatch")
    ++ Refuse(ix.id # spec.id, "program_id_mismatch")
    ++ Refuse(~IsPubkey(ix.id), "invalid_pubkey")
    ++ Refuse(~IsHex(ix.data), "invalid_data_hex")
    ++ Refuse(~IsPrefix(spec.discriminator, ix.data), "discriminator_mismatch")
    ++ ValidateAccounts(ix, spec)
    ++ Refuse(\E a \in ToSet(ix.remaining) : ~IsPubkey(a.address), "invalid_pubkey")

-----------------------------------------------------------------------------
\* A delegated close carries the instructions of its two hooks.

\* A vector at a position: its bytes and what follows, or nothing.
ReadVector(data, at) ==
    IF at + 4 > Len(data) THEN {}
    ELSE LET length == LeValue(SubSeq(data, at + 1, at + 4))
         IN  IF at + 4 + length > Len(data) THEN {}
             ELSE {[bytes |-> SubSeq(data, at + 5, at + 4 + length), next |-> at + 4 + length]}

\* decodeDelegatedCpiPayload: the set of the payload, empty when malformed.
DecodeDelegated(data) ==
    IF Len(data) < 29 THEN {}
    ELSE UNION {{[before |-> before.bytes, after |-> after.bytes,
                  count |-> LeValue(SubSeq(data, after.next + 1, after.next + 2))] :
                     after \in {v \in ReadVector(data, before.next) : v.next + 2 = Len(data)}} :
                before \in ReadVector(data, 19)}

ValidateDelegatedComposition(e) ==
    LET payload == DecodeDelegated(e.primary.data)
        embedded == CHOOSE p \in payload : TRUE
        accounts == e.primary.accounts
        delegated == {i \in DOMAIN accounts : accounts[i].name = "delegated_program"}
    IN  Refuse(Len(e.hooks) # 2, "cpi_hook_mismatch")
        ++ Refuse(payload = {}, "delegated_hook_data_mismatch")
        ++ Refuse(embedded.before # e.hooks[1].data \/ embedded.after # e.hooks[2].data,
                  "delegated_hook_data_mismatch")
        ++ Refuse(embedded.count # Len(e.hooks[1].accounts), "remaining_accounts_mismatch")
        ++ Refuse(e.primary.remaining # e.hooks[1].accounts \o e.hooks[2].accounts,
                  "remaining_accounts_mismatch")
        ++ Refuse(~\E i \in delegated : /\ \A j \in delegated : i <= j
                                       /\ accounts[i].address = e.hooks[1].id,
                  "fixed_address_mismatch")

-----------------------------------------------------------------------------
\* An envelope

ValidateHook(contract, hook, key) ==
    ValidateExpectedInstruction(contract, hook, key)
    ++ Refuse(hook.remaining # <<>>, "cpi_hook_mismatch")

Validate(lock, contract, e) ==
    LET action == contract.actions[e.intent.action]
        keys == [i \in DOMAIN e.hooks |-> e.hooks[i].key]
        hooks[i \in 0..Len(e.hooks)] ==
            IF i = 0 THEN "ok"
            ELSE hooks[i - 1] ++ ValidateHook(contract, e.hooks[i], e.hooks[i].key)
    IN  Refuse(e.schema # 1 \/ e.intent.schema # 1, "instruction_mismatch")
        ++ Refuse(e.intent.revision # lock.revision, "revision_mismatch")
        ++ Refuse(e.intent.action \notin DOMAIN contract.actions, "instruction_mismatch")
        ++ Refuse(e.intent.kind # action.kind, "job_kind_mismatch")
        ++ ValidateExpectedInstruction(contract, e.primary, action.primary)
        ++ Refuse(keys # action.cpi, "cpi_hook_mismatch")
        ++ hooks[Len(e.hooks)]
        ++ Refuse(\E name \in action.required :
                      \A a \in ToSet(e.primary.accounts) : a.name # name,
                  "required_optional_account_missing")
        ++ (IF action.cpi # <<>> THEN ValidateDelegatedComposition(e) ELSE "ok")
        ++ Refuse(Parity(e) # e.parity, "parity_mismatch")

\* Mutant: a captured protocol is signed for as well.
ValidateForSigningCaptured(lock, contract, e) == Validate(lock, contract, e)

ValidateForSigning(lock, contract, e) ==
    Refuse(~LiveReady(lock), "live_protocol_not_ready") ++ Validate(lock, contract, e)

-----------------------------------------------------------------------------
\* The reference

AccountIsPinned(spec, expected, actual) ==
    /\ actual.name = expected.name
    /\ actual.writable = expected.writable /\ actual.signer = expected.signer
    /\ IsPubkey(actual.address)
    /\ Prescribed(spec, expected) \in {<<>>, actual.address}

\* The accounts of an instruction are those of its specification, in order and
\* with their flags and prescribed addresses; only optional ones may be absent.
AccountsArePinned(spec, accounts) ==
    \E absent \in SUBSET {i \in DOMAIN spec.accounts : spec.accounts[i].optional} :
        LET place(i) == Cardinality((1..i) \ absent) IN
        /\ Len(accounts) = place(Len(spec.accounts))
        /\ \A i \in DOMAIN spec.accounts \ absent :
            AccountIsPinned(spec, spec.accounts[i], accounts[place(i)])

InstructionIsPinned(contract, ix, key) ==
    LET spec == contract.instructions[key] IN
    /\ ix.key = key /\ ix.program = spec.program /\ ix.name = spec.name
    /\ ix.id = spec.id /\ IsPubkey(ix.id)
    /\ IsHex(ix.data) /\ SubSeq(ix.data, 1, 8) = spec.discriminator
    /\ AccountsArePinned(spec, ix.accounts)
    /\ \A a \in ToSet(ix.remaining) : IsPubkey(a.address)

\* The hooks are written out in the data and the accounts of the primary.
CarriesHooks(primary, before, after) ==
    /\ primary.data = SubSeq(primary.data, 1, 19) \o Vector(before.data) \o Vector(after.data)
                      \o U16(Len(before.accounts))
    /\ primary.remaining = before.accounts \o after.accounts
    /\ \E a \in ToSet(primary.accounts) : a.name = "delegated_program" /\ a.address = before.id

EnvelopeIsPinned(contract, e) ==
    /\ e.schema = 1 /\ e.intent.schema = 1 /\ e.intent.revision = contract.revision
    /\ e.intent.action \in Actions /\ e.parity = Parity(e)
    /\ LET job == ActionDefinitions[e.intent.action] IN
        /\ e.intent.kind = job.kind /\ Len(e.hooks) = Len(job.cpi)
        /\ InstructionIsPinned(contract, e.primary, job.primary)
        /\ \A i \in DOMAIN e.hooks :
            InstructionIsPinned(contract, e.hooks[i], job.cpi[i]) /\ e.hooks[i].remaining = <<>>
        /\ \A name \in job.required : \E a \in ToSet(e.primary.accounts) : a.name = name
        /\ e.hooks # <<>> => CarriesHooks(e.primary, e.hooks[1], e.hooks[2])
=============================================================================
