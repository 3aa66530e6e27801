----------------------------- MODULE Resolution ------------------------------
(***************************************************************************)
(* Accounts that are not looked up but computed: the manifest of fixed     *)
(* addresses and of program-derived addresses (PDAs), as                   *)
(* scripts/generate-adapter-codecs.mjs makes it from the pinned IDLs and   *)
(* typescript/packages/dusk-adapter/src/resolution.ts reads it.            *)
(*                                                                         *)
(* Abstractions: a digest is what it is the digest of, so that two PDAs    *)
(* are equal when their seeds, bump and program are; OnCurve says which    *)
(* digests are points of the curve.  The path of a seed is the sequence of *)
(* its names.                                                              *)
(***************************************************************************)
EXTENDS Envelope, IdlTypes

CONSTANT OnCurve(_, _)  \* whether a digest of bytes and a program is a point

MaxBump == Radix - 1

-----------------------------------------------------------------------------
\* The generator.  A seed of an IDL is a constant or a path into an account or
\* an argument; "account" names the type of the account's data, if it has one.

ConstSeed(bytes) == [kind |-> "const", path |-> <<>>, account |-> "", bytes |-> bytes]
AccountSeed(path, account) == [kind |-> "account", path |-> path, account |-> account, bytes |-> <<>>]
ArgSeed(path) == [kind |-> "arg", path |-> path, account |-> "", bytes |-> <<>>]

InputNames ==
    (<<"leverage_position", "owner">> :> "owner") @@
    (<<"leverage_position", "namespace_authority">> :> "namespaceAuthority") @@
    (<<"args", "position">> :> "position") @@
    (<<"session", "position">> :> "position") @@
    (<<"accounts", "debt_mint">> :> "debtMint") @@
    (<<"session">> :> "session") @@
    (<<"market", "base_side", "asset_mint">> :> "baseAssetMint") @@
    (<<"market", "quote_side", "asset_mint">> :> "quoteAssetMint") @@
    (<<"market", "params_hash">> :> "paramsHash") @@
    (<<"market">> :> "market") @@
    (<<"proposal", "nonce">> :> "proposalNonce") @@
    (<<"market", "operator", "revenue_epoch">> :> "revenueEpoch") @@
    (<<"borrow_position", "position_id">> :> "positionId") @@
    (<<"leverage_position", "position_id">> :> "positionId") @@
    (<<"collateral_mint">> :> "collateralMint") @@
    (<<"leverage_position">> :> "position") @@
    (<<"order", "position">> :> "position") @@
    (<<"order", "owner">> :> "owner") @@
    (<<"args", "order_id">> :> "orderId") @@
    (<<"order">> :> "order") @@
    (<<"order", "target_hlp_mint">> :> "targetHlpMint")

\* The type that a path leads to, in a set that is empty when it leads nowhere.
DescendType(type, path) ==
    FoldLeft(LAMBDA found, field :
                UNION {{t.fields[i][2] : i \in {j \in DOMAIN t.fields : t.fields[j][1] = field}} :
                       t \in found},
             {type}, path)

SeedEncoding(idl, ix, seed) ==
    LET root == Head(seed.path)
        named(accounts) == {a \in ToSet(accounts) : a.name = root}
        type ==
          CASE seed.kind = "account" ->
                 IF named(ix.accounts) \cup named(FlattenAccounts(ix.accounts)) = {} THEN {}
                 ELSE IF \/ \E a \in named(ix.accounts) : a.accounts # <<>>
                         \/ seed.account = ""
                      THEN {Scalar("pubkey")}
                      ELSE DescendType(idl.types[seed.account], Tail(seed.path))
            [] seed.kind = "arg" -> DescendType(Struct(ix.args), seed.path)
        encoding(t) ==
          CASE t.kind = "pubkey" -> {"pubkey"} [] t.kind = "u64" -> {"u64_le"}
            [] t.kind = "array" -> IF t.inner.kind = "u8" /\ t.count = 32 THEN {"bytes32"} ELSE {}
            [] OTHER -> {}
    IN  UNION {encoding(t) : t \in type}

\* A seed of a recipe, in a set that is empty when an assertion fails.
NormalizeSeed(idl, ix, seed) ==
    IF seed.kind = "const"
    THEN IF Len(seed.bytes) \in 1..32
         THEN {[kind |-> "const", bytes |-> seed.bytes, name |-> "", encoding |-> ""]} ELSE {}
    ELSE IF seed.path \notin DOMAIN InputNames THEN {}
         ELSE {[kind |-> "input", bytes |-> <<>>, name |-> InputNames[seed.path], encoding |-> e] :
                 e \in SeedEncoding(idl, ix, seed)}

\* Fixed by the IDL, the instruction's own program, or the program of the
\* hooks that an action calls through the instruction.
StaticAddress(contract, key, account) ==
    LET hooked == {contract.instructions[h].id : h \in
            UNION {ToSet(contract.actions[a].cpi) : a \in
                {b \in DOMAIN contract.actions : contract.actions[b].primary = key}}}
    IN  CASE account.address # <<>> -> {account.address}
          [] account.address = <<>> /\ account.name = "program" -> {contract.instructions[key].id}
          [] account.address = <<>> /\ account.name = "delegated_program" -> hooked
          [] OTHER -> {}

\* Mutant: an account name has one recipe per program, that of its first usage.
AddUsageToFirst(recipes, fresh) ==
    LET same == {i \in DOMAIN recipes : recipes[i].key = fresh.key}
    IN  IF same # {} THEN [recipes EXCEPT ![CHOOSE i \in same : TRUE].usages = @ \cup fresh.usages]
        ELSE Append(recipes, fresh)

\* Usages with the same seeds share a recipe; one with others gets a key of its
\* own.
AddUsage(recipes, fresh) ==
    LET held(key) == {i \in DOMAIN recipes : recipes[i].key = key}
        ix == (CHOOSE u \in fresh.usages : TRUE)[1][2]
        apart == \E i \in held(fresh.key) : recipes[i].seeds # fresh.seeds
        key == IF apart THEN Append(fresh.key, ix) ELSE fresh.key
    IN  IF held(key) # {}
        THEN [recipes EXCEPT ![CHOOSE i \in held(key) : TRUE].usages = @ \cup fresh.usages]
        ELSE Append(recipes, [fresh EXCEPT !.key = key])

\* What the first usage of an account makes.  The program that an IDL names for
\* a PDA is not read.
FirstUsage(contract, idls, key, account) ==
    LET idl == idls[key[1]]
    IN  [key |-> <<key[1], account.name>>, program |-> key[1],
         id |-> contract.instructions[key].id, usages |-> {<<key, account.name>>},
         seeds |-> [i \in DOMAIN account.seeds |->
            CHOOSE s \in NormalizeSeed(idl, idl.instructions[key[2]], account.seeds[i]) : TRUE]]

\* The recipes that one instruction adds.
AddRecipes(contract, idls, recipes, key) ==
    LET flat == FlattenAccounts(idls[key[1]].instructions[key[2]].accounts)
        added[n \in 0..Len(flat)] ==
            IF n = 0 THEN recipes
            ELSE IF flat[n].seeds = <<>> THEN added[n - 1]
            ELSE AddUsage(added[n - 1], FirstUsage(contract, idls, key, flat[n]))
    IN  added[Len(flat)]

\* The recipes of all instructions.
Recipes(contract, idls) ==
    LET added[n \in 0..Len(InstructionOrder)] ==
            IF n = 0 THEN <<>> ELSE AddRecipes(contract, idls, added[n - 1], InstructionOrder[n])
    IN  added[Len(InstructionOrder)]

\* buildResolutionManifest: the set of the manifest, empty when an assertion
\* fails.
BuildResolutionManifest(lock, contract, idls) ==
    LET ix(k) == idls[k[1]].instructions[k[2]]
        flat(k) == FlattenAccounts(ix(k).accounts)
        static(k) == FlattenSeq([i \in DOMAIN flat(k) |->
            SetToSeq({[key |-> k, account |-> flat(k)[i].name, address |-> address] :
                      address \in StaticAddress(contract, k, flat(k)[i])})])
        sound(k) == \A a \in ToSet(flat(k)) :
            /\ \A s \in ToSet(a.seeds) : NormalizeSeed(idls[k[1]], ix(k), s) # {}
            /\ a.name = "delegated_program" => Cardinality(StaticAddress(contract, k, a)) = 1
    IN  IF \A k \in DOMAIN contract.instructions : sound(k)
        THEN {[schema |-> 1, revision |-> lock.revision,
               programs |-> [i \in DOMAIN lock.programs |->
                   [name |-> lock.programs[i].name, id |-> lock.programs[i].id,
                    idl |-> lock.programs[i].idl]],
               static |-> FlattenSeq([i \in DOMAIN InstructionOrder |-> static(InstructionOrder[i])]),
               recipes |-> Recipes(contract, idls)]}
        ELSE {}

-----------------------------------------------------------------------------
\* resolution.ts

\* Whether two entries of a sequence agree in what is asked of them.
Repeats(s, part(_)) == \E i, j \in DOMAIN s : i < j /\ part(s[i]) = part(s[j])

StaticAccountSound(contract, account) ==
    /\ account.key \in DOMAIN contract.instructions
    /\ \E a \in ToSet(contract.instructions[account.key].accounts) : a.name = account.account
    /\ IsPubkey(account.address)

RecipeSound(contract, manifest, recipe) ==
    /\ Len(recipe.seeds) < 16
    /\ \E p \in ToSet(manifest.programs) : p.name = recipe.program /\ p.id = recipe.id
    /\ IsPubkey(recipe.id)
    /\ \A s \in ToSet(recipe.seeds) : s.kind = "const" => Len(s.bytes) \in 1..32
    /\ ~\E i, j \in DOMAIN recipe.seeds :
            /\ i < j /\ recipe.seeds[i].name = recipe.seeds[j].name
            /\ recipe.seeds[i].kind = "input" /\ recipe.seeds[j].kind = "input"
    /\ \A u \in recipe.usages : u[1] \in DOMAIN contract.instructions

\* The constructor of DeterministicAccountResolver.
ConstructResolver(lock, contract, manifest) ==
    Refuse(\/ manifest.schema # 1 \/ manifest.revision # lock.revision
           \/ Repeats(manifest.programs, LAMBDA p : p.name)
           \/ \E p \in ToSet(manifest.programs) :
                ~\E q \in ToSet(lock.programs) : q.name = p.name /\ q.id = p.id /\ q.idl = p.idl
           \/ Repeats(manifest.static, LAMBDA a : <<a.key, a.account>>)
           \/ \E a \in ToSet(manifest.static) : ~StaticAccountSound(contract, a)
           \/ Repeats(manifest.recipes, LAMBDA r : r.key)
           \/ \E r \in ToSet(manifest.recipes) : ~RecipeSound(contract, manifest, r),
           "manifest_mismatch")

\* The address of an account, in a set that is empty when it has none.
ResolveStatic(manifest, key, name) ==
    {a.address : a \in {b \in ToSet(manifest.static) : b.key = key /\ b.account = name}}

\* The recipe of an account; its usages are those of one recipe only.
PdaRecipeKey(manifest, key, name) ==
    {r.key : r \in {q \in ToSet(manifest.recipes) : <<key, name>> \in q.usages}}

\* The digest of the largest bump that is not a point of the curve.
FindProgramAddress(seeds, id) ==
    LET digest(bump) == FlattenSeq(seeds) \o <<bump>>
        free == {b \in 0..MaxBump : ~OnCurve(digest(b), id)}
        bump == CHOOSE b \in free : \A c \in free : c <= b
    IN  IF Len(seeds) >= 16 \/ \E i \in DOMAIN seeds : Len(seeds[i]) > 32
        THEN [code |-> "invalid_seed_value", address |-> <<>>, bump |-> 0]
        ELSE IF ~IsPubkey(id) THEN [code |-> "invalid_program_id", address |-> <<>>, bump |-> 0]
        ELSE IF free = {} THEN [code |-> "unable_to_find_pda", address |-> <<>>, bump |-> 0]
        ELSE [code |-> "ok", address |-> <<"pda", ToString(digest(bump))>> \o id, bump |-> bump]

\* The inputs of a recipe are exactly those it names.
CheckInputs(manifest, key, inputs) ==
    LET recipe == CHOOSE r \in ToSet(manifest.recipes) : r.key = key
        names == {s.name : s \in {t \in ToSet(recipe.seeds) : t.kind = "input"}}
    IN  Refuse(\A r \in ToSet(manifest.recipes) : r.key # key, "unknown_recipe")
        ++ Refuse(~names \subseteq DOMAIN inputs, "missing_input")
        ++ Refuse(~DOMAIN inputs \subseteq names, "unexpected_input")

\* A typed value of a seed: its encoding, and its number or bytes.
SeedFits(encoding, value) ==
    /\ value.encoding = encoding
    /\ IF encoding = "u64_le" THEN Fits(value.n, 8) ELSE Len(value.bytes) = 32

SeedBytes(value) == IF value.encoding = "u64_le" THEN U64(value.n) ELSE value.bytes

DerivePda(manifest, key, inputs) ==
    LET recipe == CHOOSE r \in ToSet(manifest.recipes) : r.key = key
        code == CheckInputs(manifest, key, inputs)
                ++ Refuse(\E s \in ToSet(recipe.seeds) :
                            s.kind = "input" /\ ~SeedFits(s.encoding, inputs[s.name]),
                          "invalid_seed_value")
        seeds == [i \in DOMAIN recipe.seeds |->
            IF recipe.seeds[i].kind = "const" THEN recipe.seeds[i].bytes
            ELSE SeedBytes(inputs[recipe.seeds[i].name])]
    IN  IF code = "ok" THEN FindProgramAddress(seeds, recipe.id)
        ELSE [code |-> code, address |-> <<>>, bump |-> 0]

\* The forms of a string that are taken for an encoding.
SeedParses(encoding, v) ==
    CASE encoding = "pubkey" -> v.form = "key" /\ Len(v.bytes) = 32
      [] encoding = "bytes32" -> v.form = "hex" /\ Len(v.bytes) = 32
      [] encoding = "u64_le" -> v.form = "decimal" /\ Fits(v.n, 8)

\* The inputs as strings: they are checked, then parsed, then derived from.
DerivePdaStrings(manifest, key, inputs) ==
    LET recipe == CHOOSE r \in ToSet(manifest.recipes) : r.key = key
        encoding == [name \in DOMAIN inputs |->
            (CHOOSE s \in ToSet(recipe.seeds) : s.kind = "input" /\ s.name = name).encoding]
        code == CheckInputs(manifest, key, inputs)
                ++ Refuse(\E name \in DOMAIN inputs : ~SeedParses(encoding[name], inputs[name]),
                          "invalid_seed_value")
    IN  IF code = "ok"
        THEN DerivePda(manifest, key, [name \in DOMAIN inputs |->
                [encoding |-> encoding[name], n |-> inputs[name].n, bytes |-> inputs[name].bytes]])
        ELSE [code |-> code, address |-> <<>>, bump |-> 0]

-----------------------------------------------------------------------------
\* The reference: the address of an account as the program derives it, from the
\* seeds of the IDL and what they name in a transaction.
DerivedByProgram(idls, key, account, named) ==
    LET seeds == [i \in DOMAIN account.seeds |->
            LET s == account.seeds[i]
                v == named[s.path]
            IN  IF s.kind = "const" THEN s.bytes
                ELSE IF v.form = "decimal" THEN U64(v.n) ELSE v.bytes]
        id == IF account.owner = <<>> THEN idls[key[1]].address ELSE account.owner
    IN  FindProgramAddress(seeds, id)
=============================================================================
