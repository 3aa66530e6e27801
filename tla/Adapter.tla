------------------------------- MODULE Adapter -------------------------------
(***************************************************************************)
(* The TypeScript adapter at work: a keeper that deploys, builds, has      *)
(* validated and signs (Gate), and the other calls of the adapter, which   *)
(* are pure: addresses derived and keys written, here; arguments encoded,  *)
(* accounts read and liquidations planned, in AdapterData.                 *)
(***************************************************************************)
EXTENDS Gate, Resolution, PublicKeys

CONSTANT Calls      \* the other calls, each with its input

\* A key has bytes and its string characters; the field of a curve is that of a
\* prime which is 5 modulo 8.
ASSUME CallAssumption ==
    \A c \in Calls :
        /\ c.kind \notin {"none", "envelope"}
        /\ c.kind = "bytes" => c.bytes \in Seq(0..Bits - 1) \ {<<>>}
        /\ c.kind = "string" => c.string \in Seq(0..Digits - 1) \ {<<>>}
        /\ c.kind = "curve" =>
            /\ c.p \in Nat \ {0, 1} /\ c.p % 8 = 5 /\ \A a \in 2..c.p - 1 : c.p % a # 0
            /\ c.d \in Nat

Only(results) == CHOOSE r \in results : TRUE
Manifests == [l \in Made |-> Only(BuildResolutionManifest(Locks[l], Contracts[l], IdlsOf[l]))]

\* A resolver can be constructed as well.
Resolvable ==
    {d \in Deployable : ConstructResolver(Locks[d[1]], Contracts[d[2]], Manifests[d[2]]) = "ok"}

\* The generator makes a manifest of every contract; the seeds of an account are
\* a list.
ASSUME ManifestAssumption ==
    \A l \in Made :
        /\ BuildResolutionManifest(Locks[l], Contracts[l], IdlsOf[l]) # {}
        /\ \A k \in InstructionKeys :
            \A a \in ToSet(FlattenAccounts(IdlsOf[l][k[1]].instructions[k[2]].accounts)) :
                a.seeds \in Seq(ToSet(a.seeds))

\* What the paths of an instruction's seeds stand for is of the type that the IDL
\* gives them, and other inputs than these have names of their own.
ASSUME DeriveAssumption ==
    \A c \in Calls : c.kind = "derive" =>
        /\ c.key \in InstructionKeys
        /\ c.more = <<>> \/ ~DOMAIN c.more \subseteq {InputNames[p] : p \in DOMAIN InputNames}
        /\ \A l \in Made :
            LET idl == IdlsOf[l][c.key[1]]
                ix == idl.instructions[c.key[2]]
            IN  \A a \in ToSet(FlattenAccounts(ix.accounts)) : \A s \in ToSet(a.seeds) :
                    s.kind # "const" =>
                        \A e \in SeedEncoding(idl, ix, s) : SeedParses(e, c.named[s.path])

-----------------------------------------------------------------------------
AdapterInit == GateInit /\ <<live.lock, live.made>> \in Resolvable

\* Another call.  None looks at the lock: one lock for each contract is enough.
Call(input) == work' = input /\ UNCHANGED live

AdapterNext ==
    \/ \E d \in Resolvable : Deploy(d[1], d[2])
    \/ \E a \in Actions : Build(a)
    \/ \E edit \in Edits : Edit(edit)
    \/ Sign
    \/ work = NoWork /\ live.lock = live.made /\ \E input \in Calls : Call(input)

AdapterSpec == AdapterInit /\ [][AdapterNext]_gateVars
-----------------------------------------------------------------------------
\* Properties of the addresses

\* What a name stands for in the recipe of an account: the path of its IDL that
\* has this name.
InputsFor(account, named) ==
    LET paths == {s.path : s \in {t \in ToSet(account.seeds) : t.kind # "const"}}
    IN  [name \in {InputNames[p] : p \in paths} |->
            named[CHOOSE p \in paths : InputNames[p] = name]]

\* These inputs and more besides.
InputsWith(more, inputs) ==
    [name \in DOMAIN more \cup DOMAIN inputs |->
        IF name \in DOMAIN more THEN more[name] ELSE inputs[name]]

(***************************************************************************)
(* The manifest of an accepted deployment leads to the address that the    *)
(* program derives, for every derived account of every instruction that    *)
(* the IDL does not place under another program, although accounts of one  *)
(* name share recipes across instructions; and inputs other than those of  *)
(* the recipe are refused (generate-adapter-codecs.mjs 149-251,            *)
(* resolution.ts 94-324).                                                  *)
(***************************************************************************)
ManifestFindsSeeds ==
    work.kind = "derive" =>
        LET manifest == Manifests[live.made]
            idls == IdlsOf[live.made]
            accounts == FlattenAccounts(idls[work.key[1]].instructions[work.key[2]].accounts)
            answer(recipe, account) ==
                DerivePdaStrings(manifest, recipe,
                                 InputsWith(work.more, InputsFor(account, work.named)))
        IN  \A account \in ToSet(accounts) :
                account.seeds # <<>> /\ account.owner = <<>> =>
                    \E recipe \in PdaRecipeKey(manifest, work.key, account.name) :
                        answer(recipe, account) =
                            IF work.more = <<>>
                            THEN DerivedByProgram(idls, work.key, account, work.named)
                            ELSE [code |-> "unexpected_input", address |-> <<>>, bump |-> 0]

(***************************************************************************)
(* A public key keeps its value through base58, each key has one string,   *)
(* and the encoder of resolution.ts agrees with the one of liquidation.ts; *)
(* and the test of the curve, which computes a root, is the equation of    *)
(* the curve: no point passes for a program-derived address and no other   *)
(* digest is skipped (resolution.ts 326-365).                              *)
(***************************************************************************)
KeysAreExact ==
    /\ work.kind = "bytes" =>
        /\ Base58Decode(Base58Encode(work.bytes)) = work.bytes
        /\ Base58OfNumber(work.bytes) = Base58Encode(work.bytes)
    /\ work.kind = "string" => Base58Encode(Base58Decode(work.string)) = work.string
    /\ work.kind = "curve" => \A y \in 0..work.p - 1 :
        IsEd25519Point(y, work.d, work.p) = HasPoint(y, work.d, work.p)
=============================================================================
