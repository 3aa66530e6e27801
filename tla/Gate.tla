-------------------------------- MODULE Gate --------------------------------
(***************************************************************************)
(* The gate in front of the signer, envelope.ts at work: a keeper that has *)
(* deployed a pinned protocol (a lock, and the contract generated from its *)
(* IDLs), builds an envelope, and has it validated and signed; in between  *)
(* another revision may be deployed and the envelope may be changed.       *)
(***************************************************************************)
EXTENDS Envelope

CONSTANTS
    Locks,          \* protocol locks, by name
    IdlsOf,         \* the IDLs that each of them pins
    Made,           \* the locks whose contract exists
    Edits,          \* changes that an envelope may undergo
    MaxEdits        \* bound: changes of one envelope

Contracts == [l \in Made |-> CHOOSE c \in BuildContract(Locks[l], IdlsOf[l]) : TRUE]

\* Changes that no invalid fixture makes.
OtherChanges ==
    {"schema", "extra_account", "optional_account", "extra_byte", "not_hex",
     "remaining_account", "hook_account", "hook_remaining"}

ASSUME GateAssumption ==
    /\ Made \subseteq DOMAIN Locks /\ DOMAIN IdlsOf = DOMAIN Locks /\ MaxEdits \in Nat
    /\ Edits \subseteq DOMAIN InvalidCases \cup OtherChanges
    /\ \A l \in Made : BuildContract(Locks[l], IdlsOf[l]) # {}

\* Accounts and their groups are lists; a u16 counts the accounts of a hook, and
\* a u32 its 16 bytes of data.
ASSUME IdlAssumption ==
    /\ Radix > 2
    /\ \A l \in Made, k \in InstructionKeys :
        LET accounts == IdlsOf[l][k[1]].instructions[k[2]].accounts IN
        /\ accounts \in Seq(ToSet(accounts))
        /\ \A a \in ToSet(accounts) : a.accounts \in Seq(ToSet(a.accounts))
        /\ Len(FlattenAccounts(accounts)) < Radix * Radix

\* A hash is one of eight bytes, and two IDLs of one hash are one IDL.
ASSUME HashAssumption ==
    /\ \A k \in InstructionKeys : AnchorHash[k[2]] \in [1..8 -> Byte]
    /\ \A l \in Made, m \in DOMAIN Locks :
        (\A p \in ToSet(Locks[l].programs) :
            \E q \in ToSet(Locks[m].programs) : q.name = p.name /\ q.idl = p.idl)
        => IdlsOf[l] = IdlsOf[m]

VARIABLES
    live,   \* the names of the deployed lock and of what contract was made from
    work    \* the envelope in hand

gateVars == <<live, work>>

\* The pairs with which a validator can be constructed.
Deployable ==
    {d \in (DOMAIN Locks) \X Made : ConstructValidator(Locks[d[1]], Contracts[d[2]]) = "ok"}

NoWork == [kind |-> "none"]

-----------------------------------------------------------------------------
\* Changes of an envelope: those of the invalid fixtures, and others.  The digest
\* is renewed after each, so that only the other checks can tell.

Changed(edit, e) ==
    CASE edit \in DOMAIN InvalidCases -> Mutated(edit, e)
      [] edit = "schema" -> [e EXCEPT !.intent.schema = 2]
      [] edit = "extra_account" ->
            [e EXCEPT !.primary.accounts = Append(@, [@[1] EXCEPT !.name = "extra"])]
      [] edit = "optional_account" ->
            [e EXCEPT !.primary.accounts =
                InsertAt(@, 2, [@[1] EXCEPT !.name = "leverage_position"])]
      [] edit = "extra_byte" -> [e EXCEPT !.primary.data = Append(@, 0)]
      [] edit = "not_hex" -> [e EXCEPT !.primary.data[Len(e.primary.data)] = Radix]
      [] edit = "remaining_account" ->
            [e EXCEPT !.primary.remaining = Append(@, e.primary.accounts[1])]
      [] edit = "hook_account" -> [e EXCEPT !.hooks[1].accounts = SubSeq(@, 1, Len(@) - 1)]
      [] edit = "hook_remaining" -> [e EXCEPT !.hooks[2].remaining = e.hooks[2].accounts]

Edited(edit, e) ==
    IF edit = "parity_mismatch" THEN Changed(edit, e) ELSE Sealed(Changed(edit, e))

\* Whether there is something to change.
Editable(edit, e) ==
    /\ edit \in {"missing_required_account", "account_order_mismatch"} => Len(e.primary.accounts) >= 2
    /\ edit = "remaining_accounts_mismatch" => Len(e.primary.remaining) >= 2
    /\ edit \in {"cpi_hook_mismatch", "delegated_hook_data_mismatch", "hook_account", "hook_remaining"}
            => Len(e.hooks) = 2

-----------------------------------------------------------------------------
GateInit == (\E d \in Deployable : live = [lock |-> d[1], made |-> d[2]]) /\ work = NoWork

Deploy(lock, made) ==
    /\ work.kind \in {"none", "envelope"}
    /\ <<lock, made>> \in Deployable
    /\ live' = [lock |-> lock, made |-> made] /\ UNCHANGED work

Build(action) ==
    /\ work = NoWork
    /\ work' = [kind |-> "envelope", e |-> BuildValidEnvelope(Contracts[live.made], action),
                edits |-> 0, signed |-> {}]
    /\ UNCHANGED live

Edit(edit) ==
    /\ work.kind = "envelope" /\ work.edits < MaxEdits /\ work.signed = {}
    /\ Editable(edit, work.e)
    /\ work' = [work EXCEPT !.e = Edited(edit, @), !.edits = @ + 1]
    /\ UNCHANGED live

\* The envelope passes the gate in front of the signer.
Sign ==
    /\ work.kind = "envelope" /\ work.signed = {}
    /\ ValidateForSigning(Locks[live.lock], Contracts[live.made], work.e) = "ok"
    /\ work' = [work EXCEPT !.signed = {live}] /\ UNCHANGED live

GateNext ==
    \/ \E l \in DOMAIN Locks, m \in Made : Deploy(l, m)
    \/ \E a \in Actions : Build(a)
    \/ \E edit \in Edits : Edit(edit)
    \/ Sign

GateSpec == GateInit /\ [][GateNext]_gateVars
-----------------------------------------------------------------------------
\* Properties

(***************************************************************************)
(* The validator accepts an envelope if and only if it is one of the       *)
(* pinned contract: no check of the walk over the accounts, the hooks and  *)
(* the digest can be passed by changes that undo each other, and none      *)
(* refuses what the contract allows (envelope.ts 212-461).                 *)
(***************************************************************************)
AcceptsExactlyPinned ==
    work.kind = "envelope" =>
        LET contract == Contracts[live.made] IN
        (Validate(Locks[live.lock], contract, work.e) = "ok") = EnvelopeIsPinned(contract, work.e)

(***************************************************************************)
(* What was signed was, at that time, an envelope of the contract made     *)
(* from the deployed lock's own IDLs, and that lock was frozen with every  *)
(* program and hash in place (envelope.ts 290-303).                        *)
(***************************************************************************)
SignedIsPinned ==
    work.kind = "envelope" =>
        \A at \in work.signed :
            /\ EnvelopeIsPinned(Contracts[at.made], work.e)
            /\ IdlsOf[at.made] = IdlsOf[at.lock]
            /\ Locks[at.lock].status = "frozen"
            /\ \A p \in ToSet(Locks[at.lock].programs) : <<>> \notin {p.id, p.idl, p.binary}
=============================================================================
