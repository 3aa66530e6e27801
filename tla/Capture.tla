------------------------------- MODULE Capture -------------------------------
(***************************************************************************)
(* How the pinned protocol gets into the repository: capture-devnet.mjs    *)
(* reads the deployed programs, capture-protocol.mjs pins what was read    *)
(* (or built) and regenerates what is derived from it, and                 *)
(* validate-repo.mjs is the gate of a commit.  Programs are upgraded while *)
(* a capture runs, and a capture may stop between any two writes.          *)
(*                                                                         *)
(* An IDL or a binary is a version; a hash is what it is the hash of.  The *)
(* hash of an IDL stands for the compatibility fingerprints as well.  A    *)
(* file that a generator writes is the revision and the IDLs it was made   *)
(* from.                                                                   *)
(***************************************************************************)
EXTENDS Integers, Sequences

CONSTANTS
    Programs,       \* the sequence of the programs, in the order of the lock
    Versions,       \* versions of an IDL or a binary
    Builds,         \* what commits build: the pair of each program
    Revisions,      \* names of revisions
    MaxUpgrades,    \* bound: changes of the chain
    MaxCaptures,    \* bound: captures
    NoRecord        \* no deployment record

Names == {Programs[i] : i \in DOMAIN Programs}
Pair == [idl : Versions, binary : Versions]

ASSUME CaptureAssumption ==
    /\ Programs \in Seq(Names) /\ Programs # <<>> /\ Builds \subseteq [Names -> Pair]

VARIABLES
    chain,      \* what is deployed: the IDL account and the binary of each program
    ever,       \* history: the pairs that were deployed at some time
    upgrades,   \* the changes of the chain so far
    commit,     \* the IDLs vendored in the source checkout
    target,     \* its ignored target directory
    files,      \* the repository
    captures,   \* the captures so far, which are the times of their locks
    pc,         \* the next step of the capture that runs, or "idle"
    at,         \* the program or the generated file that the step is at
    seen,       \* the accounts read so far
    memory,     \* the lock that the capture makes, and the old revision
    devnet      \* whether the capture is of the chain

captureVars == <<chain, ever, upgrades, commit, target, files, captures, pc, at, seen, memory, devnet>>
environment == <<chain, ever, upgrades, commit>>

\* The files that the generators write, in this order.
Generated == <<"contract", "envelopes", "manifest", "codecs", "layout", "orders">>

\* What a generator writes, from the lock and the IDLs in the repository.
Derived(f) == [revision |-> f.lock.revision, idls |-> f.idls]

\* validate-repo.mjs: the artifacts are those of the lock.
PinsArtifacts(f) == f.lock.idls = f.idls /\ f.lock.binaries = f.binaries

\* The record of a deployment, if there is one, is about the lock.
RecordAgrees(f) ==
    f.record # NoRecord =>
        /\ f.record.revision = f.lock.revision /\ f.record.commit = f.lock.commit
        /\ f.record.time = f.lock.time
        /\ f.record.idls = f.lock.idls /\ f.record.binaries = f.lock.binaries

\* The fixtures that are written by hand name the revision and the lock.
FixturesAgree(f) ==
    f.scheduler = f.lock.revision /\ f.lifecycle = f.lock.revision /\ f.health = f.lock

\* The generators, run again, would write what is there.
GeneratedAgree(f) == \A i \in DOMAIN Generated : f[Generated[i]] = Derived(f)

Validates(f) == PinsArtifacts(f) /\ RecordAgrees(f) /\ FixturesAgree(f) /\ GeneratedAgree(f)

-----------------------------------------------------------------------------
Lock(revision, source, time, pairs) ==
    [revision |-> revision, commit |-> source, tree |-> source, time |-> time,
     idls |-> [p \in Names |-> pairs[p].idl], binaries |-> [p \in Names |-> pairs[p].binary]]

\* A repository that has been captured from the chain.
Captured(lock) ==
    LET made == [revision |-> lock.revision, idls |-> lock.idls] IN
    [idls |-> lock.idls, binaries |-> lock.binaries, lock |-> lock,
     scheduler |-> lock.revision, lifecycle |-> lock.revision, health |-> lock,
     contract |-> made, envelopes |-> made, manifest |-> made, codecs |-> made,
     layout |-> made, orders |-> made,
     record |-> [revision |-> lock.revision, commit |-> lock.commit, time |-> lock.time,
                 idls |-> lock.idls, binaries |-> lock.binaries]]

CaptureInit ==
    /\ chain \in Builds
    /\ ever = [p \in Names |-> {chain[p]}] /\ upgrades = 0
    /\ commit = [p \in Names |-> chain[p].idl] /\ target = chain
    /\ \E r \in Revisions : files = Captured(Lock(r, commit, 0, chain))
    /\ captures = 0 /\ pc = "idle" /\ at = 1 /\ seen = target /\ devnet = FALSE
    /\ memory = [lock |-> files.lock, old |-> files.lock.revision, whole |-> TRUE]

\* The upgrade authority replaces a binary, an IDL account, or both in one
\* transaction.
Upgrade(p, pair) ==
    /\ upgrades < MaxUpgrades /\ upgrades' = upgrades + 1
    /\ pair # chain[p]
    /\ chain' = [chain EXCEPT ![p] = pair]
    /\ ever' = [ever EXCEPT ![p] = @ \cup {pair}]
    /\ UNCHANGED <<commit, target, files, captures, pc, at, seen, memory, devnet>>

\* Between captures the checkout is moved to a commit and built.
Checkout(built) ==
    /\ pc = "idle"
    /\ commit' = [p \in Names |-> built[p].idl] /\ target' = built
    /\ UNCHANGED <<chain, ever, upgrades, files, captures, pc, at, seen, memory, devnet>>

\* No capture runs; what one had in memory is gone.
Idle ==
    /\ pc' = "idle" /\ at' = 1 /\ seen' = target /\ devnet' = FALSE
    /\ memory' = [lock |-> files.lock, old |-> files.lock.revision, whole |-> TRUE]

-----------------------------------------------------------------------------
\* capture-devnet.mjs

StartDevnet(revision) ==
    /\ pc = "idle" /\ captures < MaxCaptures
    /\ pc' = "accounts" /\ at' = 1 /\ devnet' = TRUE
    /\ memory' = [memory EXCEPT !.lock.revision = revision]
    /\ UNCHANGED <<environment, target, files, captures, seen>>

\* The Program and the IDL account, in one request.
ReadAccounts ==
    /\ pc = "accounts" /\ pc' = "data"
    /\ seen' = [seen EXCEPT ![Programs[at]].idl = chain[Programs[at]].idl]
    /\ UNCHANGED <<environment, target, files, captures, at, memory, devnet>>

\* The ProgramData account; the IDL must be the one of the source.
ReadData ==
    /\ pc = "data" /\ seen[Programs[at]].idl = commit[Programs[at]] /\ pc' = "recheck"
    /\ seen' = [seen EXCEPT ![Programs[at]].binary = chain[Programs[at]].binary]
    /\ UNCHANGED <<environment, target, files, captures, at, memory, devnet>>

\* Mutant: the deployment is not read a second time.
NoRecheck ==
    /\ pc = "recheck" /\ pc' = "target"
    /\ UNCHANGED <<environment, target, files, captures, at, seen, memory, devnet>>

\* The three accounts again, in one request: nothing may have changed.
Recheck ==
    /\ pc = "recheck" /\ chain[Programs[at]] = seen[Programs[at]] /\ pc' = "target"
    /\ UNCHANGED <<environment, target, files, captures, at, seen, memory, devnet>>

WriteTargetIdl ==
    /\ pc = "target" /\ pc' = "binary"
    /\ target' = [target EXCEPT ![Programs[at]].idl = seen[Programs[at]].idl]
    /\ UNCHANGED <<environment, files, captures, at, seen, memory, devnet>>

\* The last write of a program; after both, capture-protocol.mjs is run.
WriteTargetBinary ==
    /\ pc = "binary"
    /\ target' = [target EXCEPT ![Programs[at]].binary = seen[Programs[at]].binary]
    /\ IF at < Len(Programs) THEN pc' = "accounts" /\ at' = at + 1 ELSE pc' = "protocol" /\ at' = 1
    /\ UNCHANGED <<environment, files, captures, seen, memory, devnet>>

-----------------------------------------------------------------------------
\* capture-protocol.mjs

\* Run by hand, for a candidate that was built and not deployed.
StartProtocol(revision) ==
    /\ pc = "idle" /\ captures < MaxCaptures
    /\ pc' = "protocol" /\ at' = 1 /\ devnet' = FALSE
    /\ memory' = [memory EXCEPT !.lock.revision = revision]
    /\ UNCHANGED <<environment, target, files, captures, seen>>

\* The lock is read, and given its revision, time and source.
ReadLock ==
    /\ pc = "protocol" /\ pc' = "copy_idl" /\ captures' = captures + 1
    /\ memory' = [lock |-> [revision |-> memory.lock.revision, commit |-> commit, tree |-> commit,
                             time |-> captures + 1, idls |-> files.lock.idls,
                             binaries |-> files.lock.binaries],
                  old |-> files.lock.revision,
                  whole |-> files.scheduler = files.lock.revision
                            /\ files.lifecycle = files.lock.revision]
    /\ UNCHANGED <<environment, target, files, at, seen, devnet>>

CopyIdl ==
    /\ pc = "copy_idl" /\ pc' = "copy_binary"
    /\ files' = [files EXCEPT !.idls[Programs[at]] = target[Programs[at]].idl]
    /\ memory' = [memory EXCEPT !.lock.idls[Programs[at]] = target[Programs[at]].idl]
    /\ UNCHANGED <<environment, target, captures, at, seen, devnet>>

CopyBinary ==
    /\ pc = "copy_binary"
    /\ files' = [files EXCEPT !.binaries[Programs[at]] = target[Programs[at]].binary]
    /\ memory' = [memory EXCEPT !.lock.binaries[Programs[at]] = target[Programs[at]].binary]
    /\ IF at < Len(Programs) THEN pc' = "copy_idl" /\ at' = at + 1 ELSE pc' = "lock" /\ at' = 1
    /\ UNCHANGED <<environment, target, captures, seen, devnet>>

WriteLock ==
    /\ pc = "lock" /\ pc' = "scheduler"
    /\ files' = [files EXCEPT !.lock = memory.lock]
    /\ UNCHANGED <<environment, target, captures, at, seen, memory, devnet>>

\* The fixtures get the new revision where they have the old one.
RenameScheduler ==
    /\ pc = "scheduler" /\ pc' = "lifecycle"
    /\ files' = [files EXCEPT !.scheduler = IF @ = memory.old THEN memory.lock.revision ELSE @]
    /\ UNCHANGED <<environment, target, captures, at, seen, memory, devnet>>

RenameLifecycle ==
    /\ pc = "lifecycle" /\ pc' = "health"
    /\ files' = [files EXCEPT !.lifecycle = IF @ = memory.old THEN memory.lock.revision ELSE @]
    /\ UNCHANGED <<environment, target, captures, at, seen, memory, devnet>>

WriteHealth ==
    /\ pc = "health" /\ pc' = "generate"
    /\ files' = [files EXCEPT !.health = memory.lock]
    /\ UNCHANGED <<environment, target, captures, at, seen, memory, devnet>>

\* Mutant: the last generated file, the layout of the orders, is left out.
GenerateButOrders ==
    /\ pc = "generate"
    /\ files' = IF Generated[at] = "orders" THEN files
                ELSE [files EXCEPT ![Generated[at]] = Derived(files)]
    /\ IF at < Len(Generated) THEN pc' = pc /\ at' = at + 1 ELSE pc' = "remove" /\ at' = 1
    /\ UNCHANGED <<environment, target, captures, seen, memory, devnet>>

\* One file of one of the three generators.
Generate ==
    /\ pc = "generate"
    /\ files' = [files EXCEPT ![Generated[at]] = Derived(files)]
    /\ IF at < Len(Generated) THEN pc' = pc /\ at' = at + 1 ELSE pc' = "remove" /\ at' = 1
    /\ UNCHANGED <<environment, target, captures, seen, memory, devnet>>

RemoveRecord ==
    /\ pc = "remove"
    /\ files' = [files EXCEPT !.record = NoRecord]
    /\ pc' = IF devnet THEN "record" ELSE "done"
    /\ UNCHANGED <<environment, target, captures, at, seen, memory, devnet>>

\* Back in capture-devnet.mjs: the lock is read again.
WriteRecord ==
    /\ pc = "record" /\ pc' = "done"
    /\ files' = [files EXCEPT !.record =
                    [revision |-> files.lock.revision, commit |-> commit, time |-> files.lock.time,
                     idls |-> [p \in Names |-> seen[p].idl],
                     binaries |-> [p \in Names |-> seen[p].binary]]]
    /\ UNCHANGED <<environment, target, captures, at, seen, memory, devnet>>

\* The capture ends, or stops between two steps or at a check that fails.
Stop ==
    /\ pc # "idle" /\ Idle
    /\ UNCHANGED <<environment, target, files, captures>>

\* compute-worktree-fingerprint.mjs --write
WriteFingerprint ==
    /\ pc = "idle"
    /\ files' = [files EXCEPT !.lock.tree = commit]
    /\ UNCHANGED <<environment, target, captures, pc, at, seen, memory, devnet>>

CaptureNext ==
    \/ \E p \in Names, pair \in Pair : Upgrade(p, pair)
    \/ \E built \in Builds : Checkout(built)
    \/ \E r \in Revisions : StartDevnet(r) \/ StartProtocol(r)
    \/ ReadAccounts \/ ReadData \/ Recheck \/ WriteTargetIdl \/ WriteTargetBinary
    \/ ReadLock \/ CopyIdl \/ CopyBinary \/ WriteLock \/ RenameScheduler \/ RenameLifecycle
    \/ WriteHealth \/ Generate \/ RemoveRecord \/ WriteRecord \/ Stop \/ WriteFingerprint

CaptureSpec == CaptureInit /\ [][CaptureNext]_captureVars
-----------------------------------------------------------------------------
\* Properties

(***************************************************************************)
(* A repository with a deployment record that passes its validation pins,  *)
(* for each program, an IDL and a binary that were deployed together, and  *)
(* names a source commit with these IDLs, whatever was upgraded during the *)
(* capture and wherever captures stopped (capture-devnet.mjs 30-64,        *)
(* validate-repo.mjs 76-108).                                              *)
(***************************************************************************)
RecordIsDeployed ==
    Validates(files) /\ files.record # NoRecord =>
        \A p \in Names :
            /\ [idl |-> files.idls[p], binary |-> files.binaries[p]] \in ever[p]
            /\ files.record.commit[p] = files.idls[p]

(***************************************************************************)
(* A capture that runs to its end leaves a repository that passes its      *)
(* validation, also after captures that stopped half way, as long as the   *)
(* fixtures it started from were those of the lock.                        *)
(***************************************************************************)
CompletedValidates == pc = "done" /\ memory.whole => Validates(files)
=============================================================================
