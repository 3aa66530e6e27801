---------------------------- MODULE ReadingProofs ----------------------------
(***************************************************************************)
(* Proofs about what is read of the chain and used later: the record of a  *)
(* capture, for every number of programs, versions, upgrades and captures, *)
(* wherever captures stop; and what a transfer was valued at, which is     *)
(* credited.                                                               *)
(***************************************************************************)
EXTENDS Capture, TransferFees, TLAPS

-----------------------------------------------------------------------------
\* Captures

\* The steps of a capture, in their order.
Copying == {"copy_idl", "copy_binary"}
Locked == {"scheduler", "lifecycle", "health", "generate", "remove", "record", "done"}
Protocol == {"protocol", "lock"} \cup Copying \cup Locked

\* The programs before the one that the step is at.
Earlier == {Programs[i] : i \in 1..(at - 1)}

LockType ==
    [revision : Revisions, commit : [Names -> Versions], tree : [Names -> Versions], time : Nat,
     idls : [Names -> Versions], binaries : [Names -> Versions]]

FileNames ==
    {"idls", "binaries", "lock", "scheduler", "lifecycle", "health", "contract", "envelopes",
     "manifest", "codecs", "layout", "orders", "record"}

TypeInv ==
    /\ chain \in [Names -> Pair] /\ ever \in [Names -> SUBSET Pair]
    /\ \A p \in Names : chain[p] \in ever[p]
    /\ commit \in [Names -> Versions] /\ target \in [Names -> Pair] /\ seen \in [Names -> Pair]
    /\ files = [f \in FileNames |-> files[f]]
    /\ files.idls \in [Names -> Versions] /\ files.binaries \in [Names -> Versions]
    /\ files.lock \in LockType
    /\ memory = [lock |-> memory.lock, old |-> memory.old, whole |-> memory.whole]
    /\ memory.lock \in LockType
    /\ captures \in Nat
    /\ pc \in {"idle", "accounts", "data", "recheck", "target", "binary"} \cup Protocol
    /\ at \in Nat \ {0}
    /\ pc \in {"accounts", "data", "recheck", "target", "binary"} \cup Copying => at <= Len(Programs)
    /\ pc = "generate" => at <= Len(Generated)
    /\ pc \in {"protocol", "lock", "scheduler", "lifecycle", "health"} => at = 1
    /\ pc = "record" => devnet

\* What was read of a program was deployed as a pair, and the checkout has its IDL.
Deployed(p) == seen[p] \in ever[p] /\ seen[p].idl = commit[p]

\* The target directory holds what was read.
Kept(p) == target[p] = seen[p]

ReadInv ==
    /\ pc = "accounts" => \A p \in Earlier : Deployed(p) /\ Kept(p)
    /\ pc \in {"data", "recheck", "target", "binary"} =>
          \A p \in Earlier \ {Programs[at]} : Deployed(p) /\ Kept(p)
    /\ pc = "recheck" => seen[Programs[at]].idl = commit[Programs[at]]
    /\ pc \in {"target", "binary"} => Deployed(Programs[at])
    /\ pc = "binary" => target[Programs[at]].idl = seen[Programs[at]].idl
    /\ pc \in Protocol /\ devnet => \A p \in Names : Deployed(p) /\ Kept(p)

\* The repository and the lock in memory have the target's IDL, or its binary.
IdlCopied(p) == files.idls[p] = target[p].idl /\ memory.lock.idls[p] = target[p].idl
BinaryCopied(p) ==
    files.binaries[p] = target[p].binary /\ memory.lock.binaries[p] = target[p].binary

CopyInv ==
    /\ pc \in Copying => \A p \in Earlier : IdlCopied(p) /\ BinaryCopied(p)
    /\ pc = "copy_binary" => IdlCopied(Programs[at])
    /\ pc \in {"lock"} \cup Locked => \A p \in Names : IdlCopied(p) /\ BinaryCopied(p)

\* What has been written since the lock is about the lock.
WriteInv ==
    /\ pc \in Copying \cup {"lock"} \cup Locked => memory.lock.commit = commit
    /\ pc \in Locked => files.lock = memory.lock
    /\ memory.whole =>
        /\ pc \in Copying \cup {"lock", "scheduler"} => files.scheduler = memory.old
        /\ pc \in Copying \cup {"lock", "scheduler", "lifecycle"} => files.lifecycle = memory.old
        /\ pc \in Locked \ {"scheduler"} => files.scheduler = memory.lock.revision
        /\ pc \in Locked \ {"scheduler", "lifecycle"} => files.lifecycle = memory.lock.revision
    /\ pc \in {"generate", "remove", "record", "done"} => files.health = memory.lock
    /\ pc = "generate" => \A i \in 1..(at - 1) : files[Generated[i]] = Derived(files)
    /\ pc \in {"remove", "record", "done"} => GeneratedAgree(files)
    /\ pc = "done" => RecordAgrees(files)

\* A record names a pair that was deployed, and a commit with its IDL.
RecordInv ==
    files.record # NoRecord =>
        \A p \in Names :
            /\ [idl |-> files.record.idls[p], binary |-> files.record.binaries[p]] \in ever[p]
            /\ files.record.commit[p] = files.record.idls[p]

CaptureInv == TypeInv /\ ReadInv /\ CopyInv /\ WriteInv /\ RecordInv

-----------------------------------------------------------------------------
LEMMA ProgramNames ==
    /\ Len(Programs) \in Nat \ {0} /\ Names = {Programs[i] : i \in 1..Len(Programs)}
    /\ \A i \in 1..Len(Programs) : Programs[i] \in Names
<1>1. Programs \in Seq(Names) /\ Programs # <<>>
  BY CaptureAssumption
<1>2. Len(Programs) \in Nat \ {0} /\ DOMAIN Programs = 1..Len(Programs)
  BY <1>1
<1>3. QED
  BY <1>2 DEF Names

\* A step of a capture moves from one program to the next, or past the last.
LEMMA NextProgram ==
    ASSUME at \in Nat \ {0}, at <= Len(Programs)
    PROVE  /\ Programs[at] \in Names
           /\ at < Len(Programs) /\ at' = at + 1 => Earlier' = Earlier \cup {Programs[at]}
           /\ ~(at < Len(Programs)) => Names = Earlier \cup {Programs[at]}
           /\ at' = at => Earlier' = Earlier
           /\ at' = 1 => Earlier' = {}
           /\ Earlier \subseteq Names
<1>1. Programs[at] \in Names /\ Len(Programs) \in Nat
  BY ProgramNames
<1>2. ASSUME at < Len(Programs), at' = at + 1 PROVE Earlier' = Earlier \cup {Programs[at]}
  <2>1. at' - 1 = at
    BY <1>2
  <2>2. Earlier' = {Programs[i] : i \in 1..at}
    BY <2>1 DEF Earlier
  <2>3. 1..at = 1..(at - 1) \cup {at}
    OBVIOUS
  <2>4. QED
    BY <2>2, <2>3 DEF Earlier
<1>3. ASSUME ~(at < Len(Programs)) PROVE Names = Earlier \cup {Programs[at]}
  <2>1. at = Len(Programs) /\ 1..at = 1..(at - 1) \cup {at}
    BY <1>1, <1>3
  <2>2. QED
    BY <2>1, ProgramNames DEF Earlier
<1>4. Earlier \subseteq Names
  <2>1. 1..(at - 1) \subseteq 1..Len(Programs)
    BY <1>1
  <2>2. QED
    BY <2>1, ProgramNames DEF Earlier
<1>5. at' = at => Earlier' = Earlier
  BY DEF Earlier
<1>6. at' = 1 => Earlier' = {}
  BY DEF Earlier
<1>7. QED
  BY <1>1, <1>2, <1>3, <1>4, <1>5, <1>6

\* A write changes one file.
LEMMA OneFile ==
    ASSUME files = [f \in FileNames |-> files[f]], NEW g \in FileNames, NEW v,
           files' = [files EXCEPT ![g] = v]
    PROVE  /\ files' = [f \in FileNames |-> files'[f]]
           /\ files'[g] = v
           /\ \A f \in FileNames \ {g} : files'[f] = files[f]
OBVIOUS

-----------------------------------------------------------------------------
LEMMA InitInv == CaptureInit => CaptureInv
<1> SUFFICES ASSUME CaptureInit PROVE CaptureInv
  OBVIOUS
<1>1. /\ chain \in [Names -> Pair] /\ commit = [p \in Names |-> chain[p].idl] /\ target = chain
      /\ ever = [p \in Names |-> {chain[p]}] /\ seen = target
      /\ captures = 0 /\ pc = "idle" /\ at = 1
  BY CaptureAssumption DEF CaptureInit
<1>2. PICK r \in Revisions : files = Captured(Lock(r, commit, 0, chain))
  BY DEF CaptureInit
<1>3. memory = [lock |-> files.lock, old |-> files.lock.revision, whole |-> TRUE]
  BY DEF CaptureInit
<1> DEFINE lock == Lock(r, commit, 0, chain)
<1>4. commit \in [Names -> Versions]
  BY <1>1 DEF Pair
<1>5. lock \in LockType /\ lock.commit = commit
      /\ lock.idls = [p \in Names |-> chain[p].idl]
      /\ lock.binaries = [p \in Names |-> chain[p].binary]
  BY <1>1, <1>4 DEF Lock, LockType, Pair
<1> HIDE DEF lock
<1>6. /\ files = [f \in FileNames |-> files[f]]
      /\ files.idls = lock.idls /\ files.binaries = lock.binaries /\ files.lock = lock
      /\ files.record.idls = lock.idls /\ files.record.binaries = lock.binaries
      /\ files.record.commit = lock.commit
  BY <1>2 DEF Captured, FileNames, lock
<1>7. TypeInv
  <2>1. /\ files.idls \in [Names -> Versions] /\ files.binaries \in [Names -> Versions]
        /\ files.lock \in LockType
    BY <1>5, <1>6 DEF LockType
  <2>2. memory = [lock |-> memory.lock, old |-> memory.old, whole |-> memory.whole]
        /\ memory.lock \in LockType
    BY <1>3, <2>1
  <2>3. ever \in [Names -> SUBSET Pair] /\ \A p \in Names : chain[p] \in ever[p]
    BY <1>1
  <2>4. QED
    BY <1>1, <1>4, <1>6, <2>1, <2>2, <2>3 DEF TypeInv, Copying, Protocol
<1>8. RecordInv
  BY <1>1, <1>5, <1>6 DEF RecordInv, Pair
<1>9. QED
  BY <1>1, <1>7, <1>8 DEF CaptureInv, ReadInv, CopyInv, WriteInv, Copying, Protocol, Locked

-----------------------------------------------------------------------------
\* Between captures.

LEMMA UpgradeInv ==
    ASSUME CaptureInv, NEW q \in Names, NEW pair \in Pair, Upgrade(q, pair)
    PROVE  CaptureInv'
<1>1. /\ chain' = [chain EXCEPT ![q] = pair] /\ ever' = [ever EXCEPT ![q] = @ \cup {pair}]
      /\ UNCHANGED <<commit, target, files, captures, pc, at, seen, memory, devnet>>
  BY DEF Upgrade
<1>2. TypeInv /\ ReadInv /\ CopyInv /\ WriteInv /\ RecordInv
  BY DEF CaptureInv
<1>3. chain' \in [Names -> Pair] /\ ever' \in [Names -> SUBSET Pair]
  BY <1>1, <1>2 DEF TypeInv
<1>4. (\A p \in Names : ever[p] \subseteq ever'[p]) /\ \A p \in Names : chain'[p] \in ever'[p]
  BY <1>1, <1>2 DEF TypeInv
<1>5. TypeInv'
  BY <1>1, <1>2, <1>3, <1>4 DEF TypeInv
<1>6. Earlier' = Earlier /\ \A p \in Names : Deployed(p) /\ Kept(p) => Deployed(p)' /\ Kept(p)'
  BY <1>1, <1>4 DEF Earlier, Deployed, Kept
<1>7. \A p \in Names : Deployed(p) => Deployed(p)'
  BY <1>1, <1>4 DEF Deployed
<1>8. ReadInv'
  <2>1. pc \in {"accounts", "data", "recheck", "target", "binary"} =>
            Programs[at] \in Names /\ Earlier \subseteq Names
    BY <1>2, NextProgram DEF TypeInv
  <2>2. QED
    BY <1>1, <1>2, <1>6, <1>7, <2>1 DEF ReadInv
<1>9. CopyInv' /\ WriteInv'
  BY <1>1, <1>2, <1>6 DEF CopyInv, WriteInv, IdlCopied, BinaryCopied, GeneratedAgree, RecordAgrees,
     Derived
<1>10. RecordInv'
  BY <1>1, <1>2, <1>4 DEF RecordInv
<1>11. QED
  BY <1>5, <1>8, <1>9, <1>10 DEF CaptureInv

LEMMA CheckoutInv ==
    ASSUME CaptureInv, NEW built \in Builds, Checkout(built)
    PROVE  CaptureInv'
<1>1. /\ pc = "idle" /\ commit' = [p \in Names |-> built[p].idl] /\ target' = built
      /\ UNCHANGED <<chain, ever, upgrades, files, captures, pc, at, seen, memory, devnet>>
  BY DEF Checkout
<1>2. TypeInv /\ RecordInv
  BY DEF CaptureInv
<1>3. built \in [Names -> Pair]
  BY CaptureAssumption
<1>4. commit' \in [Names -> Versions] /\ target' \in [Names -> Pair]
  BY <1>1, <1>3 DEF Pair
<1>5. TypeInv' /\ RecordInv'
  BY <1>1, <1>2, <1>4 DEF TypeInv, RecordInv
<1>6. QED
  BY <1>1, <1>5 DEF CaptureInv, ReadInv, CopyInv, WriteInv, Copying, Protocol, Locked

\* A capture begins, of the chain or of what was built.
LEMMA StartInv ==
    ASSUME CaptureInv, NEW r \in Revisions, StartDevnet(r) \/ StartProtocol(r)
    PROVE  CaptureInv'
<1>1. /\ pc = "idle" /\ memory' = [memory EXCEPT !.lock.revision = r] /\ at' = 1
      /\ UNCHANGED <<environment, target, files, captures, seen>>
      /\ pc' = "accounts" \/ (pc' = "protocol" /\ devnet' = FALSE)
  BY DEF StartDevnet, StartProtocol
<1>2. TypeInv /\ RecordInv
  BY DEF CaptureInv
<1>3. /\ memory' = [lock |-> memory'.lock, old |-> memory'.old, whole |-> memory'.whole]
      /\ memory'.lock \in LockType
  <2>1. memory = [lock |-> memory.lock, old |-> memory.old, whole |-> memory.whole]
    BY <1>2 DEF TypeInv
  <2>2. memory.lock \in LockType
    BY <1>2 DEF TypeInv
  <2>3. [memory.lock EXCEPT !.revision = r] \in LockType
    BY <2>2 DEF LockType
  <2>4. memory'.lock = [memory.lock EXCEPT !.revision = r]
    BY <1>1, <2>1
  <2>5. memory' = [lock |-> memory'.lock, old |-> memory'.old, whole |-> memory'.whole]
    BY <1>1, <2>1
  <2>6. QED
    BY <2>3, <2>4, <2>5
<1>4. 1 <= Len(Programs)
  BY ProgramNames
<1>5. TypeInv'
  BY <1>1, <1>2, <1>3, <1>4 DEF TypeInv, environment, Copying, Protocol, Locked
<1>6. ReadInv'
  BY <1>1 DEF ReadInv, Earlier, Copying, Protocol, Locked
<1>7. QED
  BY <1>1, <1>2, <1>5, <1>6
     DEF CaptureInv, CopyInv, WriteInv, RecordInv, environment, Copying, Locked

\* What a capture had in memory is gone.
LEMMA StopInv == ASSUME CaptureInv, Stop PROVE CaptureInv'
<1>1. /\ pc' = "idle" /\ at' = 1 /\ seen' = target
      /\ memory' = [lock |-> files.lock, old |-> files.lock.revision, whole |-> TRUE]
      /\ UNCHANGED <<environment, target, files, captures>>
  BY DEF Stop, Idle
<1>2. TypeInv /\ RecordInv
  BY DEF CaptureInv
<1>3. /\ memory' = [lock |-> memory'.lock, old |-> memory'.old, whole |-> memory'.whole]
      /\ memory'.lock \in LockType
  BY <1>1, <1>2 DEF TypeInv
<1>4. TypeInv'
  <2>1. seen' \in [Names -> Pair]
    BY <1>1, <1>2 DEF TypeInv
  <2>2. QED
    BY <1>1, <1>2, <1>3, <2>1 DEF TypeInv, environment, Copying, Protocol, Locked
<1>5. RecordInv'
  BY <1>1, <1>2 DEF RecordInv, environment
<1>6. QED
  BY <1>1, <1>4, <1>5 DEF CaptureInv, ReadInv, CopyInv, WriteInv, Copying, Protocol, Locked

LEMMA FingerprintInv == ASSUME CaptureInv, WriteFingerprint PROVE CaptureInv'
<1>1. /\ pc = "idle" /\ files' = [files EXCEPT !.lock.tree = commit]
      /\ UNCHANGED <<environment, target, captures, pc, at, seen, memory, devnet>>
  BY DEF WriteFingerprint
<1>2. TypeInv /\ RecordInv
  BY DEF CaptureInv
<1>3. [files.lock EXCEPT !.tree = commit] \in LockType
  BY <1>2 DEF TypeInv, LockType
<1>4. files' = [files EXCEPT !["lock"] = [files.lock EXCEPT !.tree = commit]]
  BY <1>1, <1>2 DEF TypeInv, FileNames
<1>5. /\ files' = [f \in FileNames |-> files'[f]] /\ files'.lock \in LockType
      /\ files'.idls = files.idls /\ files'.binaries = files.binaries /\ files'.record = files.record
  BY <1>2, <1>3, <1>4, OneFile DEF TypeInv, FileNames
<1>6. TypeInv' /\ RecordInv'
  BY <1>1, <1>2, <1>5 DEF TypeInv, RecordInv, environment
<1>7. QED
  BY <1>1, <1>6 DEF CaptureInv, ReadInv, CopyInv, WriteInv, Copying, Protocol, Locked

-----------------------------------------------------------------------------
\* capture-devnet.mjs

\* Before the protocol step nothing is written to the repository.
LEMMA OutsideProtocol ==
    ASSUME CaptureInv, UNCHANGED <<environment, files>>, TypeInv', ReadInv',
           pc' \in {"accounts", "data", "recheck", "target", "binary", "protocol"}
    PROVE  CaptureInv'
BY DEF CaptureInv, CopyInv, WriteInv, RecordInv, environment, Copying, Locked

\* One account of one program is read.
LEMMA ReadInvStep ==
    ASSUME CaptureInv, ReadAccounts \/ ReadData
    PROVE  CaptureInv'
<1>p. PICK p : p = Programs[at]
  OBVIOUS
<1>1. /\ UNCHANGED <<environment, target, files, captures, at, memory, devnet>>
      /\ \/ /\ pc = "accounts" /\ pc' = "data"
            /\ seen' = [seen EXCEPT ![p].idl = chain[p].idl]
         \/ /\ pc = "data" /\ pc' = "recheck" /\ seen[p].idl = commit[p]
            /\ seen' = [seen EXCEPT ![p].binary = chain[p].binary]
  BY <1>p DEF ReadAccounts, ReadData
<1>2. TypeInv /\ ReadInv
  BY DEF CaptureInv
<1>3. p \in Names /\ Earlier \subseteq Names /\ Earlier' = Earlier
  BY <1>p, <1>1, <1>2, NextProgram DEF TypeInv
<1>4. seen[p] \in Pair /\ chain[p] \in Pair
  BY <1>2, <1>3 DEF TypeInv
<1>5. /\ seen' \in [Names -> Pair] /\ \A q \in Names \ {p} : seen'[q] = seen[q]
      /\ pc = "data" => seen'[p].idl = seen[p].idl
  <2>1. seen \in [Names -> Pair]
    BY <1>2 DEF TypeInv
  <2>2. CASE seen' = [seen EXCEPT ![p].idl = chain[p].idl] /\ pc # "data"
    BY <1>3, <1>4, <2>1, <2>2 DEF Pair
  <2>3. CASE seen' = [seen EXCEPT ![p].binary = chain[p].binary]
    BY <1>3, <1>4, <2>1, <2>3 DEF Pair
  <2>4. QED
    BY <1>1, <2>2, <2>3
<1>6. TypeInv'
  BY <1>1, <1>2, <1>5 DEF TypeInv, environment, Copying, Protocol, Locked
<1>7. \A q \in Earlier \ {p} : Deployed(q) /\ Kept(q)
  BY <1>p, <1>1, <1>2 DEF ReadInv
<1>8. \A q \in Earlier \ {p} : Deployed(q)' /\ Kept(q)'
  BY <1>1, <1>3, <1>5, <1>7 DEF Deployed, Kept, environment
<1>9. Programs[at'] = p
  BY <1>p, <1>1
<1>10. pc' = "recheck" => seen'[p].idl = commit'[p]
  BY <1>1, <1>5 DEF environment
<1>11. ReadInv'
  BY <1>1, <1>3, <1>8, <1>9, <1>10 DEF ReadInv, Protocol, Copying, Locked
<1>12. QED
  BY <1>1, <1>6, <1>11, OutsideProtocol

\* Nothing has changed since the first reading: the pair was deployed.
LEMMA RecheckInv == ASSUME CaptureInv, Recheck PROVE CaptureInv'
<1>p. PICK p : p = Programs[at]
  OBVIOUS
<1>1. /\ UNCHANGED <<environment, target, files, captures, at, seen, memory, devnet>>
      /\ pc = "recheck" /\ pc' = "target" /\ chain[p] = seen[p]
  BY <1>p DEF Recheck
<1>2. TypeInv /\ ReadInv
  BY DEF CaptureInv
<1>3. p \in Names /\ Earlier' = Earlier
  BY <1>p, <1>1, <1>2, NextProgram DEF TypeInv
<1>4. Deployed(p)'
  BY <1>p, <1>1, <1>2, <1>3 DEF TypeInv, ReadInv, Deployed, environment
<1>5. TypeInv'
  BY <1>1, <1>2 DEF TypeInv, environment, Copying, Protocol, Locked
<1>6. \A q \in Earlier \ {p} : Deployed(q)' /\ Kept(q)'
  BY <1>p, <1>1, <1>2 DEF ReadInv, Deployed, Kept, environment
<1>7. Programs[at'] = p
  BY <1>p, <1>1
<1>8. ReadInv'
  BY <1>1, <1>3, <1>4, <1>6, <1>7 DEF ReadInv, Protocol, Copying, Locked
<1>9. QED
  BY <1>1, <1>5, <1>8, OutsideProtocol

LEMMA TargetIdlInv == ASSUME CaptureInv, WriteTargetIdl PROVE CaptureInv'
<1>p. PICK p : p = Programs[at]
  OBVIOUS
<1>1. /\ UNCHANGED <<environment, files, captures, at, seen, memory, devnet>>
      /\ pc = "target" /\ pc' = "binary" /\ target' = [target EXCEPT ![p].idl = seen[p].idl]
  BY <1>p DEF WriteTargetIdl
<1>2. TypeInv /\ ReadInv
  BY DEF CaptureInv
<1>3. p \in Names /\ Earlier \subseteq Names /\ Earlier' = Earlier
  BY <1>p, <1>1, <1>2, NextProgram DEF TypeInv
<1>4. Deployed(p) /\ \A q \in Earlier \ {p} : Deployed(q) /\ Kept(q)
  BY <1>p, <1>1, <1>2 DEF ReadInv
<1>5. seen[p] \in Pair /\ target[p] \in Pair
  BY <1>2, <1>3 DEF TypeInv
<1>6. /\ target' \in [Names -> Pair] /\ \A q \in Names \ {p} : target'[q] = target[q]
      /\ target'[p].idl = seen[p].idl
  BY <1>1, <1>2, <1>3, <1>5 DEF TypeInv, Pair
<1>7. TypeInv'
  BY <1>1, <1>2, <1>6 DEF TypeInv, environment, Copying, Protocol, Locked
<1>8. Deployed(p)' /\ \A q \in Earlier \ {p} : Deployed(q)' /\ Kept(q)'
  BY <1>1, <1>3, <1>4, <1>6 DEF Deployed, Kept, environment
<1>9. Programs[at'] = p
  BY <1>p, <1>1
<1>10. ReadInv'
  BY <1>1, <1>3, <1>6, <1>8, <1>9 DEF ReadInv, Protocol, Copying, Locked
<1>11. QED
  BY <1>1, <1>7, <1>10, OutsideProtocol

LEMMA TargetBinaryInv == ASSUME CaptureInv, WriteTargetBinary PROVE CaptureInv'
<1>p. PICK p : p = Programs[at]
  OBVIOUS
<1>1. /\ UNCHANGED <<environment, files, captures, seen, memory, devnet>>
      /\ pc = "binary" /\ target' = [target EXCEPT ![p].binary = seen[p].binary]
      /\ \/ at < Len(Programs) /\ pc' = "accounts" /\ at' = at + 1
         \/ ~(at < Len(Programs)) /\ pc' = "protocol" /\ at' = 1
  BY <1>p DEF WriteTargetBinary
<1>2. TypeInv /\ ReadInv
  BY DEF CaptureInv
<1>3. /\ p \in Names /\ Earlier \subseteq Names
      /\ pc' = "accounts" => Earlier' = Earlier \cup {p}
      /\ pc' = "protocol" => Names = Earlier \cup {p}
  BY <1>p, <1>1, <1>2, NextProgram DEF TypeInv
<1>4. /\ Deployed(p) /\ target[p].idl = seen[p].idl
      /\ \A q \in Earlier \ {p} : Deployed(q) /\ Kept(q)
  BY <1>p, <1>1, <1>2 DEF ReadInv
<1>5. seen[p] \in Pair /\ target[p] \in Pair
  BY <1>2, <1>3 DEF TypeInv
<1>6. /\ target' \in [Names -> Pair] /\ \A q \in Names \ {p} : target'[q] = target[q]
      /\ target'[p].idl = seen[p].idl /\ target'[p].binary = seen[p].binary
      /\ target'[p] \in Pair
  BY <1>1, <1>2, <1>3, <1>4, <1>5 DEF TypeInv, Pair
<1>7. target'[p] = seen[p]
  BY <1>5, <1>6 DEF Pair
<1>8. at' \in Nat \ {0} /\ (pc' = "accounts" => at' <= Len(Programs))
  BY <1>1, <1>2, ProgramNames DEF TypeInv
<1>9. TypeInv'
  BY <1>1, <1>2, <1>6, <1>8 DEF TypeInv, environment, Copying, Protocol, Locked
<1>10. \A q \in Earlier \cup {p} : Deployed(q)' /\ Kept(q)'
  BY <1>1, <1>3, <1>4, <1>6, <1>7 DEF Deployed, Kept, environment
<1>11. ReadInv'
  BY <1>1, <1>3, <1>10 DEF ReadInv, Protocol, Copying, Locked
<1>12. QED
  BY <1>1, <1>9, <1>11, OutsideProtocol

-----------------------------------------------------------------------------
\* capture-protocol.mjs

\* What was read stays as it is.
LEMMA ReadingKept ==
    ASSUME CaptureInv, pc \in Protocol, pc' \in Protocol,
           UNCHANGED <<environment, target, seen, devnet>>
    PROVE  ReadInv'
BY DEF CaptureInv, ReadInv, Deployed, Kept, environment, Protocol, Copying, Locked

LEMMA ReadLockInv == ASSUME CaptureInv, ReadLock PROVE CaptureInv'
<1>1. /\ pc = "protocol" /\ pc' = "copy_idl" /\ captures' = captures + 1
      /\ memory' = [lock |-> [revision |-> memory.lock.revision, commit |-> commit,
                              tree |-> commit, time |-> captures + 1, idls |-> files.lock.idls,
                              binaries |-> files.lock.binaries],
                    old |-> files.lock.revision,
                    whole |-> files.scheduler = files.lock.revision
                              /\ files.lifecycle = files.lock.revision]
      /\ UNCHANGED <<environment, target, files, at, seen, devnet>>
  BY DEF ReadLock
<1>2. TypeInv /\ RecordInv
  BY DEF CaptureInv
<1>3. at = 1 /\ at <= Len(Programs)
  BY <1>1, <1>2, ProgramNames DEF TypeInv
<1>4. /\ memory'.lock \in LockType /\ memory'.lock.commit = commit'
      /\ memory' = [lock |-> memory'.lock, old |-> memory'.old, whole |-> memory'.whole]
  <2>1. captures + 1 \in Nat /\ commit \in [Names -> Versions] /\ memory.lock \in LockType
        /\ files.lock \in LockType
    BY <1>2 DEF TypeInv
  <2>2. /\ memory.lock.revision \in Revisions /\ files.lock.idls \in [Names -> Versions]
        /\ files.lock.binaries \in [Names -> Versions]
    BY <2>1 DEF LockType
  <2>3. QED
    BY <1>1, <2>1, <2>2 DEF LockType, environment
<1>5. TypeInv'
  BY <1>1, <1>2, <1>3, <1>4 DEF TypeInv, environment, Copying, Protocol, Locked
<1>6. ReadInv'
  BY <1>1, ReadingKept DEF Protocol, Copying
<1>7. Earlier' = {}
  BY <1>1, <1>3 DEF Earlier
<1>8. WriteInv'
  <2>1. memory'.whole => files'.scheduler = memory'.old /\ files'.lifecycle = memory'.old
    BY <1>1
  <2>2. QED
    BY <1>1, <1>4, <2>1 DEF WriteInv, Copying, Locked
<1>9. CopyInv' /\ RecordInv'
  BY <1>1, <1>2, <1>7 DEF CopyInv, RecordInv, environment, Copying, Locked
<1>10. QED
  BY <1>5, <1>6, <1>8, <1>9 DEF CaptureInv

LEMMA CopyIdlInv == ASSUME CaptureInv, CopyIdl PROVE CaptureInv'
<1>p. PICK p : p = Programs[at]
  OBVIOUS
<1>1. /\ pc = "copy_idl" /\ pc' = "copy_binary"
      /\ files' = [files EXCEPT !.idls[p] = target[p].idl]
      /\ memory' = [memory EXCEPT !.lock.idls[p] = target[p].idl]
      /\ UNCHANGED <<environment, target, captures, at, seen, devnet>>
  BY <1>p DEF CopyIdl
<1>2. TypeInv /\ CopyInv /\ WriteInv /\ RecordInv
  BY DEF CaptureInv
<1>3. p \in Names /\ Earlier \subseteq Names /\ Earlier' = Earlier
  BY <1>p, <1>1, <1>2, NextProgram DEF TypeInv, Copying
<1>4. target[p] \in Pair /\ target[p].idl \in Versions
  BY <1>2, <1>3 DEF TypeInv, Pair
<1>5. files.idls \in [Names -> Versions] /\ memory.lock.idls \in [Names -> Versions]
  BY <1>2 DEF TypeInv, LockType
<1>6. /\ files' = [f \in FileNames |-> files'[f]]
      /\ files'.idls = [files.idls EXCEPT ![p] = target[p].idl]
      /\ \A f \in FileNames \ {"idls"} : files'[f] = files[f]
  <2>1. files' = [files EXCEPT !["idls"] = [files.idls EXCEPT ![p] = target[p].idl]]
    BY <1>1, <1>2 DEF TypeInv, FileNames
  <2>2. QED
    BY <1>2, <2>1, OneFile DEF TypeInv, FileNames
<1>7. /\ files'.idls \in [Names -> Versions] /\ files'.idls[p] = target[p].idl
      /\ \A q \in Names \ {p} : files'.idls[q] = files.idls[q]
  BY <1>3, <1>4, <1>5, <1>6
<1>8. /\ files'.binaries = files.binaries /\ files'.lock = files.lock
      /\ files'.scheduler = files.scheduler /\ files'.lifecycle = files.lifecycle
      /\ files'.record = files.record
  BY <1>6 DEF FileNames
<1>9. /\ memory' = [lock |-> memory'.lock, old |-> memory'.old, whole |-> memory'.whole]
      /\ memory'.old = memory.old /\ memory'.whole = memory.whole
      /\ memory'.lock = [memory.lock EXCEPT !.idls = [memory.lock.idls EXCEPT ![p] = target[p].idl]]
  BY <1>1, <1>2 DEF TypeInv
<1>10. /\ memory'.lock \in LockType /\ memory'.lock.commit = memory.lock.commit
       /\ memory'.lock.binaries = memory.lock.binaries
       /\ memory'.lock.idls = [memory.lock.idls EXCEPT ![p] = target[p].idl]
  <2>1. PICK new : new = [memory.lock.idls EXCEPT ![p] = target[p].idl]
    OBVIOUS
  <2>2. new \in [Names -> Versions]
    BY <1>4, <1>5, <2>1
  <2>3. memory.lock \in LockType /\ memory'.lock = [memory.lock EXCEPT !.idls = new]
    BY <1>2, <1>9, <2>1 DEF TypeInv
  <2>4. QED
    BY <2>1, <2>2, <2>3 DEF LockType
<1>11. /\ memory'.lock.idls[p] = target[p].idl
       /\ \A q \in Names \ {p} : memory'.lock.idls[q] = memory.lock.idls[q]
  BY <1>3, <1>5, <1>10
<1>12. TypeInv'
  BY <1>1, <1>2, <1>6, <1>7, <1>8, <1>9, <1>10 DEF TypeInv, environment, Copying, Protocol, Locked
<1>13. ReadInv'
  BY <1>1, ReadingKept DEF Protocol, Copying
<1>14. CopyInv'
  <2>1. \A q \in Earlier : IdlCopied(q) /\ BinaryCopied(q)
    BY <1>1, <1>2 DEF CopyInv, Copying
  <2>2. ASSUME NEW q \in Earlier PROVE IdlCopied(q)' /\ BinaryCopied(q)'
    BY <1>1, <1>3, <1>7, <1>8, <1>10, <1>11, <2>1 DEF IdlCopied, BinaryCopied
  <2>3. IdlCopied(p)' /\ Programs[at'] = p
    BY <1>p, <1>1, <1>7, <1>11 DEF IdlCopied
  <2>4. QED
    BY <1>1, <1>3, <2>2, <2>3 DEF CopyInv, Copying, Locked
<1>15. WriteInv'
  BY <1>1, <1>2, <1>8, <1>9, <1>10 DEF WriteInv, Copying, Locked, environment
<1>16. RecordInv'
  BY <1>1, <1>2, <1>8 DEF RecordInv, environment
<1>17. QED
  BY <1>12, <1>13, <1>14, <1>15, <1>16 DEF CaptureInv

LEMMA CopyBinaryInv == ASSUME CaptureInv, CopyBinary PROVE CaptureInv'
<1>p. PICK p : p = Programs[at]
  OBVIOUS
<1>1. /\ pc = "copy_binary"
      /\ files' = [files EXCEPT !.binaries[p] = target[p].binary]
      /\ memory' = [memory EXCEPT !.lock.binaries[p] = target[p].binary]
      /\ \/ at < Len(Programs) /\ pc' = "copy_idl" /\ at' = at + 1
         \/ ~(at < Len(Programs)) /\ pc' = "lock" /\ at' = 1
      /\ UNCHANGED <<environment, target, captures, seen, devnet>>
  BY <1>p DEF CopyBinary
<1>2. TypeInv /\ CopyInv /\ WriteInv /\ RecordInv
  BY DEF CaptureInv
<1>3. /\ p \in Names /\ Earlier \subseteq Names
      /\ pc' = "copy_idl" => Earlier' = Earlier \cup {p}
      /\ pc' = "lock" => Names = Earlier \cup {p}
  BY <1>p, <1>1, <1>2, NextProgram DEF TypeInv, Copying
<1>4. target[p] \in Pair /\ target[p].binary \in Versions
  BY <1>2, <1>3 DEF TypeInv, Pair
<1>5. files.binaries \in [Names -> Versions] /\ memory.lock.binaries \in [Names -> Versions]
  BY <1>2 DEF TypeInv, LockType
<1>6. /\ files' = [f \in FileNames |-> files'[f]]
      /\ files'.binaries = [files.binaries EXCEPT ![p] = target[p].binary]
      /\ \A f \in FileNames \ {"binaries"} : files'[f] = files[f]
  <2>1. files' = [files EXCEPT !["binaries"] = [files.binaries EXCEPT ![p] = target[p].binary]]
    BY <1>1, <1>2 DEF TypeInv, FileNames
  <2>2. QED
    BY <1>2, <2>1, OneFile DEF TypeInv, FileNames
<1>7. /\ files'.binaries \in [Names -> Versions] /\ files'.binaries[p] = target[p].binary
      /\ \A q \in Names \ {p} : files'.binaries[q] = files.binaries[q]
  BY <1>3, <1>4, <1>5, <1>6
<1>8. /\ files'.idls = files.idls /\ files'.lock = files.lock
      /\ files'.scheduler = files.scheduler /\ files'.lifecycle = files.lifecycle
      /\ files'.record = files.record
  BY <1>6 DEF FileNames
<1>9. /\ memory' = [lock |-> memory'.lock, old |-> memory'.old, whole |-> memory'.whole]
      /\ memory'.old = memory.old /\ memory'.whole = memory.whole
      /\ memory'.lock = [memory.lock EXCEPT
            !.binaries = [memory.lock.binaries EXCEPT ![p] = target[p].binary]]
  BY <1>1, <1>2 DEF TypeInv
<1>10. /\ memory'.lock \in LockType /\ memory'.lock.commit = memory.lock.commit
       /\ memory'.lock.idls = memory.lock.idls
       /\ memory'.lock.binaries = [memory.lock.binaries EXCEPT ![p] = target[p].binary]
  <2>1. PICK new : new = [memory.lock.binaries EXCEPT ![p] = target[p].binary]
    OBVIOUS
  <2>2. new \in [Names -> Versions]
    BY <1>4, <1>5, <2>1
  <2>3. memory.lock \in LockType /\ memory'.lock = [memory.lock EXCEPT !.binaries = new]
    BY <1>2, <1>9, <2>1 DEF TypeInv
  <2>4. QED
    BY <2>1, <2>2, <2>3 DEF LockType
<1>11. /\ memory'.lock.binaries[p] = target[p].binary
       /\ \A q \in Names \ {p} : memory'.lock.binaries[q] = memory.lock.binaries[q]
  BY <1>3, <1>5, <1>10
<1>12. at' \in Nat \ {0} /\ (pc' = "copy_idl" => at' <= Len(Programs)) /\ (pc' = "lock" => at' = 1)
  BY <1>1, <1>2, ProgramNames DEF TypeInv
<1>13. TypeInv'
  BY <1>1, <1>2, <1>6, <1>7, <1>8, <1>9, <1>10, <1>12
     DEF TypeInv, environment, Copying, Protocol, Locked
<1>14. ReadInv'
  BY <1>1, ReadingKept DEF Protocol, Copying
<1>15. CopyInv'
  <2>1. IdlCopied(p) /\ \A q \in Earlier : IdlCopied(q) /\ BinaryCopied(q)
    BY <1>p, <1>1, <1>2 DEF CopyInv, Copying
  <2>2. ASSUME NEW q \in Earlier \cup {p} PROVE IdlCopied(q)' /\ BinaryCopied(q)'
    BY <1>1, <1>3, <1>7, <1>8, <1>10, <1>11, <2>1 DEF IdlCopied, BinaryCopied
  <2>3. QED
    BY <1>1, <1>3, <2>2 DEF CopyInv, Copying, Locked
<1>16. WriteInv'
  BY <1>1, <1>2, <1>8, <1>9, <1>10 DEF WriteInv, Copying, Locked, environment
<1>17. RecordInv'
  BY <1>1, <1>2, <1>8 DEF RecordInv, environment
<1>18. QED
  BY <1>13, <1>14, <1>15, <1>16, <1>17 DEF CaptureInv

-----------------------------------------------------------------------------
\* After the copies each step writes one file.

GeneratedNames == {"contract", "envelopes", "manifest", "codecs", "layout", "orders"}

LEMMA GeneratedFiles ==
    /\ Len(Generated) = 6 /\ DOMAIN Generated = 1..6
    /\ \A i \in 1..6 : Generated[i] \in GeneratedNames
BY DEF Generated, GeneratedNames

LEMMA Written ==
    ASSUME CaptureInv, NEW g \in FileNames \ {"idls", "binaries"}, NEW v,
           files' = [files EXCEPT ![g] = v], g = "lock" => v \in LockType,
           UNCHANGED <<environment, target, captures, seen, memory, devnet>>,
           pc \in {"lock"} \cup Locked, pc' \in Locked,
           at' \in Nat \ {0}, pc' = "generate" => at' <= Len(Generated),
           pc' \in {"scheduler", "lifecycle", "health"} => at' = 1, pc' = "record" => devnet
    PROVE  /\ TypeInv' /\ ReadInv' /\ CopyInv' /\ memory.lock.commit = commit
           /\ files'[g] = v /\ \A f \in FileNames \ {g} : files'[f] = files[f]
<1>1. TypeInv /\ CopyInv /\ WriteInv
  BY DEF CaptureInv
<1>2. /\ files' = [f \in FileNames |-> files'[f]]
      /\ files'[g] = v /\ \A f \in FileNames \ {g} : files'[f] = files[f]
  BY <1>1, OneFile DEF TypeInv
<1>3. files'.idls = files.idls /\ files'.binaries = files.binaries
  BY <1>2 DEF FileNames
<1>4. files'.lock \in LockType
  BY <1>1, <1>2 DEF TypeInv, FileNames
<1>5. TypeInv'
  BY <1>1, <1>2, <1>3, <1>4 DEF TypeInv, environment, Copying, Protocol, Locked
<1>6. ReadInv'
  BY ReadingKept DEF Protocol
<1>7. CopyInv'
  <2>1. \A p \in Names : IdlCopied(p) /\ BinaryCopied(p)
    BY <1>1 DEF CopyInv
  <2>2. \A p \in Names : IdlCopied(p)' /\ BinaryCopied(p)'
    BY <1>3, <2>1 DEF IdlCopied, BinaryCopied
  <2>3. QED
    BY <2>2 DEF CopyInv, Copying, Locked
<1>8. memory.lock.commit = commit
  BY <1>1 DEF WriteInv
<1>9. QED
  BY <1>2, <1>5, <1>6, <1>7, <1>8

LEMMA WriteLockInv == ASSUME CaptureInv, WriteLock PROVE CaptureInv'
<1>1. /\ pc = "lock" /\ pc' = "scheduler" /\ files' = [files EXCEPT !["lock"] = memory.lock]
      /\ UNCHANGED <<environment, target, captures, at, seen, memory, devnet>>
  BY DEF WriteLock
<1>2. TypeInv /\ WriteInv /\ RecordInv
  BY DEF CaptureInv
<1>3. memory.lock \in LockType /\ at = 1
  BY <1>1, <1>2 DEF TypeInv
<1>4. /\ TypeInv' /\ ReadInv' /\ CopyInv' /\ memory.lock.commit = commit
      /\ files'["lock"] = memory.lock /\ \A f \in FileNames \ {"lock"} : files'[f] = files[f]
  <2>1. "lock" \in FileNames \ {"idls", "binaries"}
    BY DEF FileNames
  <2>2. pc \in {"lock"} \cup Locked /\ pc' \in Locked
    BY <1>1 DEF Locked
  <2>3. at' \in Nat \ {0} /\ at' = 1
    BY <1>1, <1>3
  <2>4. pc' # "generate" /\ pc' # "record"
    BY <1>1
  <2>5. QED
    BY <1>1, <1>3, <2>1, <2>2, <2>3, <2>4, Written
<1>5. /\ files'.lock = memory.lock /\ files'.scheduler = files.scheduler
      /\ files'.lifecycle = files.lifecycle /\ files'.record = files.record
  BY <1>4 DEF FileNames
<1>6. WriteInv'
  BY <1>1, <1>2, <1>4, <1>5 DEF WriteInv, Copying, Locked, environment
<1>7. RecordInv'
  BY <1>1, <1>2, <1>5 DEF RecordInv, environment
<1>8. QED
  BY <1>4, <1>6, <1>7 DEF CaptureInv

LEMMA RenameInv ==
    ASSUME CaptureInv, RenameScheduler \/ RenameLifecycle
    PROVE  CaptureInv'
<1>1. PICK g \in {"scheduler", "lifecycle"} :
        /\ pc = g /\ pc' = IF g = "scheduler" THEN "lifecycle" ELSE "health"
        /\ files' = [files EXCEPT ![g] =
                        IF files[g] = memory.old THEN memory.lock.revision ELSE files[g]]
        /\ UNCHANGED <<environment, target, captures, at, seen, memory, devnet>>
  BY DEF RenameScheduler, RenameLifecycle
<1>2. TypeInv /\ WriteInv /\ RecordInv
  BY DEF CaptureInv
<1>3. PICK v : v = IF files[g] = memory.old THEN memory.lock.revision ELSE files[g]
  OBVIOUS
<1>4. /\ TypeInv' /\ ReadInv' /\ CopyInv' /\ memory.lock.commit = commit
      /\ files'[g] = v /\ \A f \in FileNames \ {g} : files'[f] = files[f]
  <2>1. g \in FileNames \ {"idls", "binaries"} /\ g # "lock"
    BY DEF FileNames
  <2>2. pc \in {"lock"} \cup Locked /\ pc' \in Locked
    BY <1>1 DEF Locked
  <2>3. at' \in Nat \ {0} /\ at' = 1
    BY <1>1, <1>2 DEF TypeInv
  <2>4. pc' # "generate" /\ pc' # "record"
    BY <1>1
  <2>5. files' = [files EXCEPT ![g] = v]
    BY <1>1, <1>3
  <2>6. QED
    BY <1>1, <2>1, <2>2, <2>3, <2>4, <2>5, Written
<1>5. /\ files'.lock = files.lock /\ files'.record = files.record
      /\ g = "scheduler" => files'.scheduler = v /\ files'.lifecycle = files.lifecycle
      /\ g = "lifecycle" => files'.scheduler = files.scheduler /\ files'.lifecycle = v
  BY <1>4 DEF FileNames
<1>6. memory.whole => v = memory.lock.revision
  BY <1>1, <1>2, <1>3 DEF WriteInv, Locked
<1>7. WriteInv'
  BY <1>1, <1>2, <1>4, <1>5, <1>6 DEF WriteInv, Copying, Locked, environment
<1>8. RecordInv'
  BY <1>1, <1>2, <1>5 DEF RecordInv, environment
<1>9. QED
  BY <1>4, <1>7, <1>8 DEF CaptureInv

LEMMA WriteHealthInv == ASSUME CaptureInv, WriteHealth PROVE CaptureInv'
<1>1. /\ pc = "health" /\ pc' = "generate" /\ files' = [files EXCEPT !["health"] = memory.lock]
      /\ UNCHANGED <<environment, target, captures, at, seen, memory, devnet>>
  BY DEF WriteHealth
<1>2. TypeInv /\ WriteInv /\ RecordInv
  BY DEF CaptureInv
<1>3. /\ TypeInv' /\ ReadInv' /\ CopyInv' /\ memory.lock.commit = commit
      /\ files'["health"] = memory.lock /\ \A f \in FileNames \ {"health"} : files'[f] = files[f]
  <2>1. "health" \in FileNames \ {"idls", "binaries"}
    BY DEF FileNames
  <2>2. pc \in {"lock"} \cup Locked /\ pc' \in Locked
    BY <1>1 DEF Locked
  <2>3. at' \in Nat \ {0} /\ at' = 1 /\ at' <= Len(Generated)
    BY <1>1, <1>2, GeneratedFiles DEF TypeInv
  <2>4. pc' # "record" /\ "health" # "lock"
    BY <1>1
  <2>5. QED
    BY <1>1, <2>1, <2>2, <2>3, <2>4, Written
<1>4. /\ files'.health = memory.lock /\ files'.lock = files.lock
      /\ files'.scheduler = files.scheduler /\ files'.lifecycle = files.lifecycle
      /\ files'.record = files.record
  BY <1>3 DEF FileNames
<1>5. at' = 1
  BY <1>1, <1>2 DEF TypeInv
<1>6. WriteInv'
  BY <1>1, <1>2, <1>3, <1>4, <1>5 DEF WriteInv, Copying, Locked, environment
<1>7. RecordInv'
  BY <1>1, <1>2, <1>4 DEF RecordInv, environment
<1>8. QED
  BY <1>3, <1>6, <1>7 DEF CaptureInv

LEMMA GenerateInv == ASSUME CaptureInv, Generate PROVE CaptureInv'
<1>1. /\ pc = "generate" /\ files' = [files EXCEPT ![Generated[at]] = Derived(files)]
      /\ \/ at < Len(Generated) /\ pc' = pc /\ at' = at + 1
         \/ ~(at < Len(Generated)) /\ pc' = "remove" /\ at' = 1
      /\ UNCHANGED <<environment, target, captures, seen, memory, devnet>>
  BY DEF Generate
<1>2. TypeInv /\ WriteInv /\ RecordInv
  BY DEF CaptureInv
<1>3. at \in 1..6 /\ Len(Generated) = 6
  BY <1>1, <1>2, GeneratedFiles DEF TypeInv
<1>4. PICK g \in GeneratedNames : g = Generated[at]
  BY <1>3, GeneratedFiles
<1>5. /\ TypeInv' /\ ReadInv' /\ CopyInv' /\ memory.lock.commit = commit
      /\ files'[g] = Derived(files) /\ \A f \in FileNames \ {g} : files'[f] = files[f]
  <2>1. g \in FileNames \ {"idls", "binaries"} /\ g # "lock"
    BY DEF FileNames, GeneratedNames
  <2>2. at' \in Nat \ {0} /\ (pc' = "generate" => at' <= Len(Generated))
    BY <1>1, <1>3
  <2>3. pc \in {"lock"} \cup Locked /\ pc' \in Locked
    BY <1>1 DEF Locked
  <2>4. pc' \notin {"scheduler", "lifecycle", "health"} /\ pc' # "record"
    BY <1>1
  <2>5. files' = [files EXCEPT ![g] = Derived(files)]
    BY <1>1, <1>4
  <2>6. QED
    BY <1>1, <2>1, <2>2, <2>3, <2>4, <2>5, Written
<1>6. /\ files'.lock = files.lock /\ files'.idls = files.idls /\ files'.health = files.health
      /\ files'.scheduler = files.scheduler /\ files'.lifecycle = files.lifecycle
      /\ files'.record = files.record
  BY <1>5 DEF FileNames, GeneratedNames
<1>7. Derived(files') = Derived(files)
  BY <1>6 DEF Derived
<1>8. \A i \in 1..at : files'[Generated[i]] = Derived(files')
  <2> SUFFICES ASSUME NEW i \in 1..at PROVE files'[Generated[i]] = Derived(files)
    BY <1>7
  <2>1. CASE Generated[i] = g
    BY <1>5, <2>1
  <2>2. CASE Generated[i] # g
    <3>1. i \in 1..(at - 1)
      BY <1>3, <1>4, <2>2
    <3>2. files[Generated[i]] = Derived(files)
      BY <1>1, <1>2, <3>1 DEF WriteInv
    <3>3. Generated[i] \in FileNames
      BY <1>3, GeneratedFiles DEF FileNames, GeneratedNames
    <3>4. QED
      BY <1>5, <2>2, <3>2, <3>3
  <2>3. QED
    BY <2>1, <2>2
<1>9. pc' = "generate" => \A i \in 1..(at' - 1) : files'[Generated[i]] = Derived(files')
  <2>1. pc' = "generate" => at' = at + 1
    BY <1>1
  <2>2. pc' = "generate" => at' - 1 = at
    BY <1>3, <2>1
  <2>3. QED
    BY <1>8, <2>2
<1>10. pc' = "remove" => GeneratedAgree(files')
  <2>1. pc' = "remove" => ~(at < 6)
    BY <1>1, <1>3
  <2>2. pc' = "remove" => at = 6
    BY <1>3, <2>1
  <2>3. QED
    BY <1>8, <2>2, GeneratedFiles DEF GeneratedAgree
<1>11. WriteInv'
  BY <1>1, <1>2, <1>5, <1>6, <1>9, <1>10 DEF WriteInv, Copying, Locked, environment
<1>12. RecordInv'
  BY <1>1, <1>2, <1>6 DEF RecordInv, environment
<1>13. QED
  BY <1>5, <1>11, <1>12 DEF CaptureInv

\* What was generated stays true when another file than the lock is written.
LEMMA GeneratedAgreeKept ==
    ASSUME GeneratedAgree(files), NEW g \in FileNames \ GeneratedNames,
           files'.lock = files.lock, files'.idls = files.idls,
           \A f \in FileNames \ {g} : files'[f] = files[f]
    PROVE  GeneratedAgree(files')
<1>1. Derived(files') = Derived(files)
  BY DEF Derived
<1>2. \A i \in 1..6 : files'[Generated[i]] = files[Generated[i]]
  <2>1. GeneratedNames \subseteq FileNames \ {g}
    BY DEF FileNames, GeneratedNames
  <2>2. QED
    BY <2>1, GeneratedFiles
<1>3. QED
  BY <1>1, <1>2, GeneratedFiles DEF GeneratedAgree

LEMMA RemoveRecordInv == ASSUME CaptureInv, RemoveRecord PROVE CaptureInv'
<1>1. /\ pc = "remove" /\ pc' = IF devnet THEN "record" ELSE "done"
      /\ files' = [files EXCEPT !["record"] = NoRecord]
      /\ UNCHANGED <<environment, target, captures, at, seen, memory, devnet>>
  BY DEF RemoveRecord
<1>2. TypeInv /\ WriteInv
  BY DEF CaptureInv
<1>3. /\ TypeInv' /\ ReadInv' /\ CopyInv' /\ memory.lock.commit = commit
      /\ files'["record"] = NoRecord /\ \A f \in FileNames \ {"record"} : files'[f] = files[f]
  <2>1. "record" \in FileNames \ {"idls", "binaries"} /\ "record" # "lock"
    BY DEF FileNames
  <2>2. pc \in {"lock"} \cup Locked /\ pc' \in Locked
    BY <1>1 DEF Locked
  <2>3. at' \in Nat \ {0}
    BY <1>1, <1>2 DEF TypeInv
  <2>4. pc' \notin {"generate", "scheduler", "lifecycle", "health"} /\ (pc' = "record" => devnet)
    BY <1>1
  <2>5. QED
    BY <1>1, <2>1, <2>2, <2>3, <2>4, Written
<1>4. /\ files'.lock = files.lock /\ files'.idls = files.idls /\ files'.health = files.health
      /\ files'.scheduler = files.scheduler /\ files'.lifecycle = files.lifecycle
      /\ files'.record = NoRecord
  BY <1>3 DEF FileNames
<1>5. GeneratedAgree(files')
  <2>1. "record" \in FileNames \ GeneratedNames
    BY DEF FileNames, GeneratedNames
  <2>2. GeneratedAgree(files)
    BY <1>1, <1>2 DEF WriteInv
  <2>3. QED
    BY <1>3, <1>4, <2>1, <2>2, GeneratedAgreeKept
<1>6. RecordAgrees(files') /\ RecordInv'
  BY <1>4 DEF RecordAgrees, RecordInv
<1>7. WriteInv'
  BY <1>1, <1>2, <1>3, <1>4, <1>5, <1>6 DEF WriteInv, Copying, Locked, environment
<1>8. QED
  BY <1>3, <1>6, <1>7 DEF CaptureInv

\* The record is about the lock: what was pinned is what was read.
LEMMA WriteRecordInv == ASSUME CaptureInv, WriteRecord PROVE CaptureInv'
<1> DEFINE record == [revision |-> files.lock.revision, commit |-> commit,
                      time |-> files.lock.time, idls |-> [p \in Names |-> seen[p].idl],
                      binaries |-> [p \in Names |-> seen[p].binary]]
<1>r. PICK r : r = record
  OBVIOUS
<1>1. /\ pc = "record" /\ pc' = "done" /\ files' = [files EXCEPT !["record"] = r]
      /\ UNCHANGED <<environment, target, captures, at, seen, memory, devnet>>
  BY <1>r DEF WriteRecord
<1>2. TypeInv /\ ReadInv /\ CopyInv /\ WriteInv
  BY DEF CaptureInv
<1>3. /\ TypeInv' /\ ReadInv' /\ CopyInv' /\ memory.lock.commit = commit
      /\ files'["record"] = r /\ \A f \in FileNames \ {"record"} : files'[f] = files[f]
  <2>1. "record" \in FileNames \ {"idls", "binaries"} /\ "record" # "lock"
    BY DEF FileNames
  <2>2. pc \in {"lock"} \cup Locked /\ pc' \in Locked
    BY <1>1 DEF Locked
  <2>3. at' \in Nat \ {0}
    BY <1>1, <1>2 DEF TypeInv
  <2>4. pc' \notin {"generate", "scheduler", "lifecycle", "health"} /\ pc' # "record"
    BY <1>1
  <2>5. QED
    BY <1>1, <2>1, <2>2, <2>3, <2>4, Written
<1>4. /\ files'.lock = files.lock /\ files'.idls = files.idls /\ files'.health = files.health
      /\ files'.scheduler = files.scheduler /\ files'.lifecycle = files.lifecycle
      /\ files'.record = r
  BY <1>3 DEF FileNames
<1>5. GeneratedAgree(files')
  <2>1. "record" \in FileNames \ GeneratedNames
    BY DEF FileNames, GeneratedNames
  <2>2. GeneratedAgree(files)
    BY <1>1, <1>2 DEF WriteInv
  <2>3. QED
    BY <1>3, <1>4, <2>1, <2>2, GeneratedAgreeKept
<1>6. \A p \in Names : Deployed(p) /\ Kept(p) /\ IdlCopied(p) /\ BinaryCopied(p)
  <2>1. devnet /\ pc \in Protocol /\ pc \in {"lock"} \cup Locked
    BY <1>1, <1>2 DEF TypeInv, Protocol, Locked
  <2>2. QED
    BY <1>2, <2>1 DEF ReadInv, CopyInv
<1>7. files.lock = memory.lock
  BY <1>1, <1>2 DEF WriteInv, Locked
<1>8. /\ r.revision = files.lock.revision /\ r.commit = commit /\ r.time = files.lock.time
      /\ r.idls = [p \in Names |-> seen[p].idl] /\ r.binaries = [p \in Names |-> seen[p].binary]
  BY <1>r
<1>9. r.idls = files.lock.idls /\ r.binaries = files.lock.binaries
  <2>1. files.lock.idls \in [Names -> Versions] /\ files.lock.binaries \in [Names -> Versions]
    BY <1>2 DEF TypeInv, LockType
  <2>2. \A p \in Names : /\ files.lock.idls[p] = seen[p].idl
                         /\ files.lock.binaries[p] = seen[p].binary
    BY <1>6, <1>7 DEF Kept, IdlCopied, BinaryCopied
  <2>3. QED
    BY <1>8, <2>1, <2>2
<1>10. RecordAgrees(files')
  BY <1>3, <1>4, <1>7, <1>8, <1>9 DEF RecordAgrees
<1>11. RecordInv'
  <2>1. ASSUME NEW p \in Names
        PROVE  [idl |-> r.idls[p], binary |-> r.binaries[p]] \in ever[p] /\ r.commit[p] = r.idls[p]
    <3>1. r.idls[p] = seen[p].idl /\ r.binaries[p] = seen[p].binary
      BY <1>8
    <3>2. seen[p] \in Pair /\ seen[p] \in ever[p] /\ seen[p].idl = commit[p]
      BY <1>2, <1>6 DEF TypeInv, Deployed
    <3>3. [idl |-> r.idls[p], binary |-> r.binaries[p]] = seen[p]
      BY <3>1, <3>2 DEF Pair
    <3>4. QED
      BY <1>8, <3>1, <3>2, <3>3
  <2>2. QED
    BY <1>1, <1>4, <2>1 DEF RecordInv, environment
<1>12. WriteInv'
  BY <1>1, <1>2, <1>3, <1>4, <1>5, <1>10 DEF WriteInv, Copying, Locked, environment
<1>13. QED
  BY <1>3, <1>11, <1>12 DEF CaptureInv

-----------------------------------------------------------------------------
LEMMA NextInv == ASSUME CaptureInv, [CaptureNext]_captureVars PROVE CaptureInv'
<1>1. ASSUME NEW p \in Names, NEW pair \in Pair, Upgrade(p, pair) PROVE CaptureInv'
  BY <1>1, UpgradeInv
<1>2. ASSUME NEW built \in Builds, Checkout(built) PROVE CaptureInv'
  BY <1>2, CheckoutInv
<1>3. ASSUME NEW r \in Revisions, StartDevnet(r) \/ StartProtocol(r) PROVE CaptureInv'
  BY <1>3, StartInv
<1>4. CASE ReadAccounts \/ ReadData
  BY <1>4, ReadInvStep
<1>5. CASE Recheck
  BY <1>5, RecheckInv
<1>6. CASE WriteTargetIdl
  BY <1>6, TargetIdlInv
<1>7. CASE WriteTargetBinary
  BY <1>7, TargetBinaryInv
<1>8. CASE ReadLock
  BY <1>8, ReadLockInv
<1>9. CASE CopyIdl
  BY <1>9, CopyIdlInv
<1>10. CASE CopyBinary
  BY <1>10, CopyBinaryInv
<1>11. CASE WriteLock
  BY <1>11, WriteLockInv
<1>12. CASE RenameScheduler \/ RenameLifecycle
  BY <1>12, RenameInv
<1>13. CASE WriteHealth
  BY <1>13, WriteHealthInv
<1>14. CASE Generate
  BY <1>14, GenerateInv
<1>15. CASE RemoveRecord
  BY <1>15, RemoveRecordInv
<1>16. CASE WriteRecord
  BY <1>16, WriteRecordInv
<1>17. CASE Stop
  BY <1>17, StopInv
<1>18. CASE WriteFingerprint
  BY <1>18, FingerprintInv
<1>19. CASE UNCHANGED captureVars
  <2>1. UNCHANGED <<chain, ever, commit, target, files, captures, pc, at, seen, memory, devnet>>
    BY <1>19 DEF captureVars
  <2>2. TypeInv' /\ RecordInv'
    BY <2>1 DEF CaptureInv, TypeInv, RecordInv
  <2>3. ReadInv' /\ CopyInv'
    BY <2>1 DEF CaptureInv, ReadInv, CopyInv, Earlier, Deployed, Kept, IdlCopied, BinaryCopied
  <2>4. WriteInv'
    BY <2>1 DEF CaptureInv, WriteInv, GeneratedAgree, RecordAgrees, Derived
  <2>5. QED
    BY <2>2, <2>3, <2>4 DEF CaptureInv
<1>20. QED
  BY <1>1, <1>2, <1>3, <1>4, <1>5, <1>6, <1>7, <1>8, <1>9, <1>10, <1>11, <1>12, <1>13, <1>14,
     <1>15, <1>16, <1>17, <1>18, <1>19 DEF CaptureNext

LEMMA CaptureSpecInv == CaptureSpec => []CaptureInv
BY InitInv, NextInv, PTL DEF CaptureSpec

(***************************************************************************)
(* A repository that has a deployment record and passes its validation     *)
(* pins pairs that were deployed together, from a commit with these IDLs,  *)
(* for every number of programs and of upgrades during the capture, and    *)
(* wherever captures stopped (capture-devnet.mjs 30-64).                   *)
(***************************************************************************)
THEOREM RecordWasDeployed == CaptureSpec => []RecordIsDeployed
<1>1. ASSUME CaptureInv PROVE RecordIsDeployed
  <2> SUFFICES ASSUME Validates(files), files.record # NoRecord, NEW p \in Names
               PROVE  /\ [idl |-> files.idls[p], binary |-> files.binaries[p]] \in ever[p]
                      /\ files.record.commit[p] = files.idls[p]
    BY DEF RecordIsDeployed
  <2>1. files.record.idls = files.idls /\ files.record.binaries = files.binaries
    BY DEF Validates, PinsArtifacts, RecordAgrees
  <2>2. RecordInv
    BY <1>1 DEF CaptureInv
  <2>3. QED
    BY <2>1, <2>2 DEF RecordInv
<1>2. QED
  BY <1>1, CaptureSpecInv, PTL

(***************************************************************************)
(* A capture that runs to its end leaves a repository that passes its      *)
(* validation, whatever the captures before it left behind, as long as the *)
(* fixtures it started from were those of the lock.                        *)
(***************************************************************************)
THEOREM CompletedIsValid == CaptureSpec => []CompletedValidates
<1>1. ASSUME CaptureInv PROVE CompletedValidates
  <2> SUFFICES ASSUME pc = "done", memory.whole PROVE Validates(files)
    BY DEF CompletedValidates
  <2>1. TypeInv /\ CopyInv /\ WriteInv
    BY <1>1 DEF CaptureInv
  <2>2. files.lock = memory.lock
    BY <2>1 DEF WriteInv, Locked
  <2>3. PinsArtifacts(files)
    <3>1. /\ files.lock.idls \in [Names -> Versions] /\ files.lock.binaries \in [Names -> Versions]
          /\ files.idls \in [Names -> Versions] /\ files.binaries \in [Names -> Versions]
      BY <2>1 DEF TypeInv, LockType
    <3>2. \A p \in Names : files.lock.idls[p] = files.idls[p]
                           /\ files.lock.binaries[p] = files.binaries[p]
      BY <2>1, <2>2 DEF CopyInv, Locked, IdlCopied, BinaryCopied
    <3>3. QED
      BY <3>1, <3>2 DEF PinsArtifacts
  <2>4. FixturesAgree(files)
    BY <2>1, <2>2 DEF WriteInv, Locked, FixturesAgree
  <2>5. GeneratedAgree(files) /\ RecordAgrees(files)
    BY <2>1 DEF WriteInv
  <2>6. QED
    BY <2>3, <2>4, <2>5 DEF Validates
<1>2. QED
  BY <1>1, CaptureSpecInv, PTL

-----------------------------------------------------------------------------
(***************************************************************************)
(* The transfer fee, for every scale, set of rates, caps, amounts and      *)
(* mints.  A valuation outlives the moment it was made in, so the          *)
(* invariant says what is known of the fee in force in the next epoch too. *)
(***************************************************************************)

Quote == [Modes \cup {"gross", "epoch", "reset"} -> Int]

(***************************************************************************)
(* The strengthening: in its own epoch a valuation is also kept under the  *)
(* fee that is scheduled for the next one, and one that saw no new         *)
(* announcement is kept under the newer fee.                               *)
(***************************************************************************)
Ahead ==
    quote # None =>
        /\ quote.epoch <= clock.epoch
        /\ ~Charges => quote.liquidation = quote.gross /\ quote.admission = quote.gross
        /\ Charges =>
            /\ clock.epoch <= quote.epoch + 1 =>
                quote.liquidation <= CreditUnder(InForce(clock.epoch), quote.gross)
            /\ clock.epoch = quote.epoch =>
                quote.liquidation <= CreditUnder(InForce(clock.epoch + 1), quote.gross)
            /\ quote.reset = 0 =>
                /\ quote.admission <= CreditUnder(InForce(clock.epoch), quote.gross)
                /\ quote.admission <= CreditUnder(schedule.newer, quote.gross)

\* Two Clock accounts of one slot are the same account.
OneClockPerSlot ==
    stale.slot <= clock.slot /\ (stale.slot = clock.slot => stale = clock)

IInv == TypeOK /\ OneClockPerSlot /\ Ahead

\* A credit is an integer, whatever fee it is taken under.
LEMMA CreditIsInt ==
    ASSUME NEW f \in Fee, NEW g \in Int
    PROVE  CreditUnder(f, g) \in Int
<1>1. f.bps \in Int /\ f.maximum \in Int /\ Scale \in Nat \ {0}
  <2>1. f.bps \in Rates /\ f.maximum \in Maxima
    BY DEF Fee
  <2>2. Rates \subseteq 0..Scale /\ Maxima \subseteq Nat /\ Scale \in Nat \ {0}
    BY FeeAssumption
  <2>3. f.bps \in 0..Scale
    BY <2>1, <2>2
  <2>4. f.bps \in Int
    BY <2>2, <2>3
  <2>5. f.maximum \in Nat
    BY <2>1, <2>2, Zenon
  <2> QED BY <2>2, <2>4, <2>5
<1>2. g * f.bps + Scale - 1 \in Int
  BY <1>1
<1>3. (g * f.bps + Scale - 1) \div Scale \in Int
  BY <1>1, <1>2
<1> QED BY <1>1, <1>3 DEF CreditUnder

\* What a reader computes is never above the fee in force in its epoch; a
\* liquidation also looks at the next epoch, an admission at the newer fee.
LEMMA Valued ==
    ASSUME NEW s \in FeeSchedule, NEW e \in Nat, NEW g \in Int
    PROVE  /\ \A mode \in Modes : FeeCredit(s, e, g, mode) \in Int
           /\ FeeCredit(s, e, g, "liquidation")
                <= CreditUnder(IF s.newer.epoch <= e THEN s.newer ELSE s.older, g)
           /\ FeeCredit(s, e, g, "liquidation")
                <= CreditUnder(IF s.newer.epoch <= e + 1 THEN s.newer ELSE s.older, g)
           /\ FeeCredit(s, e, g, "admission")
                <= CreditUnder(IF s.newer.epoch <= e THEN s.newer ELSE s.older, g)
           /\ FeeCredit(s, e, g, "admission") <= CreditUnder(s.newer, g)
<1> DEFINE old == CreditUnder(s.older, g)
           new == CreditUnder(s.newer, g)
<1>1. /\ s.older \in Fee /\ s.newer \in Fee /\ s.newer.epoch \in Nat /\ s # None
  BY MintAssumption DEF FeeSchedule, Fee
<1>2. old \in Int /\ new \in Int
  BY <1>1, CreditIsInt
<1> HIDE DEF old, new
<1>3. CASE s.newer.epoch <= e
  <2>1. FeePhase(s, e) = "none"
    BY <1>1, <1>3 DEF FeePhase
  <2>2. \A mode \in Modes : FeeCredit(s, e, g, mode) = new
    BY <1>1, <2>1 DEF FeeCredit, new, Modes
  <2> QED BY <1>1, <1>2, <1>3, <2>2 DEF new, old, Modes
<1>4. CASE s.newer.epoch = e + 1
  <2>1. FeePhase(s, e) = "finalNotice"
    BY <1>1, <1>4 DEF FeePhase
  <2>2. /\ FeeCredit(s, e, g, "effective") = old
        /\ FeeCredit(s, e, g, "liquidation") = IF new < old THEN new ELSE old
        /\ FeeCredit(s, e, g, "admission") = IF new < old THEN new ELSE old
    BY <1>1, <2>1 DEF FeeCredit, new, old
  <2> QED BY <1>1, <1>2, <1>4, <2>2 DEF new, old, Modes
<1>5. CASE s.newer.epoch > e + 1
  <2>1. FeePhase(s, e) = "notice"
    BY <1>1, <1>5 DEF FeePhase
  <2>2. /\ FeeCredit(s, e, g, "effective") = old
        /\ FeeCredit(s, e, g, "liquidation") = old
        /\ FeeCredit(s, e, g, "admission") = IF new < old THEN new ELSE old
    BY <1>1, <2>1 DEF FeeCredit, new, old
  <2> QED BY <1>1, <1>2, <1>5, <2>2 DEF new, old, Modes
<1> QED BY <1>1, <1>3, <1>4, <1>5

LEMMA InitIInv == Init => IInv
<1> SUFFICES ASSUME Init PROVE IInv
  OBVIOUS
<1>1. schedule \in FeeSchedule
  <2>1. PICK f \in [epoch : {0}, bps : Rates, maximum : Maxima] :
            schedule = [older |-> f, newer |-> f]
    BY DEF Init
  <2>2. f \in Fee
    BY DEF Fee
  <2> QED BY <2>1, <2>2 DEF FeeSchedule
<1>2. mint \in Mint /\ clock \in Clock /\ stale \in Clock /\ quote = None
  BY MintAssumption DEF Init, Clock
<1>3. OneClockPerSlot
  BY DEF Init, OneClockPerSlot
<1> QED BY <1>1, <1>2, <1>3 DEF IInv, TypeOK, Ahead

LEMMA StepIInv == IInv /\ [Next]_vars => IInv'
<1> SUFFICES ASSUME IInv, [Next]_vars PROVE IInv'
  OBVIOUS
<1> USE DEF IInv
<1>t. /\ mint \in Mint /\ schedule \in FeeSchedule /\ clock \in Clock /\ stale \in Clock
      /\ clock.epoch \in Nat /\ clock.slot \in Nat
      /\ quote # None => /\ quote \in Quote /\ quote.gross \in Int /\ quote.epoch \in Int
                         /\ quote.liquidation \in Int /\ quote.admission \in Int
      /\ None \notin Quote
  BY MintAssumption DEF TypeOK, Clock, Quote, Modes
<1>f. /\ schedule.older \in Fee /\ schedule.newer \in Fee
      /\ schedule.newer.epoch \in Nat /\ schedule.older.epoch \in Nat
  BY <1>t DEF FeeSchedule, Fee
<1>c. \A e \in Int : /\ InForce(e) \in Fee
                     /\ quote # None => CreditUnder(InForce(e), quote.gross) \in Int
  BY <1>t, <1>f, CreditIsInt DEF InForce
<1>1. CASE \E e \in 0..MaxEpoch : Tick(e)
  <2>1. PICK e \in 0..MaxEpoch : Tick(e)
    BY <1>1
  <2>2. /\ mint' = mint /\ schedule' = schedule /\ quote' = quote /\ stale' = clock
        /\ clock' = [slot |-> clock.slot + 1, epoch |-> e]
        /\ e \in {clock.epoch, clock.epoch + 1}
    BY <2>1 DEF Tick
  <2>3. TypeOK' /\ OneClockPerSlot'
    BY <1>t, <2>2 DEF TypeOK, Clock, OneClockPerSlot
  <2>4. Ahead'
    <3> SUFFICES ASSUME quote # None PROVE Ahead'
      BY <2>2 DEF Ahead
    <3>1. clock'.epoch = e /\ Charges' = Charges /\ e \in Int
      BY <2>2 DEF Charges
    <3>2. \A x \in Int : InForce(x)' = InForce(x)
      BY <2>2 DEF InForce
    <3>3. CASE e = clock.epoch
      BY <1>t, <2>2, <3>1, <3>2, <3>3 DEF Ahead, Charges, InForce
    <3>4. CASE e = clock.epoch + 1
      <4>1. /\ quote.epoch <= e
            /\ ~Charges => quote.liquidation = quote.gross /\ quote.admission = quote.gross
        BY <1>t, <3>4 DEF Ahead
      <4>2. ASSUME Charges, e <= quote.epoch + 1
            PROVE  quote.liquidation <= CreditUnder(InForce(e), quote.gross)
        <5>1. clock.epoch = quote.epoch
          BY <1>t, <3>4, <4>2 DEF Ahead
        <5> QED BY <3>4, <4>2, <5>1 DEF Ahead
      <4>3. e # quote.epoch
        BY <1>t, <3>4 DEF Ahead
      <4>4. ASSUME Charges, quote.reset = 0
            PROVE  /\ quote.admission <= CreditUnder(InForce(e), quote.gross)
                   /\ quote.admission <= CreditUnder(schedule.newer, quote.gross)
        <5>1. /\ quote.admission <= CreditUnder(InForce(clock.epoch), quote.gross)
              /\ quote.admission <= CreditUnder(schedule.newer, quote.gross)
          BY <4>4 DEF Ahead
        <5>2. InForce(e) = schedule.newer \/ InForce(e) = InForce(clock.epoch)
          BY <1>t, <1>f, <3>4 DEF InForce
        <5> QED BY <5>1, <5>2
      <4> QED BY <2>2, <3>1, <3>2, <4>1, <4>2, <4>3, <4>4 DEF Ahead, Charges, InForce
    <3> QED BY <2>2, <3>3, <3>4
  <2> QED BY <2>3, <2>4
<1>2. CASE \E b \in Rates, m \in Maxima : SetTransferFee(b, m)
  <2>1. PICK b \in Rates, m \in Maxima : SetTransferFee(b, m)
    BY <1>2
  <2> DEFINE newer == [epoch |-> clock.epoch + 2, bps |-> b, maximum |-> m]
             older == IF schedule.newer.epoch <= clock.epoch
                      THEN schedule.newer ELSE schedule.older
  <2>2. /\ mint' = mint /\ clock' = clock /\ stale' = stale
        /\ schedule' = [older |-> older, newer |-> newer]
        /\ quote' = IF quote = None THEN None ELSE [quote EXCEPT !.reset = 1]
    BY <2>1 DEF SetTransferFee
  <2>3. newer \in Fee /\ older \in Fee /\ newer.epoch = clock.epoch + 2
    BY <1>t, <1>f DEF Fee
  <2>4. /\ schedule' \in FeeSchedule /\ schedule'.older = older
        /\ schedule'.newer.epoch = clock.epoch + 2
    BY <2>2, <2>3 DEF FeeSchedule
  <2>5. quote # None => /\ quote' \in Quote /\ quote' # None /\ quote'.reset = 1
                        /\ quote'.gross = quote.gross /\ quote'.epoch = quote.epoch
                        /\ quote'.liquidation = quote.liquidation
                        /\ quote'.admission = quote.admission
    BY <1>t, <2>2 DEF Quote, Modes
  <2>6. TypeOK' /\ OneClockPerSlot'
    BY <1>t, <2>2, <2>4, <2>5 DEF TypeOK, Quote, OneClockPerSlot
  <2>7. Ahead'
    <3> SUFFICES ASSUME quote # None PROVE Ahead'
      BY <2>2 DEF Ahead
    <3>1. Charges' = Charges /\ clock' = clock
      BY <2>2 DEF Charges
    <3>2. /\ InForce(clock.epoch)' = InForce(clock.epoch)
          /\ InForce(clock.epoch + 1)' = InForce(clock.epoch)
      BY <1>t, <2>4, <2>2 DEF InForce
    <3>3. Charges /\ clock.epoch = quote.epoch => clock.epoch <= quote.epoch + 1
      BY <1>t
    <3> HIDE DEF newer, older
    <3> QED BY <2>5, <3>1, <3>2, <3>3 DEF Ahead, InForce
  <2> QED BY <2>6, <2>7
<1>3. CASE \E g \in Amounts, c \in {clock, stale} : Value(g, c)
  <2>1. PICK g \in Amounts, c \in {clock, stale} : Value(g, c)
    BY <1>3
  <2>2. PICK s \in DecodeMintFees(mint, schedule), e \in DecodeClockEpoch(c, clock.slot) :
            quote' = [gross |-> g, epoch |-> clock.epoch, reset |-> 0,
                      effective |-> FeeCredit(s, e, g, "effective"),
                      admission |-> FeeCredit(s, e, g, "admission"),
                      liquidation |-> FeeCredit(s, e, g, "liquidation")]
    BY <2>1 DEF Value
  <2>3. UNCHANGED <<mint, schedule, clock, stale>> /\ g \in Int
    BY <2>1, FeeAssumption DEF Value
  <2>4. s = IF Charges THEN schedule ELSE None
    BY <2>2 DEF DecodeMintFees, Charges
  <2>5. c.slot = clock.slot /\ e = c.epoch
    BY <2>2 DEF DecodeClockEpoch
  <2>6. e = clock.epoch
    BY <2>1, <2>5 DEF OneClockPerSlot
  <2>7. \A mode \in Modes : FeeCredit(s, e, g, mode) \in Int
    <3>1. CASE Charges
      BY <1>t, <2>3, <2>4, <2>6, <3>1, Valued
    <3>2. CASE ~Charges
      BY <2>3, <2>4, <3>2 DEF FeeCredit
    <3> QED BY <3>1, <3>2
  <2>8. /\ quote' \in Quote /\ quote' # None /\ quote'.gross = g /\ quote'.epoch = clock.epoch
        /\ quote'.liquidation = FeeCredit(s, e, g, "liquidation")
        /\ quote'.admission = FeeCredit(s, e, g, "admission")
    <3>1. quote' \in Quote
      BY <1>t, <2>2, <2>3, <2>7 DEF Quote, Modes
    <3> QED BY <1>t, <2>2, <3>1
  <2>9. TypeOK' /\ OneClockPerSlot'
    BY <1>t, <2>3, <2>8 DEF TypeOK, Quote, OneClockPerSlot
  <2>10. Ahead'
    <3>1. Charges' = Charges /\ clock' = clock /\ \A x \in Int : InForce(x)' = InForce(x)
      BY <2>3 DEF Charges, InForce
    <3>2. CASE Charges
      <4>1. /\ FeeCredit(s, e, g, "liquidation") <= CreditUnder(InForce(clock.epoch), g)
            /\ FeeCredit(s, e, g, "liquidation") <= CreditUnder(InForce(clock.epoch + 1), g)
            /\ FeeCredit(s, e, g, "admission") <= CreditUnder(InForce(clock.epoch), g)
            /\ FeeCredit(s, e, g, "admission") <= CreditUnder(schedule.newer, g)
        BY <1>t, <2>3, <2>4, <2>6, <3>2, Valued DEF InForce
      <4> QED BY <1>t, <2>3, <2>8, <3>1, <3>2, <4>1 DEF Ahead, InForce
    <3>3. CASE ~Charges
      BY <1>t, <2>3, <2>4, <2>8, <3>1, <3>3 DEF Ahead, FeeCredit
    <3> QED BY <3>2, <3>3
  <2> QED BY <2>9, <2>10
<1>4. CASE UNCHANGED vars
  BY <1>4 DEF vars, TypeOK, Ahead, OneClockPerSlot, Charges, InForce
<1> QED BY <1>1, <1>2, <1>3, <1>4 DEF Next

LEMMA SpecIInv == Spec => []IInv
<1> QED BY InitIInv, StepIInv, PTL DEF Spec

\* Every variable keeps its type: a valuation is made of integers, whatever
\* schedule, cap and rate the authority announces.
THEOREM TypeCorrect == Spec => []TypeOK
<1>1. IInv => TypeOK
  BY DEF IInv
<1> QED BY <1>1, SpecIInv, PTL

\* What a liquidation was valued at is credited in the epoch of the valuation
\* and in the next one, and what an admission was valued at is credited as
\* long as the authority announces nothing new: the two rows of feeCredit that
\* look at a pending fee look far enough.
THEOREM ValuationsAreKept == Spec => []ValuationKept
<1>1. IInv => ValuationKept
  BY DEF IInv, TypeOK, Ahead, ValuationKept, Credited
<1> QED BY <1>1, SpecIInv, PTL
=============================================================================
