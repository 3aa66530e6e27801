---------------------------- MODULE FlashJournal ----------------------------
(***************************************************************************)
(* The durable submission journal of the Rust keeper,                      *)
(* rust/apps/keeper/src/runtime/flash_journal.rs: several keeper processes *)
(* share one PostgreSQL database (the keeper_flash_work table and the      *)
(* session advisory locks) and send transactions to one cluster.           *)
(*                                                                         *)
(* A process repeats a pass: it recovers every pending row, then submits.  *)
(* A step of a process is one statement (or one SQL transaction) sent to   *)
(* the database, or one RPC call.  A process can stop between any two, its *)
(* database session can die while it goes on, and any RPC call can fail.   *)
(*                                                                         *)
(* Abstractions: a work (the row's primary key, a digest of the message)   *)
(* is the record of what the message depends on; its signature is          *)
(* deterministic, so the work also names the signature.  Slots and block   *)
(* heights are one clock with no skipped slots.  Blocks are never rolled   *)
(* back: the journal reads the finalized commitment only.  The event rows  *)
(* are written in the SQL transaction of the outcome they repeat.          *)
(***************************************************************************)
EXTENDS Integers, FiniteSets

CONSTANTS
    Procs,         \* keeper processes
    Keys,          \* conflict keys: (position, debt side) under one revision
    Plans,         \* what a message asks for, apart from its blockhash
    NoProc,        \* owner of a free advisory lock
    NoWork,        \* the work of a process that handles none
    MaxHeight,     \* bound: the last block
    MaxHash,       \* bound: the last block whose hash a message uses
    SnapshotAge,   \* bound: how far the evaluated slot lags the chain
    MaxFaults,     \* bound: crashes, lost sessions and failed RPC calls
    Validity,      \* blocks a blockhash stays valid for (150 on the cluster)
    RecoverLimit,  \* LIMIT of the recovery query (100)
    ScanWindow,    \* longest history recovery scans (100000 slots)
    ChunkSize,     \* slots in one getBlocks request (500)
    Lag            \* how far behind an answer of the RPC pool may be; 0: one node

ASSUME HeightsAssumption ==
    /\ MaxHeight \in Nat /\ MaxHash \in 0..MaxHeight
    /\ SnapshotAge \in Nat /\ MaxFaults \in Nat /\ Lag \in Nat
    /\ Validity \in Nat \ {0} /\ ScanWindow \in Nat
    /\ ChunkSize \in Nat \ {0} /\ RecoverLimit \in Nat

Works == [key : Keys, plan : Plans, hash : 0..MaxHash]

ASSUME NoneAssumption == NoProc \notin Procs /\ NoWork \notin Works

VARIABLES
    rows,       \* keeper_flash_work, a total function: "absent" is no row
    inserted,   \* rows inserted so far, the clock of created_at
    lock,       \* who holds the advisory lock of a key
    tip,        \* height of the last block
    fin,        \* height of the last finalized block, as the best node sees it
    sent,       \* transactions the cluster has been given
    landed,     \* block that includes a transaction, 0 for none
    good,       \* included transactions that succeeded
    pc,         \* what a process does next
    work,       \* the work a process handles
    from,       \* observed slot to record, or next slot to scan
    to,         \* last slot to scan
    todo,       \* rows the recovery of this pass has yet to visit
    faults      \* faults so far

db    == <<rows, inserted, lock>>
chain == <<tip, fin, sent, landed, good>>
local == <<pc, work, from, to, todo>>
vars  == <<rows, inserted, lock, tip, fin, sent, landed, good, pc, work, from, to, todo, faults>>

Pending  == {"reserved", "submitted_unknown"}
Terminal == {"executed", "failed", "expired_absent", "abandoned_before_submission"}
Outcomes == {"absent"} \cup Pending \cup Terminal
Row == [outcome : Outcomes, signed : BOOLEAN, slot : 0..MaxHeight, created : Nat]

NoRow == [outcome |-> "absent", signed |-> FALSE, slot |-> 0, created |-> 0]

LastValid(w) == w.hash + Validity

IsPending(w) == rows[w].outcome \in Pending

\* Mutant: the predicate of the SELECT and of the index forgets signed rows.
ReservedOf(k) == {w \in Works : w.key = k /\ rows[w].outcome = "reserved"}

\* The row SELECT finds for a key: a partial unique index keeps it unique.
PendingOf(k) == {w \in Works : w.key = k /\ IsPending(w)}

\* Control points, by what runs next: outside the lease; a statement on the
\* leased session; an RPC call under the lease.
FreePc   == {"idle", "recover", "work", "ready"}
SubmitDb == {"locked", "reserve", "signed", "s_unlock"}
RecoverDb == {"reread", "expire", "r_unlock", "r_abort"}
ReceiptPc == {"s_receipt", "r_receipt"}
SubmitRpc == {"send", "s_status", "s_receipt"}
RecoverRpc == {"r_status", "height", "slot", "scan", "r_receipt"}
Pc == FreePc \cup SubmitDb \cup RecoverDb \cup SubmitRpc \cup RecoverRpc
        \cup {"reserved"}

Init ==
    /\ rows = [w \in Works |-> NoRow]
    /\ inserted = 0
    /\ lock = [k \in Keys |-> NoProc]
    /\ tip = 0 /\ fin = 0
    /\ sent = {} /\ landed = [w \in Works |-> 0] /\ good = {}
    /\ pc = [p \in Procs |-> "idle"]
    /\ work = [p \in Procs |-> NoWork]
    /\ from = [p \in Procs |-> 0]
    /\ to = [p \in Procs |-> 0]
    /\ todo = [p \in Procs |-> {}]
    /\ faults = 0

-----------------------------------------------------------------------------
\* Shared steps

Goto(p, l) == pc' = [pc EXCEPT ![p] = l]

Leased(p) == work[p] # NoWork /\ lock[work[p].key] = p

\* A process that handles nothing any more.
Rest(p, l) ==
    /\ Goto(p, l)
    /\ work' = [work EXCEPT ![p] = NoWork]
    /\ from' = [from EXCEPT ![p] = 0]
    /\ to' = [to EXCEPT ![p] = 0]

\* finish: the outcome is overwritten whatever it was.
Finish(w, outcome) == rows' = [rows EXCEPT ![w].outcome = outcome]

\* What one RPC call can see: a pool's node may lag the best one.
Views == {v \in 0..fin : fin - v <= Lag}

FinalizedIn(w, v) == landed[w] # 0 /\ landed[w] <= v

\* An error under the lease: submit unlocks and returns it, recover unlocks
\* and gives up the rest of the pass.
ErrorPc(l) == IF l \in SubmitDb \cup SubmitRpc THEN "s_unlock" ELSE "r_abort"

-----------------------------------------------------------------------------
\* A pass: recover_pending first, then any number of submissions.

Older(w, S) == {o \in S : rows[o].created < rows[w].created}

\* The oldest pending rows, up to the LIMIT of the query.
StartRecover(p) ==
    /\ pc[p] = "idle"
    /\ LET pending == {w \in Works : IsPending(w)} IN
        todo' = [todo EXCEPT ![p] =
            {w \in pending : Cardinality(Older(w, pending)) < RecoverLimit}]
    /\ Goto(p, "recover")
    /\ UNCHANGED <<db, chain, work, from, to, faults>>

\* The rows in their order of insertion; one whose lock is taken is skipped.
RecoverTryLock(p, w) ==
    /\ pc[p] = "recover" /\ w \in todo[p] /\ Older(w, todo[p]) = {}
    /\ todo' = [todo EXCEPT ![p] = @ \ {w}]
    /\ IF lock[w.key] = NoProc
       THEN /\ lock' = [lock EXCEPT ![w.key] = p]
            /\ work' = [work EXCEPT ![p] = w]
            /\ Goto(p, "reread")
       ELSE UNCHANGED <<lock, work, pc>>
    /\ UNCHANGED <<rows, inserted, chain, from, to, faults>>

RecoverDone(p) ==
    /\ pc[p] = "recover" /\ todo[p] = {}
    /\ Goto(p, "work")
    /\ UNCHANGED <<db, chain, work, from, to, todo, faults>>

\* Mutant: a row without a signature is left to its submitter.
KeepReserved(p) ==
    /\ pc[p] = "reread" /\ Leased(p)
    /\ Goto(p, IF IsPending(work[p]) /\ rows[work[p]].signed THEN "r_status" ELSE "r_unlock")
    /\ UNCHANGED <<db, chain, work, from, to, todo, faults>>

\* The row is read again under the lock; one without a signature was never
\* sent and is given up.
RecoverReread(p) ==
    /\ pc[p] = "reread" /\ Leased(p)
    /\ LET w == work[p] IN
        \/ /\ ~IsPending(w)
           /\ Goto(p, "r_unlock") /\ UNCHANGED rows
        \/ /\ IsPending(w) /\ ~rows[w].signed
           /\ Finish(w, "abandoned_before_submission") /\ Goto(p, "r_unlock")
        \/ /\ IsPending(w) /\ rows[w].signed
           /\ Goto(p, "r_status") /\ UNCHANGED rows
    /\ UNCHANGED <<lock, inserted, chain, work, from, to, todo, faults>>

RecoverStatus(p) ==
    /\ pc[p] = "r_status"
    /\ \E v \in Views :
        Goto(p, IF FinalizedIn(work[p], v) THEN "r_receipt" ELSE "height")
    /\ UNCHANGED <<db, chain, work, from, to, todo, faults>>

\* Mutant: a null signature status is enough to look for expiry.
EagerHeight(p) ==
    /\ pc[p] = "height" /\ Goto(p, "slot")
    /\ UNCHANGED <<db, chain, work, from, to, todo, faults>>

\* getBlockHeight: while the blockhash is valid the row stays pending.
RecoverHeight(p) ==
    /\ pc[p] = "height"
    /\ \E v \in Views :
        Goto(p, IF v <= LastValid(work[p]) THEN "r_unlock" ELSE "slot")
    /\ UNCHANGED <<db, chain, work, from, to, todo, faults>>

\* getSlot: the end of the history to scan, refused when it lies before the
\* observed slot or too far after it.
RecoverSlot(p) ==
    /\ pc[p] = "slot"
    /\ \E v \in Views :
        LET start == rows[work[p]].slot IN
        IF v < start \/ v - start > ScanWindow
        THEN /\ Goto(p, "r_abort")
             /\ UNCHANGED <<from, to>>
        ELSE /\ from' = [from EXCEPT ![p] = start]
             /\ to' = [to EXCEPT ![p] = v]
             /\ Goto(p, "scan")
    /\ UNCHANGED <<db, chain, work, todo, faults>>

ChunkEnd(p) ==
    IF from[p] + ChunkSize - 1 < to[p] THEN from[p] + ChunkSize - 1 ELSE to[p]

\* Mutant: the cursor skips a slot between two requests.
SkippingScan(p) ==
    /\ pc[p] = "scan"
    /\ \E v \in Views :
        IF landed[work[p]] \in from[p]..ChunkEnd(p) /\ FinalizedIn(work[p], v)
        THEN Goto(p, "r_receipt") /\ UNCHANGED from
        ELSE IF ChunkEnd(p) + 1 < to[p]
             THEN from' = [from EXCEPT ![p] = ChunkEnd(p) + 2] /\ UNCHANGED pc
             ELSE Goto(p, IF v < to[p] THEN "r_abort" ELSE "expire") /\ UNCHANGED from
    /\ UNCHANGED <<db, chain, work, to, todo, faults>>

\* One getBlocks request and the getBlock of every block it lists.  The node
\* that answers lists the blocks it has; the last request must list the tip.
RecoverScan(p) ==
    /\ pc[p] = "scan"
    /\ \E v \in Views :
        \/ /\ landed[work[p]] \in from[p]..ChunkEnd(p)
           /\ FinalizedIn(work[p], v)
           /\ Goto(p, "r_receipt") /\ UNCHANGED from
        \/ /\ ~(landed[work[p]] \in from[p]..ChunkEnd(p) /\ FinalizedIn(work[p], v))
           /\ IF ChunkEnd(p) < to[p]
              THEN /\ from' = [from EXCEPT ![p] = ChunkEnd(p) + 1]
                   /\ UNCHANGED pc
              ELSE /\ Goto(p, IF v < to[p] THEN "r_abort" ELSE "expire")
                   /\ UNCHANGED from
    /\ UNCHANGED <<db, chain, work, to, todo, faults>>

RecoverExpire(p) ==
    /\ pc[p] = "expire" /\ Leased(p)
    /\ Finish(work[p], "expired_absent")
    /\ Goto(p, "r_unlock")
    /\ UNCHANGED <<lock, inserted, chain, work, from, to, todo, faults>>

\* finish_receipt: the finalized receipt decides the outcome.  A node that
\* does not have it yet is an error.
FinishReceipt(p) ==
    /\ pc[p] \in ReceiptPc
    /\ \E v \in Views :
        IF FinalizedIn(work[p], v)
        THEN /\ Leased(p)
             /\ Finish(work[p], IF work[p] \in good THEN "executed" ELSE "failed")
             /\ Goto(p, IF pc[p] = "s_receipt" THEN "s_unlock" ELSE "r_unlock")
        ELSE Goto(p, ErrorPc(pc[p])) /\ UNCHANGED rows
    /\ UNCHANGED <<lock, inserted, chain, work, from, to, todo, faults>>

RecoverUnlock(p) ==
    /\ pc[p] \in {"r_unlock", "r_abort"} /\ Leased(p)
    /\ lock' = [lock EXCEPT ![work[p].key] = NoProc]
    /\ Rest(p, IF pc[p] = "r_unlock" THEN "recover" ELSE "idle")
    /\ todo' = [todo EXCEPT ![p] = IF pc[p] = "r_unlock" THEN @ ELSE {}]
    /\ UNCHANGED <<rows, inserted, chain, faults>>

-----------------------------------------------------------------------------
\* Submission: evaluate, build the message, take the lease, submit_locked.

\* A fresh snapshot at slot s and a blockhash no older than it.
Prepare(p) ==
    /\ pc[p] = "work"
    /\ \E k \in Keys, a \in Plans, s \in 0..tip, h \in 0..MaxHash :
        /\ tip - s <= SnapshotAge /\ s <= h /\ h <= tip
        /\ work' = [work EXCEPT ![p] = [key |-> k, plan |-> a, hash |-> h]]
        /\ from' = [from EXCEPT ![p] = s]
    /\ Goto(p, "ready")
    /\ UNCHANGED <<db, chain, to, todo, faults>>

EndPass(p) ==
    /\ pc[p] = "work"
    /\ Goto(p, "idle")
    /\ UNCHANGED <<db, chain, work, from, to, todo, faults>>

Acquire(p) ==
    /\ pc[p] = "ready"
    /\ IF lock[work[p].key] = NoProc
       THEN /\ lock' = [lock EXCEPT ![work[p].key] = p]
            /\ Goto(p, "locked")
            /\ UNCHANGED <<work, from, to>>
       ELSE Rest(p, "work") /\ UNCHANGED lock
    /\ UNCHANGED <<rows, inserted, chain, todo, faults>>

\* A pending row replaces the new message, which is dropped.
ReadPending(p) ==
    /\ pc[p] = "locked" /\ Leased(p)
    /\ \/ /\ PendingOf(work[p].key) = {}
          /\ Goto(p, "reserve") /\ UNCHANGED <<rows, work>>
       \/ \E w \in PendingOf(work[p].key) :
          /\ work' = [work EXCEPT ![p] = w]
          /\ \/ /\ rows[w].signed
                /\ Goto(p, "s_status") /\ UNCHANGED rows
             \/ /\ ~rows[w].signed
                /\ Finish(w, "abandoned_before_submission") /\ Goto(p, "s_unlock")
    /\ UNCHANGED <<lock, inserted, chain, from, to, todo, faults>>

\* A pending signature that is not finalized is broadcast again, as recorded.
SubmitStatus(p) ==
    /\ pc[p] = "s_status"
    /\ \E v \in Views :
        IF FinalizedIn(work[p], v)
        THEN Goto(p, "s_receipt") /\ UNCHANGED sent
        ELSE Goto(p, "s_unlock") /\ sent' = sent \cup {work[p]}
    /\ UNCHANGED <<db, tip, fin, landed, good, work, from, to, todo, faults>>

\* INSERT: refused by the primary key and by keeper_flash_pending_position.
Reserve(p) ==
    /\ pc[p] = "reserve" /\ Leased(p)
    /\ IF rows[work[p]].outcome = "absent" /\ PendingOf(work[p].key) = {}
       THEN /\ rows' = [rows EXCEPT ![work[p]] =
                          [outcome |-> "reserved", signed |-> FALSE,
                           slot |-> from[p], created |-> inserted + 1]]
            /\ inserted' = inserted + 1
            /\ Goto(p, "reserved")
       ELSE Goto(p, "s_unlock") /\ UNCHANGED <<rows, inserted>>
    /\ UNCHANGED <<lock, chain, work, from, to, todo, faults>>

\* Mutant: the transaction is broadcast as soon as it is signed.
SignAndSend(p) ==
    /\ pc[p] = "reserved"
    /\ sent' = sent \cup {work[p]} /\ Goto(p, "signed")
    /\ UNCHANGED <<db, tip, fin, landed, good, work, from, to, todo, faults>>

Sign(p) ==
    /\ pc[p] = "reserved"
    /\ Goto(p, "signed")
    /\ UNCHANGED <<db, chain, work, from, to, todo, faults>>

\* Mutant: the signature is recorded on a session of its own, lease or not.
PersistAnyway(p) ==
    /\ pc[p] = "signed"
    /\ rows' = [rows EXCEPT ![work[p]] =
                  [@ EXCEPT !.outcome = "submitted_unknown", !.signed = TRUE]]
    /\ Goto(p, "send")
    /\ UNCHANGED <<lock, inserted, chain, work, from, to, todo, faults>>

\* The signature and the bytes are recorded whatever the outcome was.
Persist(p) ==
    /\ pc[p] = "signed" /\ Leased(p)
    /\ rows' = [rows EXCEPT ![work[p]] =
                  [@ EXCEPT !.outcome = "submitted_unknown", !.signed = TRUE]]
    /\ Goto(p, "send")
    /\ UNCHANGED <<lock, inserted, chain, work, from, to, todo, faults>>

Send(p) ==
    /\ pc[p] = "send"
    /\ sent' = sent \cup {work[p]}
    /\ Goto(p, "s_unlock")
    /\ UNCHANGED <<db, tip, fin, landed, good, work, from, to, todo, faults>>

SubmitUnlock(p) ==
    /\ pc[p] = "s_unlock" /\ Leased(p)
    /\ lock' = [lock EXCEPT ![work[p].key] = NoProc]
    /\ Rest(p, "work")
    /\ UNCHANGED <<rows, inserted, chain, todo, faults>>

-----------------------------------------------------------------------------
\* Faults

\* An RPC call fails after its retries; a failed send may have been delivered.
RpcError(p) ==
    /\ pc[p] \in SubmitRpc \cup RecoverRpc /\ faults < MaxFaults
    /\ faults' = faults + 1
    /\ Goto(p, ErrorPc(pc[p]))
    /\ \/ UNCHANGED sent
       \/ pc[p] = "send" /\ sent' = sent \cup {work[p]}
    /\ UNCHANGED <<db, tip, fin, landed, good, work, from, to, todo>>

\* The database session dies and its lock with it; the process goes on.
Disconnect(p) ==
    /\ work[p] # NoWork /\ Leased(p) /\ faults < MaxFaults
    /\ faults' = faults + 1
    /\ lock' = [lock EXCEPT ![work[p].key] = NoProc]
    /\ UNCHANGED <<rows, inserted, chain, local>>

\* The next statement on a dead session fails, the unlock too: submit returns
\* an error, recover gives up the pass.
LeaseLost(p) ==
    /\ pc[p] \in SubmitDb \cup RecoverDb \cup ReceiptPc
    /\ work[p] # NoWork /\ ~Leased(p)
    /\ IF pc[p] \in SubmitDb \cup SubmitRpc
       THEN Rest(p, "work") /\ UNCHANGED todo
       ELSE Rest(p, "idle") /\ todo' = [todo EXCEPT ![p] = {}]
    /\ UNCHANGED <<db, chain, faults>>

\* The process stops and is started again.
Crash(p) ==
    /\ pc[p] # "idle" /\ faults < MaxFaults
    /\ faults' = faults + 1
    /\ lock' = [k \in Keys |-> IF lock[k] = p THEN NoProc ELSE lock[k]]
    /\ Rest(p, "idle")
    /\ todo' = [todo EXCEPT ![p] = {}]
    /\ UNCHANGED <<rows, inserted, chain>>

-----------------------------------------------------------------------------
\* The cluster

\* A new block takes in any transactions it was given whose blockhash is
\* still valid; some of them fail.
NewBlock ==
    /\ tip < MaxHeight
    /\ tip' = tip + 1
    /\ \E in \in SUBSET {w \in sent : landed[w] = 0 /\ tip + 1 <= LastValid(w)} :
        /\ landed' = [w \in Works |-> IF w \in in THEN tip + 1 ELSE landed[w]]
        /\ \E ok \in SUBSET in : good' = good \cup ok
    /\ UNCHANGED <<db, fin, sent, local, faults>>

Finalize ==
    /\ fin < tip
    /\ fin' = fin + 1
    /\ UNCHANGED <<db, tip, sent, landed, good, local, faults>>

-----------------------------------------------------------------------------
Recover(p) ==
    \/ StartRecover(p) \/ (\E w \in Works : RecoverTryLock(p, w)) \/ RecoverDone(p)
    \/ RecoverReread(p) \/ RecoverStatus(p) \/ RecoverHeight(p) \/ RecoverSlot(p)
    \/ RecoverScan(p) \/ RecoverExpire(p) \/ FinishReceipt(p) \/ RecoverUnlock(p)

Submit(p) ==
    \/ Acquire(p) \/ ReadPending(p) \/ SubmitStatus(p) \/ Reserve(p) \/ Sign(p)
    \/ Persist(p) \/ Send(p) \/ SubmitUnlock(p)

Fault(p) == RpcError(p) \/ Disconnect(p) \/ Crash(p)

Next ==
    \/ \E p \in Procs : \/ Recover(p) \/ Submit(p) \/ Prepare(p) \/ EndPass(p)
                        \/ LeaseLost(p) \/ Fault(p)
    \/ NewBlock
    \/ Finalize

Spec == Init /\ [][Next]_vars
-----------------------------------------------------------------------------
\* Properties

(***************************************************************************)
(* Every variable has its type.                                            *)
(***************************************************************************)
TypeOK ==
    /\ rows \in [Works -> Row]
    /\ inserted \in Nat
    /\ lock \in [Keys -> Procs \cup {NoProc}]
    /\ tip \in 0..MaxHeight /\ fin \in 0..tip
    /\ sent \subseteq Works /\ good \subseteq Works
    /\ landed \in [Works -> 0..MaxHeight]
    /\ pc \in [Procs -> Pc]
    /\ work \in [Procs -> Works \cup {NoWork}]
    /\ from \in [Procs -> 0..MaxHeight]
    /\ to \in [Procs -> 0..MaxHeight]
    /\ todo \in [Procs -> SUBSET Works]
    /\ faults \in 0..MaxFaults

\* A recorded signature the cluster could still include.
CanLand(w) == rows[w].signed /\ landed[w] = 0 /\ tip < LastValid(w)

\* What became of a transaction can no longer change.
FateKnown(w) == \/ FinalizedIn(w, fin)
                \/ landed[w] = 0 /\ tip >= LastValid(w)

(***************************************************************************)
(* The recorded outcome is what the cluster did: executed and failed rows  *)
(* are finalized that way, an expired_absent row's transaction is in no    *)
(* block and never will be (flash_journal.rs:39-41), an abandoned one was  *)
(* never signed nor sent.                                                  *)
(***************************************************************************)
OutcomeMatchesChain ==
    \A w \in Works :
        /\ rows[w].outcome = "executed" => FinalizedIn(w, fin) /\ w \in good
        /\ rows[w].outcome = "failed" => FinalizedIn(w, fin) /\ w \notin good
        /\ rows[w].outcome = "expired_absent" =>
              landed[w] = 0 /\ tip >= LastValid(w)
        /\ rows[w].outcome = "abandoned_before_submission" =>
              ~rows[w].signed /\ w \notin sent

(***************************************************************************)
(* The part of it that flash_journal.rs:39-41 states: expiry is concluded  *)
(* from complete finalized history.                                        *)
(***************************************************************************)
ExpiredIsAbsent ==
    \A w \in Works : rows[w].outcome = "expired_absent" =>
        landed[w] = 0 /\ tip >= LastValid(w)

(***************************************************************************)
(* Whatever crashes, the cluster never holds a transaction whose exact     *)
(* bytes are not recorded: the row is signed before the RPC call           *)
(* (flash_journal.rs:289-298).                                             *)
(***************************************************************************)
RecordedBeforeSent == \A w \in sent : rows[w].signed

(***************************************************************************)
(* At most one recorded transaction of a conflict key can still land,      *)
(* whichever processes signed them.                                        *)
(***************************************************************************)
SingleLive ==
    \A w1, w2 \in Works :
        w1.key = w2.key /\ CanLand(w1) /\ CanLand(w2) => w1 = w2

(***************************************************************************)
(* A generation is signed only when the fate of every earlier generation   *)
(* of its key is final: finalized in a block, or absent with its blockhash *)
(* expired (submit_locked reconciles before it replaces).                  *)
(***************************************************************************)
ReplacementWaitsForFate ==
    \A w \in Works : ~rows[w].signed /\ rows'[w].signed =>
        \A o \in Works \ {w} : o.key = w.key /\ rows[o].signed => FateKnown(o)

ReplacementAfterFate == [][ReplacementWaitsForFate]_vars

(***************************************************************************)
(* A resolved row is never reopened nor resolved otherwise, although the   *)
(* UPDATEs of finish and of the signing transaction name no expected       *)
(* outcome: the lock's session is what protects the row.                   *)
(***************************************************************************)
TerminalStays ==
    \A w \in Works : rows[w].outcome \in Terminal => rows'[w].outcome = rows[w].outcome

TerminalForGood == [][TerminalStays]_vars

\* What the runtime gives: processes keep running, each pass makes finitely
\* many submissions and ends, a process that finds a lock taken tries again
\* at later passes and is not unlucky for ever, and blocks keep coming.
Fairness ==
    /\ WF_vars(NewBlock) /\ WF_vars(Finalize)
    /\ \A p \in Procs :
        /\ WF_vars(Recover(p)) /\ WF_vars(Submit(p)) /\ WF_vars(LeaseLost(p))
        /\ SF_vars(EndPass(p))
        /\ \A w \in Works : SF_vars(RecoverTryLock(p, w) /\ lock[w.key] = NoProc)

FairSpec == Spec /\ Fairness

(***************************************************************************)
(* Every pending row is resolved in the end, whoever wrote it and whatever *)
(* became of that process, once faults stop.                               *)
(***************************************************************************)
PendingResolved ==
    \A w \in Works : IsPending(w) ~> rows[w].outcome \in Terminal

(***************************************************************************)
(* What flash_journal.rs:39-41 promises of "every pending generation", for *)
(* the rows that need no history at all: a reserved row without signature  *)
(* does not stay so for ever.                                              *)
(***************************************************************************)
UnsignedReleased ==
    \A w \in Works :
        IsPending(w) /\ ~rows[w].signed ~> ~IsPending(w) \/ rows[w].signed

-----------------------------------------------------------------------------
\* What the journal implements

Fate == [w \in Works |->
    IF ~rows[w].signed THEN "unsigned"
    ELSE IF landed[w] # 0 THEN (IF w \in good THEN "executed" ELSE "failed")
    ELSE IF tip < LastValid(w) THEN "live" ELSE "dead"]

G == INSTANCE Generations WITH fate <- Fate

(***************************************************************************)
(* Seen from the cluster, the processes, their leases, crashes and repeats *)
(* amount to one signer per key that waits for each transaction's fate.    *)
(***************************************************************************)
ImplementsGenerations == G!Spec

-----------------------------------------------------------------------------
\* The inductive invariant

\* A process has a work exactly between choosing it and letting go of it.
WorkInv ==
    \A p \in Procs : (work[p] = NoWork) = (pc[p] \in {"idle", "recover", "work"})

\* The signature column and the outcome column agree.
RowInv ==
    \A w \in Works :
        /\ rows[w].signed =
             (rows[w].outcome \in {"submitted_unknown", "executed", "failed", "expired_absent"})
        /\ rows[w].outcome # "absent" => rows[w].slot <= w.hash /\ w.hash <= tip

UniquePending ==
    \A w, o \in Works : w.key = o.key /\ IsPending(w) /\ IsPending(o) => w = o

\* Blocks hold what was sent, between its blockhash and its expiry.
ChainInv ==
    \A w \in Works :
        /\ w \in good => landed[w] # 0
        /\ landed[w] # 0 => /\ w \in sent /\ landed[w] <= tip
                            /\ w.hash < landed[w] /\ landed[w] <= LastValid(w)

SignedPc == {"send", "s_status", "s_receipt", "r_status", "height", "slot", "scan",
             "r_receipt", "expire"}

\* What a process knows of its work; the outcome only while it has the lease.
LocalInv ==
    \A p \in Procs :
        /\ pc[p] \in {"ready", "locked", "reserve"} =>
              from[p] <= work[p].hash /\ work[p].hash <= tip
        /\ pc[p] \in {"reserved", "signed"} /\ Leased(p) =>
              rows[work[p]].outcome = "reserved"
        /\ pc[p] \in SignedPc => rows[work[p]].signed
        /\ pc[p] \in SignedPc /\ Leased(p) =>
              rows[work[p]].outcome = "submitted_unknown"

\* What the expiry check has established so far.
ScanInv ==
    \A p \in Procs :
        /\ pc[p] \in {"slot", "scan", "expire"} => LastValid(work[p]) < fin
        /\ pc[p] = "scan" => /\ LastValid(work[p]) <= to[p]
                             /\ landed[work[p]] = 0 \/ from[p] <= landed[work[p]]
        /\ pc[p] = "expire" => landed[work[p]] = 0

IInv == /\ TypeOK /\ WorkInv /\ RowInv /\ UniquePending /\ ChainInv
        /\ RecordedBeforeSent /\ LocalInv /\ ScanInv /\ OutcomeMatchesChain
=============================================================================
