------------------------- MODULE FlashJournalProofs -------------------------
(***************************************************************************)
(* Proofs about FlashJournal, for every number of processes, keys and      *)
(* blocks, when an RPC answer lags the cluster by at most one block.       *)
(***************************************************************************)
EXTENDS FlashJournal, TLAPS

\* Any action but the chain's, as the sum of the processes' steps.
LEMMA NextCases ==
    ASSUME [Next]_vars
    PROVE  \/ \E p \in Procs : Recover(p)
           \/ \E p \in Procs : Submit(p)
           \/ \E p \in Procs : Prepare(p) \/ EndPass(p) \/ LeaseLost(p) \/ Fault(p)
           \/ NewBlock \/ Finalize
           \/ UNCHANGED vars
BY DEF Next

LEMMA InitTypeOK == Init => TypeOK
BY HeightsAssumption DEF Init, TypeOK, Row, NoRow, Outcomes, Pc, FreePc

\* finish keeps the table well typed.
LEMMA FinishType ==
    ASSUME rows \in [Works -> Row], NEW w \in Works, NEW o \in Outcomes, Finish(w, o)
    PROVE  rows' \in [Works -> Row]
<1>1. [rows[w] EXCEPT !.outcome = o] \in Row
  BY DEF Row
<1>2. rows' = [rows EXCEPT ![w] = [rows[w] EXCEPT !.outcome = o]]
  BY DEF Finish
<1>3. QED
  BY <1>1, <1>2

LEMMA GotoType ==
    ASSUME pc \in [Procs -> Pc], NEW p \in Procs, NEW l \in Pc, Goto(p, l)
    PROVE  pc' \in [Procs -> Pc]
BY DEF Goto

LEMMA TypeStepRecover ==
    ASSUME TypeOK, WorkInv, NEW p \in Procs, Recover(p)
    PROVE  TypeOK'
<1> USE HeightsAssumption DEF TypeOK, Goto, Pc, FreePc, SubmitDb, RecoverDb, SubmitRpc, RecoverRpc
<1>1. CASE StartRecover(p)
  BY <1>1 DEF StartRecover, db, chain
<1>2. ASSUME NEW w \in Works, RecoverTryLock(p, w)  PROVE TypeOK'
  BY <1>2 DEF RecoverTryLock, chain, Works
<1>3. CASE RecoverDone(p)
  BY <1>3 DEF RecoverDone, db, chain
<1>4. CASE RecoverReread(p)
  <2>1. work[p] \in Works
    BY <1>4 DEF RecoverReread, Leased
  <2>2. rows' \in [Works -> Row]
    BY <1>4, <2>1, FinishType DEF RecoverReread, Outcomes, Terminal
  <2>3. QED
    BY <1>4, <2>2 DEF RecoverReread, chain
<1>5. CASE RecoverStatus(p)
  BY <1>5 DEF RecoverStatus, db, chain
<1>6. CASE RecoverHeight(p)
  BY <1>6 DEF RecoverHeight, db, chain
<1>7. CASE RecoverSlot(p)
  <2>1. PICK v \in Views :
            LET start == rows[work[p]].slot IN
            IF v < start \/ v - start > ScanWindow
            THEN Goto(p, "r_abort") /\ UNCHANGED <<from, to>>
            ELSE /\ from' = [from EXCEPT ![p] = start]
                 /\ to' = [to EXCEPT ![p] = v]
                 /\ Goto(p, "scan")
    BY <1>7 DEF RecoverSlot
  <2>2. work[p] \in Works
    BY <1>7 DEF RecoverSlot, WorkInv
  <2>3. rows[work[p]].slot \in 0..MaxHeight /\ v \in 0..MaxHeight
    BY <2>2 DEF Row, Views
  <2>4. from' \in [Procs -> 0..MaxHeight] /\ to' \in [Procs -> 0..MaxHeight]
    BY <2>1, <2>3
  <2>5. pc' \in [Procs -> Pc]
    BY <2>1
  <2>6. QED
    BY <1>7, <2>4, <2>5 DEF RecoverSlot, db, chain
<1>8. CASE RecoverScan(p)
  <2>1. ChunkEnd(p) < to[p] => ChunkEnd(p) + 1 \in 0..MaxHeight
    BY DEF ChunkEnd
  <2>2. from' \in [Procs -> 0..MaxHeight]
    BY <1>8, <2>1 DEF RecoverScan
  <2>3. pc' \in [Procs -> Pc]
    BY <1>8 DEF RecoverScan
  <2>4. QED
    BY <1>8, <2>2, <2>3 DEF RecoverScan, db, chain
<1>9. CASE RecoverExpire(p)
  <2>1. work[p] \in Works
    BY <1>9 DEF RecoverExpire, Leased
  <2>2. rows' \in [Works -> Row]
    BY <1>9, <2>1, FinishType DEF RecoverExpire, Outcomes, Terminal
  <2>3. QED
    BY <1>9, <2>2 DEF RecoverExpire, chain
<1>10. CASE FinishReceipt(p)
  <2>1. PICK v \in Views :
            \/ /\ Leased(p)
               /\ Finish(work[p], IF work[p] \in good THEN "executed" ELSE "failed")
               /\ Goto(p, IF pc[p] = "s_receipt" THEN "s_unlock" ELSE "r_unlock")
            \/ Goto(p, ErrorPc(pc[p])) /\ UNCHANGED rows
    BY <1>10 DEF FinishReceipt
  <2>2. rows' \in [Works -> Row]
    <3>1. Leased(p) => work[p] \in Works
      BY DEF Leased
    <3>2. QED
      BY <2>1, <3>1, FinishType DEF Outcomes, Terminal
  <2>3. pc' \in [Procs -> Pc]
    BY <2>1 DEF ErrorPc
  <2>4. QED
    BY <1>10, <2>2, <2>3 DEF FinishReceipt, chain
<1>11. CASE RecoverUnlock(p)
  <2>1. pc' \in [Procs -> Pc] /\ work' \in [Procs -> Works \cup {NoWork}]
        /\ from' \in [Procs -> 0..MaxHeight] /\ to' \in [Procs -> 0..MaxHeight]
    BY <1>11 DEF RecoverUnlock, Rest
  <2>2. lock' \in [Keys -> Procs \cup {NoProc}] /\ todo' \in [Procs -> SUBSET Works]
    BY <1>11 DEF RecoverUnlock
  <2>3. QED
    BY <1>11, <2>1, <2>2 DEF RecoverUnlock, chain
<1>12. QED
  BY <1>1, <1>2, <1>3, <1>4, <1>5, <1>6, <1>7, <1>8, <1>9, <1>10, <1>11 DEF Recover

LEMMA TypeStepSubmit ==
    ASSUME TypeOK, WorkInv, NEW p \in Procs, Submit(p)
    PROVE  TypeOK'
<1> USE HeightsAssumption DEF TypeOK, Goto, Pc, FreePc, SubmitDb, RecoverDb, SubmitRpc, RecoverRpc
<1>1. CASE Acquire(p)
  BY <1>1 DEF Acquire, chain, Rest
<1>2. CASE ReadPending(p)
  <2>1. CASE PendingOf(work[p].key) = {} /\ Goto(p, "reserve") /\ UNCHANGED <<rows, work>>
    BY <1>2, <2>1 DEF ReadPending, chain
  <2>2. ASSUME NEW w \in PendingOf(work[p].key),
               work' = [work EXCEPT ![p] = w],
               \/ Goto(p, "s_status") /\ UNCHANGED rows
               \/ Finish(w, "abandoned_before_submission") /\ Goto(p, "s_unlock")
        PROVE  TypeOK'
    <3>1. w \in Works
      BY DEF PendingOf
    <3>2. rows' \in [Works -> Row]
      BY <2>2, <3>1, FinishType DEF Outcomes, Terminal
    <3>3. QED
      BY <1>2, <2>2, <3>1, <3>2 DEF ReadPending, chain
  <2>3. QED
    BY <1>2, <2>1, <2>2 DEF ReadPending
<1>3. CASE SubmitStatus(p)
  <2>1. work[p] \in Works
    BY <1>3 DEF SubmitStatus, WorkInv
  <2>2. QED
    BY <1>3, <2>1 DEF SubmitStatus, db
<1>4. CASE Reserve(p)
  <2>1. from[p] \in 0..MaxHeight /\ inserted + 1 \in Nat
    OBVIOUS
  <2>2. [outcome |-> "reserved", signed |-> FALSE, slot |-> from[p],
         created |-> inserted + 1] \in Row
    BY <2>1 DEF Row, Outcomes, Pending
  <2>3. rows' \in [Works -> Row]
    BY <1>4, <2>2 DEF Reserve
  <2>4. QED
    BY <1>4, <2>3 DEF Reserve, chain
<1>5. CASE Sign(p)
  BY <1>5 DEF Sign, db, chain
<1>6. CASE Persist(p)
  <2>1. work[p] \in Works
    BY <1>6 DEF Persist, Leased
  <2>2. [rows[work[p]] EXCEPT !.outcome = "submitted_unknown", !.signed = TRUE] \in Row
    <3>1. rows[work[p]] \in Row
      BY <2>1
    <3>2. ASSUME NEW r \in Row
          PROVE  [r EXCEPT !.outcome = "submitted_unknown", !.signed = TRUE] \in Row
      BY DEF Row, Outcomes, Pending
    <3>3. QED
      BY <3>1, <3>2
  <2>3. rows' = [rows EXCEPT ![work[p]] =
            [rows[work[p]] EXCEPT !.outcome = "submitted_unknown", !.signed = TRUE]]
    BY <1>6, <2>1 DEF Persist
  <2>4. rows' \in [Works -> Row]
    BY <2>2, <2>3
  <2>5. QED
    BY <1>6, <2>4 DEF Persist, chain
<1>7. CASE Send(p)
  <2>1. work[p] \in Works
    BY <1>7 DEF Send, WorkInv
  <2>2. QED
    BY <1>7, <2>1 DEF Send, db
<1>8. CASE SubmitUnlock(p)
  <2>1. pc' \in [Procs -> Pc] /\ work' \in [Procs -> Works \cup {NoWork}]
        /\ from' \in [Procs -> 0..MaxHeight] /\ to' \in [Procs -> 0..MaxHeight]
    BY <1>8 DEF SubmitUnlock, Rest
  <2>2. QED
    BY <1>8, <2>1 DEF SubmitUnlock, chain
<1>9. QED
  BY <1>1, <1>2, <1>3, <1>4, <1>5, <1>6, <1>7, <1>8 DEF Submit

LEMMA TypeStepOther ==
    ASSUME TypeOK, WorkInv, NEW p \in Procs,
           Prepare(p) \/ EndPass(p) \/ LeaseLost(p) \/ Fault(p)
    PROVE  TypeOK'
<1> USE HeightsAssumption DEF TypeOK, Goto, Pc, FreePc, SubmitDb, RecoverDb, SubmitRpc, RecoverRpc
<1>1. CASE Prepare(p)
  BY <1>1 DEF Prepare, db, chain, Works
<1>2. CASE EndPass(p)
  BY <1>2 DEF EndPass, db, chain
<1>3. CASE LeaseLost(p)
  BY <1>3 DEF LeaseLost, db, chain, Rest
<1>4. CASE RpcError(p)
  <2>1. work[p] \in Works
    BY <1>4 DEF RpcError, WorkInv
  <2>2. pc' \in [Procs -> Pc] /\ sent' \subseteq Works
    BY <1>4, <2>1 DEF RpcError, ErrorPc
  <2>3. faults' \in 0..MaxFaults
    BY <1>4 DEF RpcError
  <2>4. QED
    BY <1>4, <2>2, <2>3 DEF RpcError, db
<1>5. CASE Disconnect(p)
  <2>1. faults' \in 0..MaxFaults
    BY <1>5 DEF Disconnect
  <2>2. lock' \in [Keys -> Procs \cup {NoProc}]
    BY <1>5 DEF Disconnect
  <2>3. QED
    BY <1>5, <2>1, <2>2 DEF Disconnect, chain, local
<1>6. CASE Crash(p)
  <2>1. lock' \in [Keys -> Procs \cup {NoProc}] /\ todo' \in [Procs -> SUBSET Works]
    BY <1>6 DEF Crash
  <2>2. /\ pc' \in [Procs -> Pc] /\ work' \in [Procs -> Works \cup {NoWork}]
        /\ from' \in [Procs -> 0..MaxHeight] /\ to' \in [Procs -> 0..MaxHeight]
    BY <1>6 DEF Crash, Rest
  <2>3. QED
    BY <1>6, <2>1, <2>2 DEF Crash, chain
<1>7. QED
  BY <1>1, <1>2, <1>3, <1>4, <1>5, <1>6 DEF Fault

LEMMA TypeStepChain ==
    ASSUME TypeOK, NewBlock \/ Finalize
    PROVE  TypeOK'
<1> USE HeightsAssumption DEF TypeOK
<1>1. CASE NewBlock
  <2>1. tip' \in 0..MaxHeight /\ fin' \in 0..tip' /\ tip + 1 \in 0..MaxHeight
    BY <1>1 DEF NewBlock
  <2>2. landed' \in [Works -> 0..MaxHeight]
    BY <1>1, <2>1 DEF NewBlock
  <2>3. good' \subseteq Works
    BY <1>1 DEF NewBlock
  <2>4. QED
    BY <1>1, <2>1, <2>2, <2>3 DEF NewBlock, db, local
<1>2. CASE Finalize
  BY <1>2 DEF Finalize, db, local
<1>3. QED
  BY <1>1, <1>2

LEMMA TypeStep ==
    ASSUME TypeOK, WorkInv, [Next]_vars
    PROVE  TypeOK'
<1>1. CASE UNCHANGED vars
  BY <1>1 DEF vars, TypeOK
<1>2. QED
  BY <1>1, NextCases, TypeStepRecover, TypeStepSubmit, TypeStepOther, TypeStepChain

-----------------------------------------------------------------------------
(***************************************************************************)
(* What a step does to the table and the chain: one of the following.      *)
(***************************************************************************)
Quiet ==
    /\ UNCHANGED <<rows, tip, fin, landed, good>>
    /\ \/ UNCHANGED sent
       \/ \E p \in Procs : /\ pc[p] \in {"send", "s_status"}
                           /\ sent' = sent \cup {work[p]}

Abandon(w) ==
    /\ IsPending(w) /\ ~rows[w].signed
    /\ Finish(w, "abandoned_before_submission")
    /\ UNCHANGED chain

Expire(p) ==
    /\ pc[p] = "expire" /\ Leased(p)
    /\ Finish(work[p], "expired_absent")
    /\ UNCHANGED chain

Receipt(p) ==
    /\ pc[p] \in ReceiptPc /\ Leased(p) /\ FinalizedIn(work[p], fin)
    /\ Finish(work[p], IF work[p] \in good THEN "executed" ELSE "failed")
    /\ UNCHANGED chain

Insert(p) ==
    /\ pc[p] = "reserve" /\ Leased(p)
    /\ rows[work[p]].outcome = "absent" /\ PendingOf(work[p].key) = {}
    /\ rows' = [rows EXCEPT ![work[p]] =
                  [outcome |-> "reserved", signed |-> FALSE,
                   slot |-> from[p], created |-> inserted + 1]]
    /\ UNCHANGED chain

DataStep ==
    \/ Quiet
    \/ \E w \in Works : Abandon(w)
    \/ \E p \in Procs : Expire(p) \/ Receipt(p) \/ Insert(p)
    \/ \E p \in Procs : Persist(p)
    \/ NewBlock \/ Finalize

LEMMA DataSteps ==
    ASSUME TypeOK, WorkInv, [Next]_vars
    PROVE  DataStep
<1> USE DEF chain, local, db
<1>1. ASSUME NEW p \in Procs, Recover(p)  PROVE DataStep
  <2>1. CASE StartRecover(p)
    BY <2>1 DEF StartRecover, DataStep, Quiet
  <2>2. ASSUME NEW w \in Works, RecoverTryLock(p, w)  PROVE DataStep
    BY <2>2 DEF RecoverTryLock, DataStep, Quiet
  <2>3. CASE RecoverDone(p)
    BY <2>3 DEF RecoverDone, DataStep, Quiet
  <2>4. CASE RecoverReread(p)
    <3>1. work[p] \in Works
      BY <2>4 DEF RecoverReread, Leased, TypeOK
    <3>2. QED
      BY <2>4, <3>1 DEF RecoverReread, DataStep, Quiet, Abandon
  <2>5. CASE RecoverStatus(p)
    BY <2>5 DEF RecoverStatus, DataStep, Quiet
  <2>6. CASE RecoverHeight(p)
    BY <2>6 DEF RecoverHeight, DataStep, Quiet
  <2>7. CASE RecoverSlot(p)
    BY <2>7 DEF RecoverSlot, DataStep, Quiet
  <2>8. CASE RecoverScan(p)
    BY <2>8 DEF RecoverScan, DataStep, Quiet
  <2>9. CASE RecoverExpire(p)
    BY <2>9 DEF RecoverExpire, DataStep, Expire
  <2>10. CASE FinishReceipt(p)
    <3>1. PICK v \in Views :
            IF FinalizedIn(work[p], v)
            THEN /\ Leased(p)
                 /\ Finish(work[p], IF work[p] \in good THEN "executed" ELSE "failed")
            ELSE UNCHANGED rows
      BY <2>10 DEF FinishReceipt
    <3>2. CASE FinalizedIn(work[p], v)
      <4>1. work[p] \in Works
        BY <3>1, <3>2 DEF Leased, TypeOK
      <4>2. FinalizedIn(work[p], fin)
        BY <3>2, <4>1, HeightsAssumption DEF FinalizedIn, Views, TypeOK
      <4>3. QED
        BY <2>10, <3>1, <3>2, <4>2 DEF FinishReceipt, DataStep, Receipt
    <3>3. CASE ~FinalizedIn(work[p], v)
      BY <2>10, <3>1, <3>3 DEF FinishReceipt, DataStep, Quiet
    <3>4. QED
      BY <3>2, <3>3
  <2>11. CASE RecoverUnlock(p)
    BY <2>11 DEF RecoverUnlock, DataStep, Quiet
  <2>12. QED
    BY <1>1, <2>1, <2>2, <2>3, <2>4, <2>5, <2>6, <2>7, <2>8, <2>9, <2>10, <2>11 DEF Recover
<1>2. ASSUME NEW p \in Procs, Submit(p)  PROVE DataStep
  <2>1. CASE Acquire(p)
    BY <2>1 DEF Acquire, DataStep, Quiet
  <2>2. CASE ReadPending(p)
    BY <2>2 DEF ReadPending, DataStep, Quiet, Abandon, PendingOf
  <2>3. CASE SubmitStatus(p)
    BY <2>3 DEF SubmitStatus, DataStep, Quiet
  <2>4. CASE Reserve(p)
    BY <2>4 DEF Reserve, DataStep, Quiet, Insert
  <2>5. CASE Sign(p)
    BY <2>5 DEF Sign, DataStep, Quiet
  <2>6. CASE Persist(p)
    BY <2>6 DEF DataStep
  <2>7. CASE Send(p)
    BY <2>7 DEF Send, DataStep, Quiet
  <2>8. CASE SubmitUnlock(p)
    BY <2>8 DEF SubmitUnlock, DataStep, Quiet
  <2>9. QED
    BY <1>2, <2>1, <2>2, <2>3, <2>4, <2>5, <2>6, <2>7, <2>8 DEF Submit
<1>3. ASSUME NEW p \in Procs, Prepare(p) \/ EndPass(p) \/ LeaseLost(p) \/ Fault(p)
      PROVE  DataStep
  BY <1>3 DEF Prepare, EndPass, LeaseLost, Fault, RpcError, Disconnect, Crash, DataStep, Quiet
<1>4. CASE NewBlock \/ Finalize
  BY <1>4 DEF DataStep
<1>5. CASE UNCHANGED vars
  BY <1>5 DEF vars, DataStep, Quiet
<1>6. QED
  BY <1>1, <1>2, <1>3, <1>4, <1>5, NextCases

-----------------------------------------------------------------------------
(***************************************************************************)
(* The invariants of the table and of the chain, one kind of step at a     *)
(* time.                                                                   *)
(***************************************************************************)
DataInv == /\ RowInv /\ UniquePending /\ ChainInv
           /\ RecordedBeforeSent /\ OutcomeMatchesChain

LEMMA QuietKeeps ==
    ASSUME IInv, Quiet
    PROVE  DataInv'
<1>1. RowInv' /\ UniquePending' /\ OutcomeMatchesChain'
  <2>1. UNCHANGED <<rows, tip, fin, landed, good>>
    BY DEF Quiet
  <2>2. RowInv' /\ UniquePending'
    BY <2>1 DEF IInv, RowInv, UniquePending, IsPending
  <2>3. ASSUME NEW p \in Procs, pc[p] \in {"send", "s_status"}
        PROVE  rows[work[p]].signed
    BY <2>3 DEF IInv, LocalInv, SignedPc
  <2>4. \A w \in Works : w \in sent' => w \in sent \/ rows[w].signed
    BY <2>3 DEF Quiet
  <2>5. QED
    BY <2>1, <2>2, <2>4 DEF IInv, OutcomeMatchesChain, FinalizedIn
<1>2. ChainInv'
  BY DEF Quiet, IInv, ChainInv
<1>3. RecordedBeforeSent'
  BY DEF Quiet, IInv, RecordedBeforeSent, LocalInv, SignedPc
<1>4. QED
  BY <1>1, <1>2, <1>3 DEF DataInv

\* finish keeps what the table and the chain have in common, whatever the outcome.
LEMMA FinishKeeps ==
    ASSUME IInv, NEW w \in Works, NEW o \in Terminal, Finish(w, o), UNCHANGED chain,
           rows[w].signed = (o # "abandoned_before_submission"),
           rows[w].outcome # "absent"
    PROVE  RowInv' /\ UniquePending' /\ ChainInv' /\ RecordedBeforeSent'
<1>1. /\ \A x \in Works : /\ rows'[x].signed = rows[x].signed
                          /\ rows'[x].slot = rows[x].slot
      /\ \A x \in Works \ {w} : rows'[x] = rows[x]
      /\ rows'[w].outcome = o
  BY DEF Finish, IInv, TypeOK, Row
<1>2. RowInv'
  BY <1>1 DEF IInv, RowInv, Terminal, chain
<1>3. UniquePending'
  BY <1>1 DEF IInv, UniquePending, IsPending, Terminal, Pending
<1>4. ChainInv' /\ RecordedBeforeSent'
  BY <1>1 DEF IInv, TypeOK, ChainInv, RecordedBeforeSent, chain, LastValid
<1>5. QED
  BY <1>2, <1>3, <1>4

LEMMA AbandonKeeps ==
    ASSUME IInv, NEW w \in Works, Abandon(w)
    PROVE  DataInv'
<1>1. rows[w].outcome # "absent" /\ ~rows[w].signed /\ w \notin sent
  BY DEF Abandon, IsPending, Pending, IInv, RecordedBeforeSent
<1>2. /\ \A x \in Works : rows'[x].signed = rows[x].signed
      /\ \A x \in Works \ {w} : rows'[x] = rows[x]
      /\ rows'[w].outcome = "abandoned_before_submission"
  BY DEF Abandon, Finish, IInv, TypeOK, Row
<1>3. OutcomeMatchesChain'
  BY <1>1, <1>2 DEF Abandon, chain, IInv, OutcomeMatchesChain, FinalizedIn
<1>4. rows[w].signed = ("abandoned_before_submission" # "abandoned_before_submission")
  BY <1>1 DEF IInv, TypeOK, Row
<1>5. RowInv' /\ UniquePending' /\ ChainInv' /\ RecordedBeforeSent'
  BY <1>1, <1>4, FinishKeeps DEF Abandon, Terminal
<1>6. QED
  BY <1>3, <1>5 DEF DataInv

LEMMA ExpireKeeps ==
    ASSUME IInv, NEW p \in Procs, Expire(p)
    PROVE  DataInv'
<1> DEFINE w == work[p]
<1>1. w \in Works /\ rows[w].signed /\ rows[w].outcome # "absent"
  BY DEF Expire, Leased, IInv, TypeOK, LocalInv, SignedPc, RowInv
<1>2. landed[w] = 0 /\ LastValid(w) < fin
  BY DEF Expire, IInv, ScanInv
<1>3. tip >= LastValid(w)
  BY <1>1, <1>2, HeightsAssumption DEF IInv, TypeOK, LastValid, Works
<1>4. /\ \A x \in Works : rows'[x].signed = rows[x].signed
      /\ \A x \in Works \ {w} : rows'[x] = rows[x]
      /\ rows'[w].outcome = "expired_absent"
  BY <1>1 DEF Expire, Finish, IInv, TypeOK, Row
<1>5. OutcomeMatchesChain'
  BY <1>1, <1>2, <1>3, <1>4 DEF Expire, chain, IInv, OutcomeMatchesChain, FinalizedIn
<1>6. QED
  BY <1>1, <1>5, FinishKeeps DEF Expire, Terminal, DataInv

LEMMA ReceiptKeeps ==
    ASSUME IInv, NEW p \in Procs, Receipt(p)
    PROVE  DataInv'
<1> DEFINE w == work[p]
<1>1. w \in Works /\ rows[w].signed /\ rows[w].outcome # "absent"
  BY DEF Receipt, ReceiptPc, Leased, IInv, TypeOK, LocalInv, SignedPc, RowInv
<1>2. PICK o \in {"executed", "failed"} :
          Finish(w, o) /\ o = IF w \in good THEN "executed" ELSE "failed"
  BY DEF Receipt
<1>3. /\ \A x \in Works : rows'[x].signed = rows[x].signed
      /\ \A x \in Works \ {w} : rows'[x] = rows[x]
      /\ rows'[w].outcome = o
  BY <1>1, <1>2 DEF Finish, IInv, TypeOK, Row
<1>4. OutcomeMatchesChain'
  BY <1>1, <1>2, <1>3 DEF Receipt, chain, IInv, OutcomeMatchesChain, FinalizedIn
<1>5. RowInv' /\ UniquePending' /\ ChainInv' /\ RecordedBeforeSent'
  BY <1>1, <1>2, FinishKeeps DEF Receipt, Terminal
<1>6. QED
  BY <1>4, <1>5 DEF DataInv

LEMMA InsertKeeps ==
    ASSUME IInv, NEW p \in Procs, Insert(p)
    PROVE  DataInv'
<1> DEFINE w == work[p]
<1>1. w \in Works /\ ~rows[w].signed /\ w \notin sent
  BY DEF Insert, Leased, IInv, TypeOK, RowInv, RecordedBeforeSent
<1>2. from[p] <= w.hash /\ w.hash <= tip
  BY DEF Insert, IInv, LocalInv
<1>3. /\ rows'[w].outcome = "reserved" /\ rows'[w].signed = FALSE
      /\ rows'[w].slot = from[p]
      /\ \A x \in Works \ {w} : rows'[x] = rows[x]
  BY <1>1 DEF Insert, IInv, TypeOK
<1>4. RowInv'
  <2>1. ASSUME NEW x \in Works \ {w}
        PROVE  /\ rows'[x].signed = (rows'[x].outcome \in
                     {"submitted_unknown", "executed", "failed", "expired_absent"})
               /\ rows'[x].outcome # "absent" => rows'[x].slot <= x.hash /\ x.hash <= tip
    BY <1>3 DEF IInv, RowInv
  <2>2. rows'[w].signed = (rows'[w].outcome \in
                     {"submitted_unknown", "executed", "failed", "expired_absent"})
    <3>1. (rows'[w].outcome \in
              {"submitted_unknown", "executed", "failed", "expired_absent"}) = FALSE
      BY <1>3
    <3>2. QED
      BY <1>3, <3>1
  <2>3. rows'[w].slot <= w.hash /\ w.hash <= tip
    BY <1>2, <1>3
  <2>4. tip' = tip
    BY DEF Insert, chain
  <2>5. QED
    BY <2>1, <2>2, <2>3, <2>4 DEF RowInv
<1>5. UniquePending'
  <2>1. \A x \in Works : x.key = w.key => ~IsPending(x)
    BY DEF Insert, PendingOf
  <2>2. \A x \in Works \ {w} : IsPending(x)' = IsPending(x)
    BY <1>3 DEF IsPending
  <2>3. QED
    BY <2>1, <2>2 DEF IInv, UniquePending
<1>6. ChainInv' /\ RecordedBeforeSent' /\ OutcomeMatchesChain'
  BY <1>1, <1>3 DEF Insert, chain, IInv, ChainInv, RecordedBeforeSent,
                    OutcomeMatchesChain, FinalizedIn
<1>7. QED
  BY <1>4, <1>5, <1>6 DEF DataInv

LEMMA PersistKeeps ==
    ASSUME IInv, NEW p \in Procs, Persist(p)
    PROVE  DataInv'
<1> DEFINE w == work[p]
<1>1. w \in Works /\ rows[w].outcome = "reserved" /\ ~rows[w].signed
  BY DEF Persist, Leased, IInv, TypeOK, LocalInv, RowInv
<1>2. /\ rows'[w].outcome = "submitted_unknown" /\ rows'[w].signed = TRUE
      /\ rows'[w].slot = rows[w].slot
      /\ \A x \in Works \ {w} : rows'[x] = rows[x]
  BY <1>1 DEF Persist, IInv, TypeOK, Row
<1>3. RowInv'
  BY <1>1, <1>2 DEF Persist, chain, IInv, RowInv
<1>4. UniquePending'
  BY <1>1, <1>2 DEF IInv, UniquePending, IsPending, Pending
<1>5. ChainInv' /\ RecordedBeforeSent' /\ OutcomeMatchesChain'
  BY <1>1, <1>2 DEF Persist, chain, IInv, ChainInv, RecordedBeforeSent,
                    OutcomeMatchesChain, FinalizedIn
<1>6. QED
  BY <1>3, <1>4, <1>5 DEF DataInv

LEMMA NewBlockKeeps ==
    ASSUME IInv, NewBlock
    PROVE  DataInv'
<1>1. UNCHANGED <<rows, fin, sent>> /\ tip' = tip + 1 /\ tip \in Nat /\ fin \in Nat
  BY HeightsAssumption DEF NewBlock, db, IInv, TypeOK
<1>2. ASSUME NEW w \in Works
      PROVE  LastValid(w) \in Nat /\ w.hash \in Nat /\ landed[w] \in Nat
  <2>1. w.hash \in 0..MaxHash
    BY DEF Works
  <2>2. landed[w] \in 0..MaxHeight
    BY DEF IInv, TypeOK
  <2>3. QED
    BY <2>1, <2>2, HeightsAssumption DEF LastValid
<1>3. \A w \in Works :
        \/ landed'[w] = landed[w] /\ (w \in good' <=> w \in good)
        \/ /\ w \in sent /\ landed[w] = 0 /\ landed'[w] = tip + 1
           /\ tip + 1 <= LastValid(w)
  BY DEF NewBlock, IInv, TypeOK
<1>4. \A w \in Works : w \in sent => w.hash <= tip
  BY DEF IInv, RecordedBeforeSent, RowInv
<1>5. RowInv' /\ UniquePending' /\ RecordedBeforeSent'
  BY <1>1, <1>2 DEF IInv, RowInv, UniquePending, IsPending, RecordedBeforeSent
<1>6. ChainInv'
  BY <1>1, <1>2, <1>3, <1>4 DEF IInv, ChainInv
<1>7. OutcomeMatchesChain'
  BY <1>1, <1>2, <1>3 DEF IInv, OutcomeMatchesChain, FinalizedIn
<1>8. QED
  BY <1>5, <1>6, <1>7 DEF DataInv

LEMMA FinalizeKeeps ==
    ASSUME IInv, Finalize
    PROVE  DataInv'
<1>1. UNCHANGED <<rows, tip, sent, landed, good>> /\ fin' = fin + 1 /\ fin \in Nat
  BY HeightsAssumption DEF Finalize, db, IInv, TypeOK
<1>2. RowInv' /\ UniquePending' /\ ChainInv' /\ RecordedBeforeSent'
  BY <1>1 DEF IInv, RowInv, UniquePending, IsPending, ChainInv, RecordedBeforeSent
<1>3. \A w \in Works : landed[w] \in Nat
  BY HeightsAssumption DEF IInv, TypeOK
<1>4. OutcomeMatchesChain'
  BY <1>1, <1>3 DEF IInv, OutcomeMatchesChain, FinalizedIn
<1>5. QED
  BY <1>2, <1>4 DEF DataInv

LEMMA DataInvStep ==
    ASSUME IInv, [Next]_vars
    PROVE  DataInv'
<1>1. DataStep
  BY DataSteps DEF IInv
<1>2. QED
  BY <1>1, QuietKeeps, AbandonKeeps, ExpireKeeps, ReceiptKeeps, InsertKeeps,
     PersistKeeps, NewBlockKeeps, FinalizeKeeps DEF DataStep

-----------------------------------------------------------------------------
(***************************************************************************)
(* What one step of a process, or of the chain, leaves to the others.      *)
(***************************************************************************)
OtherStep(p) ==
    /\ \A q \in Procs \ {p} : /\ pc'[q] = pc[q] /\ work'[q] = work[q]
                             /\ from'[q] = from[q] /\ to'[q] = to[q]
    /\ \A q \in Procs \ {p}, k \in Keys : lock'[k] = q => lock[k] = q
    /\ \A w \in Works : rows'[w] = rows[w] \/ lock[w.key] = p

LEMMA OthersRecover ==
    ASSUME TypeOK, NEW p \in Procs, Recover(p)
    PROVE  OtherStep(p)
<1> USE DEF OtherStep, db, Goto, TypeOK
<1>1. CASE StartRecover(p) \/ RecoverDone(p) \/ RecoverStatus(p) \/ RecoverHeight(p)
  BY <1>1 DEF StartRecover, RecoverDone, RecoverStatus, RecoverHeight
<1>2. ASSUME NEW w \in Works, RecoverTryLock(p, w)  PROVE OtherStep(p)
  BY <1>2 DEF RecoverTryLock, Works
<1>3. CASE RecoverReread(p)
  BY <1>3 DEF RecoverReread, Leased, Finish
<1>4. CASE RecoverSlot(p)
  BY <1>4 DEF RecoverSlot
<1>5. CASE RecoverScan(p)
  BY <1>5 DEF RecoverScan
<1>6. CASE RecoverExpire(p)
  BY <1>6 DEF RecoverExpire, Leased, Finish
<1>7. CASE FinishReceipt(p)
  BY <1>7 DEF FinishReceipt, Leased, Finish
<1>8. CASE RecoverUnlock(p)
  BY <1>8, NoneAssumption DEF RecoverUnlock, Rest
<1>9. QED
  BY <1>1, <1>2, <1>3, <1>4, <1>5, <1>6, <1>7, <1>8 DEF Recover

LEMMA OthersSubmit ==
    ASSUME TypeOK, NEW p \in Procs, Submit(p)
    PROVE  OtherStep(p)
<1> USE DEF OtherStep, db, Goto, TypeOK
<1>1. CASE Acquire(p)
  BY <1>1 DEF Acquire, Rest
<1>2. CASE ReadPending(p)
  BY <1>2 DEF ReadPending, Leased, Finish, PendingOf
<1>3. CASE SubmitStatus(p)
  BY <1>3 DEF SubmitStatus
<1>4. CASE Reserve(p)
  BY <1>4 DEF Reserve, Leased
<1>5. CASE Sign(p) \/ Send(p)
  BY <1>5 DEF Sign, Send
<1>6. CASE Persist(p)
  BY <1>6 DEF Persist, Leased
<1>7. CASE SubmitUnlock(p)
  BY <1>7, NoneAssumption DEF SubmitUnlock, Rest
<1>8. QED
  BY <1>1, <1>2, <1>3, <1>4, <1>5, <1>6, <1>7 DEF Submit

LEMMA OthersRest ==
    ASSUME TypeOK, NEW p \in Procs,
           Prepare(p) \/ EndPass(p) \/ LeaseLost(p) \/ Fault(p)
    PROVE  OtherStep(p)
<1> USE DEF OtherStep, db, local, Goto, TypeOK
<1>1. CASE Prepare(p)
  BY <1>1 DEF Prepare
<1>2. CASE EndPass(p)
  BY <1>2 DEF EndPass
<1>3. CASE LeaseLost(p)
  BY <1>3 DEF LeaseLost, Rest
<1>4. CASE RpcError(p)
  BY <1>4 DEF RpcError
<1>5. CASE Disconnect(p)
  BY <1>5, NoneAssumption DEF Disconnect
<1>6. CASE Crash(p)
  BY <1>6, NoneAssumption DEF Crash, Rest
<1>7. QED
  BY <1>1, <1>2, <1>3, <1>4, <1>5, <1>6 DEF Fault

\* What never goes back.
LEMMA Monotone ==
    ASSUME IInv, [Next]_vars
    PROVE  /\ \A w \in Works : rows[w].signed => rows'[w].signed
           /\ tip <= tip' /\ fin <= fin'
           /\ \A w \in Works : LastValid(w) < fin => landed'[w] = landed[w]
<1>1. DataStep
  BY DataSteps DEF IInv
<1>2. fin \in Nat /\ tip \in Nat /\ fin <= tip
  BY HeightsAssumption DEF IInv, TypeOK
<1>3. ASSUME NEW w \in Works, NEW x \in Works, NEW o, Finish(x, o)
      PROVE  rows'[w].signed = rows[w].signed
  BY <1>3 DEF Finish, IInv, TypeOK, Row
<1>4. CASE Quiet
  BY <1>2, <1>4 DEF Quiet
<1>5. CASE \E w \in Works : Abandon(w)
  BY <1>2, <1>3, <1>5 DEF Abandon, chain
<1>6. CASE \E p \in Procs : Expire(p) \/ Receipt(p)
  <2>1. PICK p \in Procs : Expire(p) \/ Receipt(p)
    BY <1>6
  <2>2. work[p] \in Works
    BY <2>1 DEF Expire, Receipt, Leased, IInv, TypeOK
  <2>3. \E o : Finish(work[p], o)
    BY <2>1 DEF Expire, Receipt
  <2>4. QED
    BY <1>2, <1>3, <2>1, <2>2, <2>3 DEF Expire, Receipt, chain
<1>7. CASE \E p \in Procs : Insert(p)
  <2>1. PICK p \in Procs : Insert(p)
    BY <1>7
  <2>2. work[p] \in Works /\ ~rows[work[p]].signed
    BY <2>1 DEF Insert, Leased, IInv, TypeOK, RowInv
  <2>3. QED
    BY <1>2, <2>1, <2>2 DEF Insert, chain, IInv, TypeOK
<1>8. CASE \E p \in Procs : Persist(p)
  BY <1>2, <1>8 DEF Persist, Leased, chain, IInv, TypeOK, Row
<1>9. CASE NewBlock
  <2>1. UNCHANGED <<rows, fin>> /\ tip' = tip + 1
    BY <1>9 DEF NewBlock, db
  <2>2. ASSUME NEW w \in Works, LastValid(w) < fin
        PROVE  landed'[w] = landed[w]
    <3>1. LastValid(w) \in Nat
      BY HeightsAssumption DEF LastValid, Works
    <3>2. ~(tip + 1 <= LastValid(w))
      BY <1>2, <2>2, <3>1
    <3>3. QED
      BY <1>9, <3>2 DEF NewBlock
  <2>3. QED
    BY <1>2, <2>1, <2>2
<1>10. CASE Finalize
  BY <1>2, <1>10 DEF Finalize, db
<1>11. QED
  BY <1>1, <1>4, <1>5, <1>6, <1>7, <1>8, <1>9, <1>10 DEF DataStep

-----------------------------------------------------------------------------
(***************************************************************************)
(* What a process knows, LocalInv and ScanInv for one process.             *)
(***************************************************************************)
Knows(p) ==
    /\ pc[p] \in {"ready", "locked", "reserve"} =>
          from[p] <= work[p].hash /\ work[p].hash <= tip
    /\ pc[p] \in {"reserved", "signed"} /\ Leased(p) =>
          rows[work[p]].outcome = "reserved"
    /\ pc[p] \in SignedPc => rows[work[p]].signed
    /\ pc[p] \in SignedPc /\ Leased(p) =>
          rows[work[p]].outcome = "submitted_unknown"
    /\ pc[p] \in {"slot", "scan", "expire"} => LastValid(work[p]) < fin
    /\ pc[p] = "scan" => /\ LastValid(work[p]) <= to[p]
                         /\ landed[work[p]] = 0 \/ from[p] <= landed[work[p]]
    /\ pc[p] = "expire" => landed[work[p]] = 0

LEMMA KnowsAll == (\A p \in Procs : Knows(p)) <=> LocalInv /\ ScanInv
BY DEF Knows, LocalInv, ScanInv

LEMMA IdleKnows ==
    ASSUME IInv, [Next]_vars, NEW q \in Procs,
           pc'[q] = pc[q], work'[q] = work[q], from'[q] = from[q], to'[q] = to[q],
           Leased(q)' => Leased(q),
           Leased(q) => rows'[work[q]] = rows[work[q]]
    PROVE  Knows(q)'
<1>1. CASE work[q] = NoWork
  <2>1. pc[q] \in {"idle", "recover", "work"}
    BY <1>1 DEF IInv, WorkInv
  <2>2. QED
    BY <2>1 DEF Knows, SignedPc
<1>2. CASE work[q] # NoWork
  <2>1. work[q] \in Works
    BY <1>2 DEF IInv, TypeOK
  <2>2. Knows(q)
    BY KnowsAll DEF IInv
  <2>3. /\ rows[work[q]].signed => rows'[work[q]].signed
        /\ tip <= tip' /\ fin <= fin'
        /\ LastValid(work[q]) < fin => landed'[work[q]] = landed[work[q]]
    BY <2>1, Monotone
  <2>4. /\ tip \in Nat /\ tip' \in Nat /\ fin \in Nat /\ fin' \in Nat
        /\ work[q].hash \in Nat /\ LastValid(work[q]) \in Nat
        /\ LastValid(work[q])' = LastValid(work'[q])
    <3>1. TypeOK'
      BY TypeStep DEF IInv
    <3>2. work[q].hash \in 0..MaxHash
      BY <2>1 DEF Works
    <3>3. QED
      BY <3>1, <3>2, HeightsAssumption DEF IInv, TypeOK, LastValid
  <2>5. Leased(q)' => rows'[work'[q]] = rows[work[q]]
    OBVIOUS
  <2>6. QED
    BY <2>2, <2>3, <2>4, <2>5 DEF Knows, SignedPc, LastValid
<1>3. QED
  BY <1>1, <1>2

LEMMA OtherKnows ==
    ASSUME IInv, [Next]_vars, NEW p \in Procs, OtherStep(p), NEW q \in Procs \ {p}
    PROVE  Knows(q)'
<1>1. pc'[q] = pc[q] /\ work'[q] = work[q] /\ from'[q] = from[q] /\ to'[q] = to[q]
  BY DEF OtherStep
<1>2. work[q] # NoWork => work[q] \in Works /\ work[q].key \in Keys
  BY DEF IInv, TypeOK, Works
<1>3. Leased(q)' => Leased(q)
  BY <1>1, <1>2 DEF Leased, OtherStep
<1>4. Leased(q) => rows'[work[q]] = rows[work[q]]
  BY <1>2 DEF Leased, OtherStep
<1>5. QED
  BY <1>1, <1>3, <1>4, IdleKnows

Holds(p) == (work[p] = NoWork) = (pc[p] \in {"idle", "recover", "work"})

\* The views of a pool that lags by at most one block.
LEMMA FreshViews ==
    ASSUME TypeOK, Lag <= 1, NEW v \in Views
    PROVE  v \in Nat /\ v <= fin /\ fin <= v + 1 /\ fin <= tip /\ fin \in Nat
BY HeightsAssumption DEF Views, TypeOK

LEMMA WorkNat ==
    ASSUME NEW w \in Works
    PROVE  w.hash \in Nat /\ LastValid(w) \in Nat
<1>1. w.hash \in 0..MaxHash
  BY DEF Works
<1>2. QED
  BY <1>1, HeightsAssumption DEF LastValid

LEMMA SelfRecover ==
    ASSUME IInv, Lag <= 1, NEW p \in Procs, Recover(p)
    PROVE  Holds(p)' /\ Knows(p)'
<1> USE DEF Goto, db, chain
<1>1. TypeOK /\ Holds(p) /\ Knows(p)
  BY KnowsAll DEF IInv, WorkInv, Holds
<1>2. CASE StartRecover(p) \/ RecoverDone(p)
  BY <1>1, <1>2 DEF StartRecover, RecoverDone, Holds, Knows, SignedPc, TypeOK
<1>3. ASSUME NEW w \in Works, RecoverTryLock(p, w)  PROVE Holds(p)' /\ Knows(p)'
  BY <1>1, <1>3, NoneAssumption DEF RecoverTryLock, Holds, Knows, SignedPc, TypeOK
<1>4. CASE RecoverReread(p)
  <2>1. work[p] \in Works /\ work'[p] = work[p] /\ Leased(p)
    BY <1>1, <1>4 DEF RecoverReread, Leased, TypeOK
  <2>2. \/ pc'[p] = "r_unlock"
        \/ pc'[p] = "r_status" /\ UNCHANGED rows /\ IsPending(work[p]) /\ rows[work[p]].signed
    BY <1>1, <1>4 DEF RecoverReread, TypeOK
  <2>3. IsPending(work[p]) /\ rows[work[p]].signed =>
            rows[work[p]].outcome = "submitted_unknown"
    BY <2>1 DEF IsPending, Pending, IInv, RowInv
  <2>4. QED
    BY <1>1, <1>4, <2>1, <2>2, <2>3, NoneAssumption
    DEF RecoverReread, Holds, Knows, SignedPc
<1>5. CASE RecoverStatus(p)
  BY <1>1, <1>5 DEF RecoverStatus, Holds, Knows, SignedPc, TypeOK, Leased
<1>6. CASE RecoverHeight(p)
  <2>1. PICK v \in Views : Goto(p, IF v <= LastValid(work[p]) THEN "r_unlock" ELSE "slot")
    BY <1>6 DEF RecoverHeight
  <2>2. work[p] \in Works
    BY <1>1, <1>6 DEF RecoverHeight, Holds, TypeOK
  <2>3. LastValid(work[p]) \in Nat
    BY <2>2, HeightsAssumption DEF LastValid, Works
  <2>4. pc'[p] = "r_unlock" \/ (pc'[p] = "slot" /\ LastValid(work[p]) < fin)
    <3>1. v \in Nat /\ v <= fin /\ fin \in Nat
      BY <1>1, FreshViews
    <3>0. pc'[p] = IF v <= LastValid(work[p]) THEN "r_unlock" ELSE "slot"
      BY <1>1, <2>1, Zenon DEF TypeOK
    <3>2. CASE v <= LastValid(work[p])
      BY <2>3, <3>0, <3>1, <3>2
    <3>3. CASE ~(v <= LastValid(work[p]))
      <4>1. LastValid(work[p]) < fin
        BY <2>3, <3>1, <3>3
      <4>2. QED
        BY <3>0, <3>3, <4>1
    <3>4. QED
      BY <3>2, <3>3
  <2>5. QED
    BY <1>1, <1>6, <2>4 DEF RecoverHeight, Holds, Knows, SignedPc, Leased, LastValid
<1>7. CASE RecoverSlot(p)
  <2>1. PICK v \in Views :
            \/ Goto(p, "r_abort")
            \/ /\ from' = [from EXCEPT ![p] = rows[work[p]].slot]
               /\ to' = [to EXCEPT ![p] = v]
               /\ Goto(p, "scan")
    BY <1>7 DEF RecoverSlot
  <2>2. work[p] \in Works
    BY <1>1, <1>7 DEF RecoverSlot, Holds, TypeOK
  <2>3. LastValid(work[p]) \in Nat /\ LastValid(work[p]) < fin
    BY <1>1, <1>7, <2>2, HeightsAssumption DEF RecoverSlot, Knows, LastValid, Works
  <2>4. LastValid(work[p]) <= v
    BY <1>1, <2>3, FreshViews
  <2>5. rows[work[p]].slot <= work[p].hash
    BY <1>1, <1>7, <2>2 DEF RecoverSlot, Knows, SignedPc, IInv, RowInv
  <2>6. landed[work[p]] # 0 => work[p].hash < landed[work[p]]
    BY <2>2 DEF IInv, ChainInv
  <2>7. rows[work[p]].slot \in Nat /\ work[p].hash \in Nat /\ landed[work[p]] \in Nat
    <3>1. rows[work[p]].slot \in 0..MaxHeight /\ landed[work[p]] \in 0..MaxHeight
      BY <1>1, <2>2 DEF TypeOK, Row
    <3>2. QED
      BY <2>2, <3>1, WorkNat, HeightsAssumption
  <2>8. landed[work[p]] = 0 \/ rows[work[p]].slot <= landed[work[p]]
    BY <2>5, <2>6, <2>7
  <2>9. CASE pc'[p] = "r_abort"
    BY <1>1, <1>7, <2>9 DEF RecoverSlot, Holds, Knows, SignedPc
  <2>10. CASE pc'[p] = "scan" /\ to'[p] = v /\ from'[p] = rows[work[p]].slot
    BY <1>1, <1>7, <2>3, <2>4, <2>8, <2>10
    DEF RecoverSlot, Holds, Knows, SignedPc, Leased, LastValid
  <2>11. QED
    BY <1>1, <2>1, <2>9, <2>10 DEF TypeOK
<1>8. CASE RecoverScan(p)
  <2> DEFINE w == work[p]
  <2>1. PICK v \in Views :
        \/ /\ landed[w] \in from[p]..ChunkEnd(p)
           /\ FinalizedIn(w, v)
           /\ Goto(p, "r_receipt") /\ UNCHANGED from
        \/ /\ ~(landed[w] \in from[p]..ChunkEnd(p) /\ FinalizedIn(w, v))
           /\ IF ChunkEnd(p) < to[p]
              THEN /\ from' = [from EXCEPT ![p] = ChunkEnd(p) + 1]
                   /\ UNCHANGED pc
              ELSE /\ Goto(p, IF v < to[p] THEN "r_abort" ELSE "expire")
                   /\ UNCHANGED from
    BY <1>8 DEF RecoverScan
  <2>2. w \in Works
    BY <1>1, <1>8 DEF RecoverScan, Holds, TypeOK
  <2>3. /\ LastValid(w) \in Nat /\ landed[w] \in Nat /\ from[p] \in Nat /\ to[p] \in Nat
        /\ ChunkEnd(p) \in Int
    <3>1. landed[w] \in 0..MaxHeight /\ from[p] \in 0..MaxHeight /\ to[p] \in 0..MaxHeight
      BY <1>1, <2>2 DEF TypeOK
    <3>2. QED
      BY <2>2, <3>1, WorkNat, HeightsAssumption DEF ChunkEnd
  <2>4. /\ LastValid(w) < fin /\ LastValid(w) <= to[p]
        /\ landed[w] = 0 \/ from[p] <= landed[w]
    BY <1>1, <1>8 DEF RecoverScan, Knows
  <2>5. landed[w] # 0 => landed[w] <= LastValid(w)
    BY <2>2 DEF IInv, ChainInv
  <2>6. landed[w] # 0 => FinalizedIn(w, v)
    BY <1>1, <2>3, <2>4, <2>5, FreshViews DEF FinalizedIn
  <2>7. CASE pc'[p] = "r_receipt" \/ pc'[p] = "r_abort"
    BY <1>1, <1>8, <2>7 DEF RecoverScan, Holds, Knows, SignedPc, Leased
  <2>8. CASE /\ ~(landed[w] \in from[p]..ChunkEnd(p) /\ FinalizedIn(w, v))
             /\ from' = [from EXCEPT ![p] = ChunkEnd(p) + 1]
             /\ UNCHANGED pc
    <3>1. landed[w] = 0 \/ ChunkEnd(p) + 1 <= landed[w]
      BY <2>3, <2>4, <2>6, <2>8
    <3>2. from'[p] = ChunkEnd(p) + 1
      BY <1>1, <2>8 DEF TypeOK
    <3>3. QED
      BY <1>1, <1>8, <2>4, <2>8, <3>1, <3>2 DEF RecoverScan, Holds, Knows, SignedPc,
         Leased, LastValid
  <2>9. CASE /\ ~(landed[w] \in from[p]..ChunkEnd(p) /\ FinalizedIn(w, v))
             /\ ~(ChunkEnd(p) < to[p]) /\ pc'[p] = "expire" /\ UNCHANGED from
    <3>1. landed[w] = 0
      BY <2>3, <2>4, <2>5, <2>6, <2>9
    <3>2. QED
      BY <1>1, <1>8, <2>4, <2>9, <3>1 DEF RecoverScan, Holds, Knows, SignedPc,
         Leased, LastValid
  <2>10. QED
    BY <1>1, <2>1, <2>7, <2>8, <2>9 DEF TypeOK
<1>9. CASE RecoverExpire(p)
  BY <1>1, <1>9 DEF RecoverExpire, Holds, Knows, SignedPc, TypeOK
<1>10. CASE FinishReceipt(p)
  <2>1. pc'[p] \in {"s_unlock", "r_unlock", "r_abort"}
    BY <1>1, <1>10 DEF FinishReceipt, ErrorPc, TypeOK
  <2>2. QED
    BY <1>1, <1>10, <2>1 DEF FinishReceipt, ReceiptPc, Holds, Knows, SignedPc
<1>11. CASE RecoverUnlock(p)
  <2>1. pc'[p] \in {"recover", "idle"} /\ work'[p] = NoWork
    BY <1>1, <1>11 DEF RecoverUnlock, Rest, TypeOK
  <2>2. QED
    BY <2>1 DEF Holds, Knows, SignedPc
<1>12. QED
  BY <1>2, <1>3, <1>4, <1>5, <1>6, <1>7, <1>8, <1>9, <1>10, <1>11 DEF Recover

LEMMA SelfSubmit ==
    ASSUME IInv, NEW p \in Procs, Submit(p)
    PROVE  Holds(p)' /\ Knows(p)'
<1> USE DEF Goto, db, chain
<1>1. TypeOK /\ Holds(p) /\ Knows(p)
  BY KnowsAll DEF IInv, WorkInv, Holds
<1>2. CASE Acquire(p)
  <2>1. \/ pc'[p] = "locked" /\ UNCHANGED <<work, from, tip>>
        \/ pc'[p] = "work" /\ work'[p] = NoWork
    BY <1>1, <1>2 DEF Acquire, Rest, TypeOK
  <2>2. QED
    BY <1>1, <1>2, <2>1 DEF Acquire, Holds, Knows, SignedPc
<1>3. CASE ReadPending(p)
  <2>1. CASE pc'[p] = "reserve" /\ UNCHANGED work
    BY <1>1, <1>3, <2>1 DEF ReadPending, Holds, Knows, SignedPc
  <2>2. ASSUME NEW w \in PendingOf(work[p].key), work'[p] = w,
               \/ pc'[p] = "s_status" /\ rows[w].signed /\ UNCHANGED rows
               \/ pc'[p] = "s_unlock"
        PROVE  Holds(p)' /\ Knows(p)'
    <3>1. w \in Works /\ IsPending(w)
      BY DEF PendingOf
    <3>2. rows[w].signed => rows[w].outcome = "submitted_unknown"
      BY <3>1 DEF IsPending, Pending, IInv, RowInv
    <3>3. QED
      BY <2>2, <3>1, <3>2, NoneAssumption DEF Holds, Knows, SignedPc
  <2>3. QED
    BY <1>1, <1>3, <2>1, <2>2 DEF ReadPending, TypeOK
<1>4. CASE SubmitStatus(p)
  <2>1. \/ pc'[p] = "s_receipt" \/ pc'[p] = "s_unlock"
    BY <1>1, <1>4 DEF SubmitStatus, TypeOK
  <2>2. QED
    BY <1>1, <1>4, <2>1 DEF SubmitStatus, Holds, Knows, SignedPc, Leased
<1>5. CASE Reserve(p)
  <2>1. work[p] \in Works
    BY <1>1, <1>5 DEF Reserve, Leased, TypeOK
  <2>2. \/ pc'[p] = "reserved" /\ rows'[work[p]].outcome = "reserved"
        \/ pc'[p] = "s_unlock"
    BY <1>1, <1>5, <2>1 DEF Reserve, TypeOK
  <2>3. QED
    BY <1>1, <1>5, <2>2 DEF Reserve, Holds, Knows, SignedPc
<1>6. CASE Sign(p)
  BY <1>1, <1>6 DEF Sign, Holds, Knows, SignedPc, TypeOK, Leased
<1>7. CASE Persist(p)
  <2>1. work[p] \in Works
    BY <1>1, <1>7 DEF Persist, Leased, TypeOK
  <2>2. /\ pc'[p] = "send" /\ rows'[work[p]].outcome = "submitted_unknown"
        /\ rows'[work[p]].signed
    BY <1>1, <1>7, <2>1 DEF Persist, TypeOK, Row
  <2>3. QED
    BY <1>1, <1>7, <2>2 DEF Persist, Holds, Knows, SignedPc
<1>8. CASE Send(p)
  BY <1>1, <1>8 DEF Send, Holds, Knows, SignedPc, TypeOK
<1>9. CASE SubmitUnlock(p)
  <2>1. pc'[p] = "work" /\ work'[p] = NoWork
    BY <1>1, <1>9 DEF SubmitUnlock, Rest, TypeOK
  <2>2. QED
    BY <2>1 DEF Holds, Knows, SignedPc
<1>10. QED
  BY <1>2, <1>3, <1>4, <1>5, <1>6, <1>7, <1>8, <1>9 DEF Submit

LEMMA SelfRest ==
    ASSUME IInv, NEW p \in Procs, Prepare(p) \/ EndPass(p) \/ LeaseLost(p) \/ Fault(p)
    PROVE  Holds(p)' /\ Knows(p)'
<1> USE DEF Goto, db, chain, local
<1>1. TypeOK /\ Holds(p) /\ Knows(p)
  BY KnowsAll DEF IInv, WorkInv, Holds
<1>2. CASE Prepare(p)
  <2>1. PICK w \in Works, s \in 0..tip :
            /\ s <= w.hash /\ w.hash <= tip
            /\ work' = [work EXCEPT ![p] = w] /\ from' = [from EXCEPT ![p] = s]
    BY <1>2 DEF Prepare, Works
  <2>2. work'[p] = w /\ from'[p] = s /\ pc'[p] = "ready"
    BY <1>1, <1>2, <2>1 DEF Prepare, TypeOK
  <2>3. QED
    BY <1>2, <2>1, <2>2, NoneAssumption DEF Prepare, Holds, Knows, SignedPc
<1>3. CASE EndPass(p)
  BY <1>1, <1>3 DEF EndPass, Holds, Knows, SignedPc, TypeOK
<1>4. CASE LeaseLost(p)
  <2>1. pc'[p] \in {"work", "idle"} /\ work'[p] = NoWork
    BY <1>1, <1>4 DEF LeaseLost, Rest, TypeOK
  <2>2. QED
    BY <2>1 DEF Holds, Knows, SignedPc
<1>5. CASE RpcError(p)
  <2>1. pc'[p] \in {"s_unlock", "r_abort"}
    BY <1>1, <1>5 DEF RpcError, ErrorPc, TypeOK
  <2>2. QED
    BY <1>1, <1>5, <2>1 DEF RpcError, Holds, Knows, SignedPc, SubmitRpc, RecoverRpc
<1>6. CASE Disconnect(p)
  <2>1. ~Leased(p)'
    BY <1>1, <1>6, NoneAssumption DEF Disconnect, Leased, TypeOK, Works
  <2>2. QED
    BY <1>1, <1>6, <2>1 DEF Disconnect, Holds, Knows, SignedPc, LastValid
<1>7. CASE Crash(p)
  <2>1. pc'[p] = "idle" /\ work'[p] = NoWork
    BY <1>1, <1>7 DEF Crash, Rest, TypeOK
  <2>2. QED
    BY <2>1 DEF Holds, Knows, SignedPc
<1>8. QED
  BY <1>2, <1>3, <1>4, <1>5, <1>6, <1>7 DEF Fault

LEMMA ProcStep ==
    ASSUME IInv, [Next]_vars, NEW p \in Procs, OtherStep(p), Holds(p)', Knows(p)'
    PROVE  (WorkInv /\ LocalInv /\ ScanInv)'
<1>1. \A q \in Procs \ {p} : Knows(q)'
  BY OtherKnows
<1>2. \A q \in Procs \ {p} : Holds(q)'
  BY DEF OtherStep, Holds, IInv, WorkInv
<1>3. (LocalInv /\ ScanInv)' <=> \A q \in Procs : Knows(q)'
  BY DEF Knows, LocalInv, ScanInv
<1>4. QED
  BY <1>1, <1>2, <1>3 DEF WorkInv, Holds

(***************************************************************************)
(* IInv is inductive.                                                      *)
(***************************************************************************)
LEMMA InitIInv == Init => IInv
<1> SUFFICES ASSUME Init PROVE IInv
  OBVIOUS
<1>1. TypeOK
  BY InitTypeOK
<1>2. WorkInv /\ LocalInv /\ ScanInv
  BY DEF Init, WorkInv, LocalInv, ScanInv, SignedPc
<1>3. RowInv /\ UniquePending /\ OutcomeMatchesChain
  <2>1. \A w \in Works : rows[w].outcome = "absent" /\ rows[w].signed = FALSE
    BY DEF Init, NoRow
  <2>2. ("absent" \in {"submitted_unknown", "executed", "failed", "expired_absent"}) = FALSE
    OBVIOUS
  <2>3. QED
    BY <2>1, <2>2 DEF RowInv, UniquePending, IsPending, Pending, OutcomeMatchesChain
<1>4. ChainInv /\ RecordedBeforeSent
  BY DEF Init, ChainInv, RecordedBeforeSent
<1>5. QED
  BY <1>1, <1>2, <1>3, <1>4 DEF IInv

LEMMA NextIInv ==
    ASSUME Lag <= 1, IInv, [Next]_vars
    PROVE  IInv'
<1>1. TypeOK' /\ DataInv'
  BY TypeStep, DataInvStep DEF IInv
<1>2. (WorkInv /\ LocalInv /\ ScanInv)'
  <2>1. ASSUME NEW p \in Procs, Recover(p)
        PROVE  (WorkInv /\ LocalInv /\ ScanInv)'
    BY <2>1, OthersRecover, SelfRecover, ProcStep DEF IInv
  <2>2. ASSUME NEW p \in Procs, Submit(p)
        PROVE  (WorkInv /\ LocalInv /\ ScanInv)'
    BY <2>2, OthersSubmit, SelfSubmit, ProcStep DEF IInv
  <2>3. ASSUME NEW p \in Procs, Prepare(p) \/ EndPass(p) \/ LeaseLost(p) \/ Fault(p)
        PROVE  (WorkInv /\ LocalInv /\ ScanInv)'
    BY <2>3, OthersRest, SelfRest, ProcStep DEF IInv
  <2>4. CASE NewBlock \/ Finalize \/ UNCHANGED vars
    <3>1. UNCHANGED <<rows, lock, pc, work, from, to>>
      BY <2>4 DEF NewBlock, Finalize, vars, db, local
    <3>2. \A q \in Procs : Leased(q)' = Leased(q)
      BY <3>1 DEF Leased
    <3>3. \A q \in Procs : Knows(q)'
      BY <3>1, <3>2, IdleKnows
    <3>4. QED
      BY <3>1, <3>3 DEF Knows, LocalInv, ScanInv, IInv, WorkInv
  <2>5. QED
    BY <2>1, <2>2, <2>3, <2>4, NextCases
<1>3. QED
  BY <1>1, <1>2 DEF IInv, DataInv

(***************************************************************************)
(* The inductive invariant: what each process that holds the lease knows   *)
(* of its row, what a recorded outcome says of the chain, and how far the  *)
(* scan of blocks has come, hold in every reachable state.                 *)
(***************************************************************************)
THEOREM SpecIInv == ASSUME Lag <= 1 PROVE Spec => []IInv
<1>1. IInv /\ [Next]_vars => IInv'
  BY NextIInv
<1>2. QED
  BY InitIInv, <1>1, PTL DEF Spec

(***************************************************************************)
(* Every variable keeps its type.                                          *)
(***************************************************************************)
THEOREM TypeCorrect == ASSUME Lag <= 1 PROVE Spec => []TypeOK
<1>1. IInv => TypeOK
  BY DEF IInv
<1>2. QED
  BY SpecIInv, <1>1, PTL

(***************************************************************************)
(* The recorded outcome of every row is what the cluster did and will do:  *)
(* no expired or abandoned row's transaction ever lands.                   *)
(***************************************************************************)
THEOREM OutcomesTrue == ASSUME Lag <= 1 PROVE Spec => []OutcomeMatchesChain
<1>1. IInv => OutcomeMatchesChain
  BY DEF IInv
<1>2. QED
  BY SpecIInv, <1>1, PTL

(***************************************************************************)
(* Nothing is broadcast whose signature is not recorded.                   *)
(***************************************************************************)
THEOREM SentIsRecorded == ASSUME Lag <= 1 PROVE Spec => []RecordedBeforeSent
<1>1. IInv => RecordedBeforeSent
  BY DEF IInv
<1>2. QED
  BY SpecIInv, <1>1, PTL

\* A signed row whose fate is open is the pending row of its key.
LEMMA OpenIsPending ==
    ASSUME IInv, NEW w \in Works, rows[w].signed, ~FateKnown(w)
    PROVE  IsPending(w)
<1>1. rows[w].outcome \in {"submitted_unknown", "executed", "failed", "expired_absent"}
  BY DEF IInv, RowInv
<1>2. QED
  BY <1>1 DEF IInv, OutcomeMatchesChain, FateKnown, IsPending, Pending

(***************************************************************************)
(* Per conflict key at most one recorded transaction can still land.       *)
(***************************************************************************)
THEOREM OneLiveGeneration == ASSUME Lag <= 1 PROVE Spec => []SingleLive
<1>1. IInv => SingleLive
  <2> SUFFICES ASSUME IInv, NEW w1 \in Works, NEW w2 \in Works,
                      w1.key = w2.key, CanLand(w1), CanLand(w2)
               PROVE  w1 = w2
    BY DEF SingleLive
  <2>1. ASSUME NEW w \in Works, CanLand(w)  PROVE IsPending(w)
    <3>1. ~FateKnown(w)
      BY <2>1, WorkNat, HeightsAssumption DEF CanLand, FateKnown, FinalizedIn, IInv, TypeOK
    <3>2. QED
      BY <2>1, <3>1, OpenIsPending DEF CanLand
  <2>2. QED
    BY <2>1 DEF IInv, UniquePending
<1>2. QED
  BY SpecIInv, <1>1, PTL

(***************************************************************************)
(* A generation is signed only after the fate of the earlier ones of its   *)
(* key is final.                                                           *)
(***************************************************************************)
THEOREM ReplacementWaits == ASSUME Lag <= 1 PROVE Spec => ReplacementAfterFate
<1>1. IInv /\ [Next]_vars => [ReplacementWaitsForFate]_vars
  <2> SUFFICES ASSUME IInv, [Next]_vars, NEW w \in Works, ~rows[w].signed, rows'[w].signed,
                      NEW o \in Works \ {w}, o.key = w.key, rows[o].signed
               PROVE  FateKnown(o)
    BY DEF ReplacementWaitsForFate
  <2>1. ASSUME NEW x \in Works, NEW oc, Finish(x, oc)  PROVE FALSE
    BY <2>1 DEF Finish, IInv, TypeOK, Row
  <2>2. ~UNCHANGED rows
    OBVIOUS
  <2>3. ASSUME NEW p \in Procs, Insert(p)  PROVE FALSE
    BY <2>3 DEF Insert, Leased, IInv, TypeOK, Row
  <2>4. \E p \in Procs : Persist(p)
    <3>1. DataStep
      BY DataSteps DEF IInv
    <3>2. ~(\E x \in Works : Abandon(x))
      BY <2>1 DEF Abandon
    <3>3. ~(\E p \in Procs : Expire(p) \/ Receipt(p))
      BY <2>1 DEF Expire, Receipt, Leased, IInv, TypeOK
    <3>4. ~Quiet /\ ~NewBlock /\ ~Finalize
      BY <2>2 DEF Quiet, NewBlock, Finalize, db
    <3>5. QED
      BY <2>3, <3>1, <3>2, <3>3, <3>4 DEF DataStep
  <2>5. PICK p \in Procs : Persist(p)
    BY <2>4
  <2>6. w = work[p]
    BY <2>5 DEF Persist, Leased, IInv, TypeOK
  <2>7. IsPending(w)
    BY <2>5, <2>6 DEF Persist, IInv, LocalInv, IsPending, Pending
  <2>8. ~IsPending(o)
    BY <2>7 DEF IInv, UniquePending
  <2>9. QED
    BY <2>8, OpenIsPending
<1>2. QED
  BY SpecIInv, <1>1, PTL DEF ReplacementAfterFate, Spec

(***************************************************************************)
(* A resolved row keeps its outcome.                                       *)
(***************************************************************************)
THEOREM OutcomesStay == ASSUME Lag <= 1 PROVE Spec => TerminalForGood
<1>1. IInv /\ [Next]_vars => [TerminalStays]_vars
  <2> SUFFICES ASSUME IInv, [Next]_vars, NEW w \in Works, rows[w].outcome \in Terminal
               PROVE  rows'[w].outcome = rows[w].outcome
    BY DEF TerminalStays
  <2>1. ~IsPending(w) /\ rows[w].outcome # "absent"
    BY DEF Terminal, IsPending, Pending
  <2>2. ASSUME NEW x \in Works, NEW oc, Finish(x, oc), IsPending(x)
        PROVE  rows'[w] = rows[w]
    BY <2>1, <2>2 DEF Finish, IInv, TypeOK
  <2>3. ASSUME NEW x \in Works, Abandon(x)  PROVE rows'[w] = rows[w]
    BY <2>2, <2>3 DEF Abandon
  <2>4. ASSUME NEW p \in Procs, Expire(p) \/ Receipt(p)  PROVE rows'[w] = rows[w]
    <3>1. work[p] \in Works
      BY <2>4 DEF Expire, Receipt, Leased, IInv, TypeOK
    <3>2. IsPending(work[p])
      BY <2>4 DEF Expire, Receipt, ReceiptPc, IInv, LocalInv, SignedPc, IsPending, Pending
    <3>3. QED
      BY <2>2, <2>4, <3>1, <3>2 DEF Expire, Receipt
  <2>5. ASSUME NEW p \in Procs, Insert(p)  PROVE rows'[w] = rows[w]
    BY <2>1, <2>5 DEF Insert, IInv, TypeOK
  <2>6. ASSUME NEW p \in Procs, Persist(p)  PROVE rows'[w] = rows[w]
    <3>1. rows[work[p]].outcome = "reserved"
      BY <2>6 DEF Persist, IInv, LocalInv
    <3>2. work[p] # w
      BY <2>1, <3>1 DEF IsPending, Pending
    <3>3. QED
      BY <2>6, <3>2 DEF Persist, IInv, TypeOK
  <2>7. CASE Quiet \/ NewBlock \/ Finalize
    BY <2>7 DEF Quiet, NewBlock, Finalize, db
  <2>8. DataStep
    BY DataSteps DEF IInv
  <2>9. QED
    BY <2>3, <2>4, <2>5, <2>6, <2>7, <2>8 DEF DataStep
<1>2. QED
  BY SpecIInv, <1>1, PTL DEF TerminalForGood, Spec

-----------------------------------------------------------------------------
(***************************************************************************)
(* The journal implements Generations under the mapping Fate.              *)
(***************************************************************************)
LEMMA LiveIsPending ==
    ASSUME IInv, NEW w \in Works, Fate[w] = "live"
    PROVE  IsPending(w)
<1>1. rows[w].signed /\ landed[w] = 0 /\ tip < LastValid(w)
  BY DEF Fate
<1>2. ~FateKnown(w)
  BY <1>1, WorkNat, HeightsAssumption DEF FateKnown, FinalizedIn, IInv, TypeOK
<1>3. QED
  BY <1>1, <1>2, OpenIsPending

\* A step that signs nothing and adds no block is a stutter.
LEMMA FateStutter ==
    ASSUME UNCHANGED <<tip, landed, good>>,
           \A w \in Works : rows'[w].signed = rows[w].signed
    PROVE  Fate' = Fate
BY DEF Fate, LastValid

LEMMA FateSign ==
    ASSUME IInv, NEW p \in Procs, Persist(p)
    PROVE  \E w \in Works : G!Sign(w)
<1> DEFINE w == work[p]
<1>1. w \in Works /\ rows[w].outcome = "reserved" /\ ~rows[w].signed
  BY DEF Persist, Leased, IInv, TypeOK, LocalInv, RowInv
<1>2. landed[w] = 0
  BY <1>1 DEF IInv, ChainInv, RecordedBeforeSent
<1>3. Fate[w] = "unsigned"
  BY <1>1 DEF Fate
<1>4. \A o \in Works : o.key = w.key => Fate[o] # "live"
  <2> SUFFICES ASSUME NEW o \in Works, o.key = w.key, Fate[o] = "live"
               PROVE  FALSE
    OBVIOUS
  <2>1. o = w
    BY <1>1, LiveIsPending DEF IsPending, Pending, IInv, UniquePending
  <2>2. QED
    BY <1>3, <2>1
<1>5. rows'[w].signed /\ \A x \in Works \ {w} : rows'[x] = rows[x]
  BY <1>1 DEF Persist, IInv, TypeOK, Row
<1>6. \E f \in {"live", "dead"} : Fate' = [Fate EXCEPT ![w] = f]
  <2> DEFINE f == IF tip < LastValid(w) THEN "live" ELSE "dead"
  <2>1. Fate'[w] = f
    BY <1>1, <1>2, <1>5 DEF Fate, Persist, chain, LastValid
  <2>2. \A x \in Works \ {w} : Fate'[x] = Fate[x]
    BY <1>5 DEF Fate, Persist, chain, LastValid
  <2>3. Fate' = [x \in Works |-> Fate'[x]] /\ Fate = [x \in Works |-> Fate[x]]
    BY DEF Fate
  <2>4. Fate' = [Fate EXCEPT ![w] = f]
    BY <1>1, <2>1, <2>2, <2>3
  <2>5. QED
    BY <2>4
<1>7. QED
  BY <1>1, <1>3, <1>4, <1>6 DEF G!Sign

LEMMA FateResolve ==
    ASSUME IInv, NewBlock
    PROVE  G!Resolve
<1>1. rows' = rows /\ tip' = tip + 1 /\ tip \in Nat
  BY HeightsAssumption DEF NewBlock, db, IInv, TypeOK
<1>2. \A w \in Works :
        \/ landed'[w] = landed[w] /\ (w \in good' <=> w \in good)
        \/ /\ landed[w] = 0 /\ landed'[w] # 0
           /\ w \in sent /\ tip + 1 <= LastValid(w)
  BY <1>1 DEF NewBlock, IInv, TypeOK
<1>3. Fate' \in [Works -> G!Fates]
  BY DEF Fate, G!Fates
<1>4. ASSUME NEW w \in Works
      PROVE  \/ Fate'[w] = Fate[w]
             \/ Fate[w] = "live" /\ Fate'[w] \in {"executed", "failed", "dead"}
  <2>1. LastValid(w) \in Nat /\ LastValid(w)' = LastValid(w)
    BY WorkNat DEF LastValid
  <2>2. CASE landed'[w] = landed[w] /\ (w \in good' <=> w \in good)
    BY <1>1, <2>1, <2>2 DEF Fate
  <2>3. CASE /\ landed[w] = 0 /\ landed'[w] # 0
             /\ w \in sent /\ tip + 1 <= LastValid(w)
    BY <1>1, <2>1, <2>3 DEF Fate, IInv, RecordedBeforeSent
  <2>4. QED
    BY <1>2, <2>2, <2>3
<1>5. QED
  BY <1>3, <1>4 DEF G!Resolve

THEOREM JournalImplementsGenerations ==
    ASSUME Lag <= 1 PROVE Spec => ImplementsGenerations
<1>1. Init => G!Init
  BY DEF Init, NoRow, Fate, G!Init
<1>2. IInv /\ [Next]_vars => [G!Next]_Fate
  <2> SUFFICES ASSUME IInv, [Next]_vars PROVE [G!Next]_Fate
    OBVIOUS
  <2>1. ASSUME NEW x \in Works, NEW oc, Finish(x, oc), UNCHANGED chain
        PROVE  Fate' = Fate
    <3>1. \A w \in Works : rows'[w].signed = rows[w].signed
      BY <2>1 DEF Finish, IInv, TypeOK, Row
    <3>2. QED
      BY <2>1, <3>1, FateStutter DEF chain
  <2>2. CASE Quiet \/ Finalize
    BY <2>2, FateStutter DEF Quiet, Finalize, db
  <2>3. ASSUME NEW x \in Works, Abandon(x)  PROVE Fate' = Fate
    BY <2>1, <2>3 DEF Abandon
  <2>4. ASSUME NEW p \in Procs, Expire(p) \/ Receipt(p)  PROVE Fate' = Fate
    BY <2>1, <2>4 DEF Expire, Receipt, Leased, IInv, TypeOK
  <2>5. ASSUME NEW p \in Procs, Insert(p)  PROVE Fate' = Fate
    <3>1. work[p] \in Works /\ ~rows[work[p]].signed /\ rows[work[p]].signed \in BOOLEAN
      BY <2>5 DEF Insert, Leased, IInv, TypeOK, RowInv, Row
    <3>2. \A w \in Works : rows'[w].signed = rows[w].signed
      BY <2>5, <3>1 DEF Insert, IInv, TypeOK
    <3>3. QED
      BY <2>5, <3>2, FateStutter DEF Insert, chain
  <2>6. ASSUME NEW p \in Procs, Persist(p)  PROVE G!Next
    BY <2>6, FateSign DEF G!Next
  <2>7. CASE NewBlock
    BY <2>7, FateResolve DEF G!Next
  <2>8. DataStep
    BY DataSteps DEF IInv
  <2>9. QED
    BY <2>2, <2>3, <2>4, <2>5, <2>6, <2>7, <2>8 DEF DataStep
<1>3. QED
  BY SpecIInv, <1>1, <1>2, PTL DEF ImplementsGenerations, G!Spec, Spec
=============================================================================
