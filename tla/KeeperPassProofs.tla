-------------------------- MODULE KeeperPassProofs --------------------------
(***************************************************************************)
(* What every pass of a keeper guarantees, for every number of targets,    *)
(* orders and permitted transactions.                                      *)
(*                                                                         *)
(* SendCeiling is not inductive: it follows from sends <= attempted and    *)
(* attempted <= limit, which hold of the lending profile because it never  *)
(* enters the orders' stage, where attempted starts again from zero.       *)
(* ReconciledFirst needs that nothing is sent before the recovery of the   *)
(* same pass, that a live process submits only in a stage that the         *)
(* recovery opened, and that the rows which were due when the pass began   *)
(* are still in the batch, and settled, when the recovery looks at it.     *)
(***************************************************************************)
EXTENDS KeeperPass, FiniteSetTheorems, TLAPS

Before == {"observe", "fees", "balance", "recover"}

\* The recovery comes first, and nothing due is left behind it.
Recovered ==
    /\ step \in Before => sends = 0
    /\ step \in Before \ {"observe"} => due \subseteq Batch \cap Settled
    /\ live /\ step \in {"liquidate", "orders"} => due \cap pending = {}
    /\ ReconciledFirst

\* In the lending profile every transaction is an attempt under the limit.
Counted ==
    Profile = "lending" =>
        step # "orders" /\ sends <= attempted /\ attempted <= limit

IInv == TypeOK /\ Recovered /\ Counted

\* A row that is added is none of the rows that were due.
LEMMA NewRowIsNotDue ==
    ASSUME TypeOK, NewRow
    PROVE  /\ due \cap pending' = due \cap pending
           /\ rows' \in 0..MaxRows /\ pending' \subseteq 1..rows'
           /\ due \subseteq 1..rows' /\ Settled' \subseteq pending'
           /\ landed' \cap (absent' \cup outgrown') = {} /\ absent' \cap outgrown' = {}
           /\ sends' = sends + 1 /\ live
<1>1. rows \in Nat /\ rows' = rows + 1 /\ rows + 1 <= MaxRows
  BY PassAssumption DEF TypeOK, NewRow
<1>2. rows + 1 \notin due
  BY <1>1 DEF TypeOK
<1>3. UNCHANGED <<landed, absent, outgrown>>
  BY DEF NewRow
<1>4. Settled' = Settled
  BY <1>3 DEF Settled
<1>5. landed' \cap (absent' \cup outgrown') = {} /\ absent' \cap outgrown' = {}
  BY <1>3 DEF TypeOK
<1> QED BY <1>1, <1>2, <1>4, <1>5, PassAssumption DEF TypeOK, NewRow

\* Rows that get their outcome are no longer pending; the others are what they
\* were.
LEMMA FinishKeeps ==
    ASSUME TypeOK, NEW done, Finish(done), done \cap outgrown = {}
    PROVE  /\ rows' = rows /\ pending' \subseteq pending /\ pending' \subseteq 1..rows
           /\ Settled' \subseteq pending'
           /\ landed' \cap (absent' \cup outgrown') = {} /\ absent' \cap outgrown' = {}
           /\ pending' = pending \ done
BY DEF Finish, TypeOK, Settled

\* What a pass starts from has its type.
LEMMA ZeroIsTyped ==
    0 \in 0..(Targets + Orders) /\ 0 \in 0..MaxSends /\ 0 \in 0..MaxRows /\ 0 \in Nat
BY PassAssumption

\* The first state of the process.
LEMMA InitIInv == Init => IInv
<1> SUFFICES ASSUME Init PROVE IInv
  OBVIOUS
<1>1. TypeOK
  <2>1. Settled = {}
    BY DEF Init, Settled
  <2> QED BY <2>1, ZeroIsTyped DEF Init, TypeOK
<1>2. Recovered
  BY DEF Init, Recovered, ReconciledFirst, Before
<1>3. Counted
  BY DEF Init, Counted
<1> QED BY <1>1, <1>2, <1>3 DEF IInv

\* The batch and what is settled in it follow from the rows.
LEMMA RowsStay ==
    ASSUME UNCHANGED work
    PROVE  /\ Settled' = Settled /\ Batch' = Batch
           /\ UNCHANGED <<rows, pending, landed, absent, outgrown>>
BY DEF work, Settled, Batch

\* What the steps of the loop that send nothing keep.
LEMMA QuietSteps ==
    ASSUME IInv, Observe \/ MonitorFees \/ CheckBalance \/ EndLiquidations
                 \/ EndOrders \/ Publish \/ Wake
    PROVE  IInv'
<1> USE PassAssumption DEF IInv, pass, world
<1>0. UNCHANGED work /\ Settled' = Settled /\ Batch' = Batch
      /\ UNCHANGED <<rows, pending, landed, absent, outgrown>>
  <2>1. UNCHANGED work
    BY DEF Observe, MonitorFees, CheckBalance, EndLiquidations, EndOrders, Publish, Wake
  <2> QED BY <2>1, RowsStay
<1>1. CASE Observe
  <2>1. due' = Batch \cap Settled /\ due' \subseteq 1..rows
    BY <1>1 DEF Observe, TypeOK, Batch
  <2>2. TypeOK'
    BY <1>0, <1>1, <2>1 DEF Observe, TypeOK
  <2>3. Recovered'
    BY <1>0, <1>1, <2>1 DEF Observe, TypeOK, Recovered, ReconciledFirst, Before
  <2>4. Counted'
    BY <1>0, <1>1 DEF Observe, TypeOK, Counted
  <2> QED BY <2>2, <2>3, <2>4
<1>2. CASE MonitorFees
  <2>1. TypeOK'
    BY <1>0, <1>2 DEF MonitorFees, TypeOK
  <2>2. Recovered'
    BY <1>0, <1>2 DEF MonitorFees, TypeOK, Recovered, ReconciledFirst, Before
  <2>3. Counted'
    BY <1>0, <1>2 DEF MonitorFees, TypeOK, Counted
  <2> QED BY <2>1, <2>2, <2>3
<1>3. CASE CheckBalance
  <2>1. TypeOK'
    BY <1>0, <1>3 DEF CheckBalance, TypeOK
  <2>2. Recovered'
    BY <1>0, <1>3 DEF CheckBalance, TypeOK, Recovered, ReconciledFirst, Before
  <2>3. Counted'
    BY <1>0, <1>3 DEF CheckBalance, TypeOK, Counted
  <2> QED BY <2>1, <2>2, <2>3
<1>4. CASE EndLiquidations
  <2>1. TypeOK'
    BY <1>0, <1>4 DEF EndLiquidations, TypeOK
  <2>2. Recovered'
    BY <1>0, <1>4 DEF EndLiquidations, TypeOK, Recovered, ReconciledFirst, Before
  <2>3. Counted'
    BY <1>0, <1>4 DEF EndLiquidations, TypeOK, Counted
  <2> QED BY <2>1, <2>2, <2>3
<1>5. CASE EndOrders
  <2>1. TypeOK'
    BY <1>0, <1>5 DEF EndOrders, TypeOK
  <2>2. Recovered'
    BY <1>0, <1>5 DEF EndOrders, TypeOK, Recovered, ReconciledFirst, Before
  <2>3. Counted'
    BY <1>0, <1>5 DEF EndOrders, TypeOK, Counted
  <2> QED BY <2>1, <2>2, <2>3
<1>6. CASE Publish
  <2>1. TypeOK'
    BY <1>0, <1>6 DEF Publish, TypeOK
  <2>2. Recovered'
    BY <1>0, <1>6 DEF Publish, TypeOK, Recovered, ReconciledFirst, Before
  <2>3. Counted'
    BY <1>0, <1>6 DEF Publish, TypeOK, Counted
  <2> QED BY <2>1, <2>2, <2>3
<1>7. CASE Wake
  <2>1. TypeOK'
    BY <1>0, <1>7, ZeroIsTyped DEF Wake, TypeOK
  <2>2. Recovered'
    BY <1>0, <1>7 DEF Wake, TypeOK, Recovered, ReconciledFirst, Before
  <2>3. Counted'
    BY <1>0, <1>7 DEF Wake, TypeOK, Counted
  <2> QED BY <2>1, <2>2, <2>3
<1> QED BY <1>1, <1>2, <1>3, <1>4, <1>5, <1>6, <1>7

\* A live recovery that succeeds leaves no row that was due.
LEMMA RecoverStep == ASSUME IInv, Recover PROVE IInv'
<1> USE PassAssumption DEF IInv
<1>1. /\ attempted' = 0 /\ sends' = 0 /\ limit' \in {0, MaxSends}
      /\ step' \in {"liquidate", "publish"} /\ todo' \in {0, Targets}
      /\ failed' \in BOOLEAN /\ UNCHANGED <<snap, due, world>>
  BY DEF Recover, RecoverAll, RecoverUntil
<1>2. Conclusive \cap outgrown = {}
  BY DEF Conclusive, TypeOK
<1>3. /\ rows' = rows /\ pending' \subseteq 1..rows /\ Settled' \subseteq pending'
      /\ landed' \cap (absent' \cup outgrown') = {} /\ absent' \cap outgrown' = {}
  <2>1. CASE RecoverAll
    BY <1>2, <2>1, FinishKeeps DEF RecoverAll
  <2>2. ASSUME NEW n \in 1..(rows + 1), RecoverUntil(n)
        PROVE  /\ rows' = rows /\ pending' \subseteq 1..rows /\ Settled' \subseteq pending'
               /\ landed' \cap (absent' \cup outgrown') = {} /\ absent' \cap outgrown' = {}
    <3> DEFINE done == {r \in Conclusive : r < n}
    <3>1. Finish(done) /\ done \cap outgrown = {}
      BY <1>2, <2>2 DEF RecoverUntil
    <3> HIDE DEF done
    <3> QED BY <3>1, FinishKeeps
  <2> QED BY <2>1, <2>2 DEF Recover
<1>4. executed' \in Nat
  <2>1. IsFiniteSet(Conclusive \cap landed)
    <3>1. IsFiniteSet(1..rows)
      BY FS_Interval DEF TypeOK
    <3> QED BY <3>1, FS_Subset DEF TypeOK, Settled
  <2>2. Cardinality(Conclusive \cap landed) \in Nat
    BY <2>1, FS_CardinalityType
  <2>3. CASE RecoverAll
    BY <2>2, <2>3 DEF RecoverAll
  <2>4. CASE \E n \in 1..(rows + 1) : RecoverUntil(n)
    BY <2>4 DEF RecoverUntil
  <2> QED BY <2>3, <2>4 DEF Recover
<1>5. live' /\ step' = "liquidate" => due' \cap pending' = {}
  <2>1. SUFFICES ASSUME live, RecoverAll PROVE due \cap pending' = {}
    BY <1>1 DEF Recover, RecoverUntil, world
  <2>2. pending' = pending \ Conclusive /\ Batch \cap outgrown = {}
    BY <2>1 DEF RecoverAll, Finish, Stuck
  <2>3. due \subseteq Batch \cap Settled
    BY DEF Recover, Recovered, Before
  <2> QED BY <2>1, <2>2, <2>3 DEF Conclusive, Settled
<1>6. TypeOK'
  BY <1>1, <1>3, <1>4 DEF TypeOK, world
<1>7. Recovered'
  BY <1>1, <1>5, <1>6 DEF Recovered, ReconciledFirst, Before
<1>8. Counted'
  BY <1>1, <1>6 DEF Counted, TypeOK
<1> QED BY <1>6, <1>7, <1>8

\* A transaction that turns out to be finalized: its row has its outcome, and
\* nothing is sent.
LEMMA ReconciledKeeps ==
    ASSUME TypeOK, Reconciled
    PROVE  /\ rows' = rows /\ pending' \subseteq pending /\ pending' \subseteq 1..rows
           /\ Settled' \subseteq pending'
           /\ landed' \cap (absent' \cup outgrown') = {} /\ absent' \cap outgrown' = {}
           /\ executed' \in {executed, executed + 1} /\ sends' = sends
<1>1. PICK r \in landed : Finish({r})
  BY DEF Reconciled
<1>2. {r} \cap outgrown = {}
  BY DEF TypeOK
<1> QED BY <1>1, <1>2, FinishKeeps DEF Reconciled

\* One target: what is sent is counted.
LEMMA LiquidateStep == ASSUME IInv, Liquidate PROVE IInv'
<1> USE PassAssumption DEF IInv
<1>1. /\ step = "liquidate" /\ todo > 0 /\ attempted < limit /\ todo' = todo - 1
      /\ UNCHANGED <<step, limit, failed, snap, due, world>>
      /\ attempted' \in {attempted, attempted + 1}
  BY DEF Liquidate
<1>2. CASE NoSubmission
  <2>1. UNCHANGED <<executed, sends, rows, pending, landed, absent, outgrown>>
    BY <1>2 DEF NoSubmission, work
  <2>5. Settled' = Settled
    BY <2>1 DEF Settled
  <2>2. TypeOK'
    BY <1>1, <2>1, <2>5 DEF TypeOK, world
  <2>3. Recovered'
    BY <1>1, <2>1 DEF Recovered, ReconciledFirst, Before, world
  <2>4. Counted'
    BY <1>1, <2>1 DEF Counted, TypeOK
  <2> QED BY <2>2, <2>3, <2>4
<1>3. CASE attempted' = attempted + 1 /\ NewRow /\ UNCHANGED executed
  <2>1. TypeOK'
    BY <1>1, <1>3, NewRowIsNotDue DEF TypeOK, world
  <2>2. Recovered'
    BY <1>1, <1>3, NewRowIsNotDue DEF Recovered, ReconciledFirst, Before, world
  <2>3. Counted'
    BY <1>1, <1>3, NewRowIsNotDue DEF Counted, TypeOK
  <2> QED BY <2>1, <2>2, <2>3
<1>4. CASE attempted' = attempted + 1 /\ Reconciled
  <2>1. TypeOK'
    BY <1>1, <1>4, ReconciledKeeps DEF TypeOK, world
  <2>2. Recovered'
    BY <1>1, <1>4, ReconciledKeeps DEF Recovered, ReconciledFirst, Before, world
  <2>3. Counted'
    BY <1>1, <1>4, ReconciledKeeps DEF Counted, TypeOK
  <2> QED BY <2>1, <2>2, <2>3
<1> QED BY <1>2, <1>3, <1>4 DEF Liquidate

\* One order: never in the lending profile.
LEMMA OrderStep == ASSUME IInv, Order PROVE IInv'
<1> USE PassAssumption DEF IInv
<1>1. /\ step = "orders" /\ Profile # "lending" /\ step' \in {"orders", "publish"}
      /\ todo' \in {todo, todo - 1} /\ todo > 0 /\ attempted < limit
      /\ attempted' \in {attempted, attempted + 1} /\ failed' \in BOOLEAN
      /\ UNCHANGED <<limit, snap, due, world>>
  BY DEF Order, Counted, TypeOK
<1>2. \/ NoSubmission
      \/ executed' = executed /\ NewRow
      \/ Reconciled
  BY DEF Order
<1>3. CASE NoSubmission
  <2>1. UNCHANGED <<executed, sends, rows, pending, landed, absent, outgrown>>
    BY <1>3 DEF NoSubmission, work
  <2>4. Settled' = Settled
    BY <2>1 DEF Settled
  <2>2. TypeOK'
    BY <1>1, <2>1, <2>4 DEF TypeOK, world
  <2>3. Recovered'
    BY <1>1, <2>1 DEF Recovered, ReconciledFirst, Before, world
  <2> QED BY <1>1, <2>2, <2>3 DEF Counted
<1>4. CASE executed' = executed /\ NewRow
  <2>1. TypeOK'
    BY <1>1, <1>4, NewRowIsNotDue DEF TypeOK, world
  <2>2. Recovered'
    BY <1>1, <1>4, NewRowIsNotDue DEF Recovered, ReconciledFirst, Before, world
  <2> QED BY <1>1, <2>1, <2>2 DEF Counted
<1>5. CASE Reconciled
  <2>1. TypeOK'
    BY <1>1, <1>5, ReconciledKeeps DEF TypeOK, world
  <2>2. Recovered'
    BY <1>1, <1>5, ReconciledKeeps DEF Recovered, ReconciledFirst, Before, world
  <2> QED BY <1>1, <2>1, <2>2 DEF Counted
<1> QED BY <1>2, <1>3, <1>4, <1>5

\* The world around the process.
LEMMA WorldSteps == ASSUME IInv, Settle \/ Outgrow \/ Environment \/ Redeploy PROVE IInv'
<1> USE PassAssumption DEF IInv, pass, work, world
<1>1. CASE Settle \/ Outgrow
  <2>1. /\ UNCHANGED <<step, pass, snap, rows, pending, world>>
        /\ Settled \subseteq Settled' /\ Settled' \subseteq pending
        /\ landed' \cap (absent' \cup outgrown') = {} /\ absent' \cap outgrown' = {}
    BY <1>1 DEF Settle, Outgrow, TypeOK, Settled
  <2>2. Batch' = Batch
    BY <2>1 DEF Batch
  <2>3. TypeOK'
    BY <2>1 DEF TypeOK
  <2>4. Recovered'
    BY <2>1, <2>2 DEF Recovered, ReconciledFirst, Before
  <2>5. Counted'
    BY <2>1 DEF Counted
  <2> QED BY <2>3, <2>4, <2>5
<1>2. CASE Environment
  <2>0. Settled' = Settled /\ Batch' = Batch
    BY <1>2, RowsStay DEF Environment
  <2>1. rpc' \in BOOLEAN /\ db' \in BOOLEAN /\ funded' \in BOOLEAN /\ live' = live
    BY <1>2, Zenon DEF Environment, Toggle, TypeOK
  <2>2. TypeOK'
    BY <1>2, <2>0, <2>1 DEF Environment, TypeOK
  <2>3. Recovered'
    BY <1>2, <2>0 DEF Environment, Toggle, TypeOK, Recovered, ReconciledFirst, Before
  <2>4. Counted'
    BY <1>2 DEF Environment, Toggle, TypeOK, Counted
  <2> QED BY <2>2, <2>3, <2>4
<1>3. CASE Redeploy
  <2>0. Settled' = Settled
    BY <1>3, RowsStay DEF Redeploy
  <2>1. live' \in BOOLEAN
    BY <1>3, Zenon DEF Redeploy
  <2>2. TypeOK'
    BY <1>3, <2>0, <2>1, ZeroIsTyped DEF Redeploy, TypeOK
  <2>3. Recovered'
    BY <1>3 DEF Redeploy, TypeOK, Recovered, ReconciledFirst, Before
  <2>4. Counted'
    BY <1>3 DEF Redeploy, TypeOK, Counted
  <2> QED BY <2>2, <2>3, <2>4
<1> QED BY <1>1, <1>2, <1>3

\* Every step preserves the invariant.
LEMMA StepIInv == IInv /\ [Next]_vars => IInv'
<1> SUFFICES ASSUME IInv, [Next]_vars PROVE IInv'
  OBVIOUS
<1>1. CASE UNCHANGED vars
  <2>1. Settled' = Settled /\ Batch' = Batch
    BY <1>1, RowsStay DEF vars, work
  <2> QED BY <1>1, <2>1 DEF vars, IInv, TypeOK, Recovered, Counted, ReconciledFirst, Before
<1> QED BY <1>1, QuietSteps, RecoverStep, LiquidateStep, OrderStep, WorldSteps
        DEF Next, Loop

\* Every reachable state satisfies the inductive invariant.
LEMMA SpecIInv == Spec => []IInv
BY InitIInv, StepIInv, PTL DEF Spec

\* The loop's state has its type in every reachable state (main.rs:143-229).
THEOREM TypeCorrect == Spec => []TypeOK
<1>1. IInv => TypeOK
  BY DEF IInv
<1> QED BY SpecIInv, <1>1, PTL

\* A pass that submits has reconciled what was due (flash_journal.rs:39).
THEOREM ReconcilesFirst == Spec => []ReconciledFirst
<1>1. IInv => ReconciledFirst
  BY DEF IInv, Recovered
<1> QED BY SpecIInv, <1>1, PTL

\* A lending pass stays under KEEPER_MAX_SENDS_PER_PASS (config.rs:30-31).
THEOREM LendingCeiling == ASSUME Profile = "lending" PROVE Spec => []SendCeiling
<1>1. IInv => SendCeiling
  BY PassAssumption DEF IInv, Counted, TypeOK, SendCeiling
<1> QED BY SpecIInv, <1>1, PTL
=============================================================================
