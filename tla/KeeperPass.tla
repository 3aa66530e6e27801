----------------------------- MODULE KeeperPass -----------------------------
(***************************************************************************)
(* The polling loop of one Rust keeper process, rust/apps/keeper/src/      *)
(* main.rs, with the passes of its lending and leverage profiles           *)
(* (liquidation/engine.rs, workers/leverage/) and the readiness endpoint   *)
(* that another thread serves from the shared snapshot (health.rs).        *)
(*                                                                         *)
(* Abstractions: a target is a position and a debt side of an active       *)
(* market, in discovery order; what evaluating it comes to is one of the   *)
(* outcomes the code can return.  A row is a submission recorded in the    *)
(* journal, numbered in the order of its reservation; how its outcome is   *)
(* learned, and who holds its lease, is the subject of FlashJournal: here  *)
(* no other process does.                                                  *)
(***************************************************************************)
EXTENDS Naturals, FiniteSets

CONSTANTS
    Profile,    \* "lending", or "leverage": orders follow the liquidations
    Targets,    \* positions (with a debt side) discovered by a pass
    Orders,     \* conditional orders discovered by a pass
    MaxSends,   \* KEEPER_MAX_SENDS_PER_PASS
    BatchSize,  \* the rows that one recovery looks at: LIMIT 100
    MaxRows,    \* bound: submissions recorded in all
    MayPause    \* whether the signer can run dry and the mode be changed

ASSUME PassAssumption ==
    /\ Profile \in {"lending", "leverage"} /\ MayPause \in BOOLEAN
    /\ Targets \in Nat /\ Orders \in Nat /\ MaxSends \in Nat
    /\ BatchSize \in Nat \ {0} /\ MaxRows \in Nat

VARIABLES
    step,       \* where the loop is
    todo,       \* targets or orders left in this stage
    attempted,  \* what the stage counts against its limit
    limit,      \* the limit of the stage
    executed,   \* reports of this pass with status Executed
    sends,      \* transactions broadcast by this pass
    failed,     \* whether the pass ends with an error
    snap,       \* the shared Snapshot
    rows,       \* submissions recorded so far
    pending,    \* rows without an outcome
    landed,     \* pending rows whose transaction is finalized
    absent,     \* pending rows whose transaction expired and is absent
    outgrown,   \* absent ones, observed more than 100000 slots ago
    due,        \* rows that the recovery of the pass would find settled
    rpc, db, funded, live   \* what the process can reach, pay and do

pass  == <<todo, attempted, limit, executed, sends, failed, due>>
work  == <<rows, pending, landed, absent, outgrown>>
world == <<rpc, db, funded, live>>
vars  == <<step, todo, attempted, limit, executed, sends, failed, snap,
           rows, pending, landed, absent, outgrown, due, rpc, db, funded, live>>

Rows == 1..MaxRows

\* The oldest pending rows, and those that the cluster has decided about.
Batch == {r \in pending : Cardinality({q \in pending : q < r}) < BatchSize}
Settled == landed \cup absent \cup outgrown

\* Rows get their outcome.
Finish(done) ==
    /\ pending' = pending \ done /\ landed' = landed \ done /\ absent' = absent \ done
    /\ UNCHANGED <<rows, outgrown>>

Init ==
    /\ step = "observe"
    /\ todo = 0 /\ attempted = 0 /\ limit = 0 /\ executed = 0 /\ sends = 0
    /\ failed = FALSE /\ due = {}
    /\ snap = [error |-> FALSE, feeError |-> FALSE, execError |-> FALSE,
               passes |-> FALSE, configured |-> FALSE]
    /\ rows = 0 /\ pending = {} /\ landed = {} /\ absent = {} /\ outgrown = {}
    /\ rpc = TRUE /\ db = TRUE /\ funded = TRUE /\ live = TRUE

-----------------------------------------------------------------------------
\* The loop.  A step that needs the RPC node fails when it is unreachable.

Observe ==
    /\ step = "observe" /\ step' = "fees"
    /\ snap' = [snap EXCEPT !.passes = TRUE, !.error = ~rpc]
    /\ due' = Batch \cap Settled
    /\ UNCHANGED <<todo, attempted, limit, executed, sends, failed, work, world>>

\* The monitor can fail on what it reads, and fails without the node.
MonitorFees ==
    /\ step = "fees" /\ step' = "balance"
    /\ \E ok \in BOOLEAN :
        /\ ok => rpc
        /\ snap' = [snap EXCEPT !.feeError = ~ok, !.configured = TRUE]
    /\ UNCHANGED <<pass, work, world>>

\* Mutant: execution backs off for good once a pass has failed.
CheckBalanceOrStop ==
    /\ step = "balance"
    /\ IF live /\ (~(rpc /\ funded) \/ snap.execError)
       THEN step' = "sleep" /\ snap' = [snap EXCEPT !.execError = TRUE]
       ELSE step' = "recover" /\ UNCHANGED snap
    /\ UNCHANGED <<pass, work, world>>

\* run_execution_pass: a live pass needs a balance above the floor.
CheckBalance ==
    /\ step = "balance"
    /\ IF live /\ ~(rpc /\ funded)
       THEN step' = "sleep" /\ snap' = [snap EXCEPT !.execError = TRUE]
       ELSE step' = "recover" /\ UNCHANGED snap
    /\ UNCHANGED <<pass, work, world>>

\* Mutant: a pass goes on when the journal could not be reconciled.
RecoverOrSkip ==
    /\ step = "recover" /\ step' = "liquidate"
    /\ todo' = Targets /\ limit' = MaxSends /\ attempted' = 0
    /\ sends' = 0 /\ failed' = FALSE
    /\ Finish(IF live /\ rpc /\ db THEN Batch \cap (landed \cup absent) ELSE {})
    /\ executed' = 0
    /\ UNCHANGED <<snap, due, world>>

\* What the recovery needs: a live one the journal, and no row in the batch that
\* "requires archival reconciliation".
Reachable == rpc /\ (live => db)
Stuck == IF live THEN Batch \cap outgrown ELSE {}
Conclusive == IF live THEN Batch \cap (landed \cup absent) ELSE {}

\* recover_pending gives every row of the batch that is settled its outcome, some
\* of them executed; discovery follows.
RecoverAll ==
    /\ Reachable /\ Stuck = {}
    /\ step' = "liquidate" /\ failed' = FALSE
    /\ todo' = Targets /\ limit' = MaxSends
    /\ Finish(Conclusive)
    /\ executed' \in 0..Cardinality(Conclusive \cap landed)

\* The first error leaves its loop, and the pass: at the latest that of the oldest
\* stuck row, at whose turn the older rows have their outcome.
RecoverUntil(n) ==
    /\ ~(Reachable /\ Stuck = {})
    /\ \A q \in Stuck : n <= q
    /\ Reachable => n \in Stuck
    /\ step' = "publish" /\ failed' = TRUE
    /\ todo' = 0 /\ limit' = 0 /\ executed' = 0
    /\ Finish({r \in Conclusive : r < n})

Recover ==
    /\ step = "recover" /\ attempted' = 0 /\ sends' = 0
    /\ RecoverAll \/ \E n \in 1..(rows + 1) : RecoverUntil(n)
    /\ UNCHANGED <<snap, due, world>>

\* Journal::submit records a new transaction and hands it to the node; it
\* returns no signature, or the error of the broadcast.
NewRow ==
    /\ live /\ rpc /\ db /\ rows < MaxRows
    /\ rows' = rows + 1 /\ pending' = pending \cup {rows + 1}
    /\ sends' = sends + 1
    /\ UNCHANGED <<landed, absent, outgrown>>

\* It gives the pending row of the target its outcome when its transaction is
\* finalized, and returns its signature when it executed, none when it failed.
Reconciled ==
    /\ live /\ rpc /\ db
    /\ \E r \in landed : Finish({r})
    /\ executed' \in {executed, executed + 1}
    /\ UNCHANGED sends

\* An attempt that gets to no submission, or is told that one is pending.
NoSubmission == UNCHANGED <<executed, sends, work>>

\* Mutant: only what is reported as executed counts against the limit.
LiquidateReported ==
    /\ step = "liquidate" /\ todo > 0 /\ executed < limit
    /\ todo' = todo - 1
    /\ NoSubmission \/ (NewRow /\ UNCHANGED executed) \/ Reconciled
    /\ UNCHANGED <<step, attempted, limit, failed, snap, due, world>>

\* Mutant: the limit is one attempt late.
LiquidateOneMore ==
    /\ step = "liquidate" /\ todo > 0 /\ attempted <= limit
    /\ todo' = todo - 1 /\ attempted' = attempted + 1
    /\ NewRow
    /\ UNCHANGED <<step, limit, executed, failed, snap, due, world>>

\* run_pass: one target.  A healthy or an unfilled one is not counted; an
\* error, a preparation or a submission is, and the pass goes on.
Liquidate ==
    /\ step = "liquidate" /\ todo > 0 /\ attempted < limit
    /\ todo' = todo - 1
    /\ \/ UNCHANGED attempted /\ NoSubmission
       \/ /\ attempted' = attempted + 1
          /\ NoSubmission \/ (NewRow /\ UNCHANGED executed) \/ Reconciled
    /\ UNCHANGED <<step, limit, failed, snap, due, world>>

\* leverage::run: orders get what the executed reports leave of the limit.
EndLiquidations ==
    /\ step = "liquidate" /\ (todo = 0 \/ attempted >= limit)
    /\ IF Profile = "leverage" /\ executed < MaxSends
       THEN /\ step' = "orders" /\ todo' = Orders /\ attempted' = 0
            /\ limit' = MaxSends - executed
       ELSE step' = "publish" /\ UNCHANGED <<todo, attempted, limit>>
    /\ UNCHANGED <<executed, sends, failed, snap, due, work, world>>

\* OrderJob::run_pass: one order.  An error, which may come after a row was
\* recorded or got its outcome, ends the stage and the pass.
Order ==
    /\ step = "orders" /\ todo > 0 /\ attempted < limit
    /\ \/ /\ step' = "publish" /\ failed' = TRUE
          /\ NoSubmission \/ (NewRow /\ UNCHANGED executed) \/ Reconciled
          /\ UNCHANGED <<todo, attempted>>
       \/ /\ todo' = todo - 1
          /\ \/ UNCHANGED attempted /\ NoSubmission
             \/ /\ attempted' = attempted + 1
                /\ (~live /\ NoSubmission) \/ (NewRow /\ UNCHANGED executed) \/ Reconciled
          /\ UNCHANGED <<step, failed>>
    /\ UNCHANGED <<limit, snap, due, world>>

EndOrders ==
    /\ step = "orders" /\ (todo = 0 \/ attempted >= limit)
    /\ step' = "publish"
    /\ UNCHANGED <<pass, snap, work, world>>

Publish ==
    /\ step = "publish" /\ step' = "sleep"
    /\ snap' = [snap EXCEPT !.execError = failed]
    /\ UNCHANGED <<pass, work, world>>

Wake ==
    /\ step = "sleep" /\ step' = "observe"
    /\ todo' = 0 /\ attempted' = 0 /\ limit' = 0 /\ executed' = 0 /\ sends' = 0
    /\ failed' = FALSE
    /\ UNCHANGED <<snap, due, work, world>>

-----------------------------------------------------------------------------
\* What happens around the process

\* The cluster finalizes a transaction, or its blockhash expires.
Settle ==
    /\ \E r \in pending \ Settled :
        \/ landed' = landed \cup {r} /\ UNCHANGED absent
        \/ absent' = absent \cup {r} /\ UNCHANGED landed
    /\ UNCHANGED <<step, pass, snap, rows, pending, outgrown, world>>

\* Passes follow each other within seconds: history outgrows the 100000 slots that
\* recovery reads (some eleven hours) only while something keeps it from the row.
Outgrow ==
    /\ ~(rpc /\ db /\ funded /\ live) \/ outgrown # {}
    /\ \E r \in absent : absent' = absent \ {r} /\ outgrown' = outgrown \cup {r}
    /\ UNCHANGED <<step, pass, snap, rows, pending, landed, world>>

Toggle == \/ rpc' = ~rpc /\ UNCHANGED <<db, funded, live>>
          \/ db' = ~db /\ UNCHANGED <<rpc, funded, live>>
          \/ MayPause /\ funded' = ~funded /\ UNCHANGED <<rpc, db, live>>

Environment == Toggle /\ UNCHANGED <<step, pass, snap, work>>

\* The operator stops the process and starts it in the other mode.
Redeploy ==
    /\ MayPause /\ live' = ~live
    /\ step' = "observe"
    /\ todo' = 0 /\ attempted' = 0 /\ limit' = 0 /\ executed' = 0 /\ sends' = 0
    /\ failed' = FALSE /\ due' = {}
    /\ snap' = [error |-> FALSE, feeError |-> FALSE, execError |-> FALSE,
                passes |-> FALSE, configured |-> FALSE]
    /\ UNCHANGED <<work, rpc, db, funded>>

Loop == \/ Observe \/ MonitorFees \/ CheckBalance \/ Recover \/ Liquidate
        \/ EndLiquidations \/ Order \/ EndOrders \/ Publish \/ Wake

Next == Loop \/ Settle \/ Outgrow \/ Environment \/ Redeploy

Spec == Init /\ [][Next]_vars

\* The thread keeps running, and the cluster settles every transaction.
FairSpec == Spec /\ WF_vars(Loop) /\ WF_vars(Settle)

-----------------------------------------------------------------------------
\* Mutant: the endpoint answers for the process, not for what it sees.
ReadyOnce == snap.passes

\* /readyz of a signing profile
Ready ==
    /\ ~snap.error /\ ~snap.feeError /\ ~snap.execError
    /\ snap.configured /\ snap.passes

(***************************************************************************)
(* Every variable has its type.                                            *)
(***************************************************************************)
TypeOK ==
    /\ step \in {"observe", "fees", "balance", "recover", "liquidate", "orders",
                 "publish", "sleep"}
    /\ todo \in 0..(Targets + Orders)
    /\ attempted \in 0..MaxSends /\ limit \in 0..MaxSends
    /\ executed \in Nat /\ sends \in Nat
    /\ failed \in BOOLEAN
    /\ snap \in [error : BOOLEAN, feeError : BOOLEAN, execError : BOOLEAN,
                 passes : BOOLEAN, configured : BOOLEAN]
    /\ rows \in 0..MaxRows /\ pending \subseteq 1..rows /\ due \subseteq 1..rows
    /\ Settled \subseteq pending
    /\ landed \cap (absent \cup outgrown) = {} /\ absent \cap outgrown = {}
    /\ rpc \in BOOLEAN /\ db \in BOOLEAN /\ funded \in BOOLEAN /\ live \in BOOLEAN

(***************************************************************************)
(* KEEPER_MAX_SENDS_PER_PASS is a ceiling on the transactions of a pass    *)
(* (config.rs:30-31), whatever the reports of the attempts look like.      *)
(***************************************************************************)
SendCeiling == sends <= MaxSends

(***************************************************************************)
(* A pass that submits has first given an outcome to every row that was    *)
(* settled when it began and is among the oldest that a recovery looks at  *)
(* (flash_journal.rs:39-47), although the journal, the node and the        *)
(* balance come and go while it runs; when one of them needs archival      *)
(* reconciliation (flash_journal.rs:107), the pass submits nothing.        *)
(***************************************************************************)
ReconciledFirst == sends > 0 => due \cap pending = {}

(***************************************************************************)
(* A chain that stays out of reach ends in a readiness that stays closed   *)
(* (health.rs:101-103): no stage of the loop reopens it.                   *)
(***************************************************************************)
OutageShows == <>[]~rpc => <>[]~Ready

(***************************************************************************)
(* Once a live keeper has the node and the database in reach, every        *)
(* recorded submission gets an outcome, unless it or an older one expired  *)
(* and was observed more than 100000 slots ago: that row is an error of    *)
(* every recovery from then on, and those behind it wait for good          *)
(* (flash_journal.rs:107, 156).  That the balance falls below the reserve  *)
(* and pauses new signatures does not stop it (threat-model.md:43-46).     *)
(***************************************************************************)
PendingReconciled ==
    <>[](rpc /\ db /\ live) =>
        \A r \in Rows : r \in pending ~> r \notin pending \/ \E q \in outgrown : q <= r
=============================================================================
