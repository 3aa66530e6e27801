# TLA+ models of the Dusk keepers

Models, model-checking runs and proofs for the keepers of this repository: the
processes that watch lending, leverage and hLP positions on Solana, decide what
to liquidate or execute, sign a transaction, and keep a PostgreSQL record of
what they signed. `src/...` paths below are relative to the repository root;
`J` stands for `rust/apps/keeper/src/runtime/flash_journal.rs`.

- [1. The system](#1-the-system): components, state, interaction, hazards
- [2. Modules](#2-modules): what models what, and how it corresponds to the code
- [3. Runs](#3-runs): what TLC checks, bounds, fairness
- [4. Proofs](#4-proofs): what TLAPS proves, from which assumptions
- [5. Where code and documents disagree](#5-where-code-and-documents-disagree)
- [6. Plan](#6-plan): what comes next, and what stays out

To reproduce: `tlc -workers 2 -config MCFlashJournal.cfg MCFlashJournal` and so on for each
`.cfg` (its module is in the table of section 3), `tlapm FlashJournalProofs.tla` and so on for
each `*Proofs.tla`. `MCAttemptLedger` extends `AttemptLedgerProofs`, whose invariant
its run checks.

## 1. The system

One binary (`rust/apps/keeper`) runs in one of several profiles. A polling
thread observes the markets, watches transfer-fee changes and, in live mode,
runs one execution pass of the profile's worker; another thread answers
`/healthz` and `/readyz` from a shared snapshot. Several processes, on several
hosts, may run the same profile against the same database and RPC pool.

    main loop ──> sentinel / fee notices ──> RPC
        │
        └─> workers::run ─> lending | leverage (+ orders) | hLP | revenue | lifecycle
                  │              │
                  │              └─> plan, profit search, re-check, signer
                  └─> submission journal ──> PostgreSQL (rows, advisory locks)
                             └────────────> RPC (simulate, send, statuses, blocks)

`rust/crates/keeper-core` and `typescript/packages/keeper-core` hold the same
scheduler, attempt reducer and ports in two languages; the ledger of
`deploy/postgres/migrations/0001` is the store those ports describe. The Rust
binary does not go through them yet: its leverage, lending and hLP workers use
the journal of `0002`. `dusk-adapter`, also in both languages, is what turns pinned
interface descriptions (IDLs) into instructions, addresses and fields; the scripts
under `scripts/` pin the IDLs and generate contract, manifest, layout and fixtures
from them.

| Component | State | Operations | What is hard | What makes it correct |
|---|---|---|---|---|
| **Submission journal** (`J`, migration 0002) | rows per signed work; session advisory locks | `recover`, `submit`, `submit_locked`, `finish`, `finish_receipt`, `recover_pending` | two processes on one key; crash or lost session between any two statements; lost broadcasts; RPC nodes that disagree; expiry by scan of the history | outcomes are what the chain did; nothing is sent unrecorded; one transaction of a key can land at a time; every row gets an outcome while its history can be read |
| **Lifecycle reducer** (`keeper-core/src/lifecycle.rs`, `lifecycle.ts`) | an attempt: step, phase, generation, signature, outcome | `apply` for nine kinds of event | long sequences of accepted events; re-signing after expiry; ambiguous submissions | every reachable attempt can be stored; a second generation only when the first is dead |
| **Attempt ledger** (migration 0001, `AttemptStore`) | attempts, events, generations, outcomes | load, append with expected sequence, next attempt | two workers with copies of one attempt; crash between act and record | an executed attempt landed; an outcome stays |
| **Scheduler** (`keeper-core/src/lib.rs`, `index.ts`) | one waiting candidate per conflict key, keys in flight | `enqueue`, `pop_next`, `mark_in_flight`, `finish` | offers in any order, while a key is in flight | exclusive keys; the best offer survives; urgent before less urgent |
| **Polling loop, readiness** (`main.rs`, `health.rs`) | the shared snapshot | observe, monitor, balance floor, execution pass, publish; `/readyz` | each stage fails alone and overwrites part of the snapshot; pauses | an outage closes readiness; pauses do not stop reconciliation (they do: section 5), and an outage ends in it, but for rows that outgrew the readable history |
| **Liquidation pass** (`liquidation/engine.rs`) | attempt count of the pass | recover, discover, one target after the other | what counts against the send limit | the ceiling; reconcile before signing |
| **Profit search** (`liquidation/search.rs`) | visited amounts, scores, interval, probe budget | geometric probes, grids, local scan | interval boundaries, budget | ends; returns only sizes that pay; misses no peak |
| **Conditional orders** (`workers/leverage/orders.rs`) | capture of each order | one order after the other, on what the limit leaves | errors end the stage; limit handed on through reports | the ceiling of the whole pass |
| **Attempt at a position** (`engine.rs:149-656`, `plan.rs`, `policy.rs`, `validation.rs`, `simulation.rs`) | the snapshot, the plan | fetch, preview, simulate, choose a route, re-check, sign | every call is answered from a state of its own, and the transaction executes in yet another | what lands keeps the configured limits |
| **hLP worker** (`workers/hlp/`) | none across targets | plan and submit a recovery | as for liquidations | as for liquidations |
| **Revenue worker** (`workers/revenue/`) | none | measure a price, bid at an auction | signs with neither lease nor journal; balance, price and settlement are in three states of the chain | a bid pays what was measured; errors do not starve a lane |
| **Operator lifecycle worker** (`workers/lifecycle/`) | none | execute the pending bundle of a market: notice, rotate, archive | bundles that cannot be executed yet use up the limit | each bundle gets its turn, once |
| **Transfer fees** (`transfer-fees.ts`, `transfer_fees.rs`) | none; a mint and the Clock | decode, notice, value a transfer | the authority announces, replaces and cancels; the epoch changes | a valuation is not above what the transfer delivers |
| **Sentinel, fee notices** (`workers/sentinel/`) | notices in the snapshot | observe, compare epochs | epoch changes while it looks | the right fee for the epoch |
| **Health response types** (`keeper-core/src/health.rs`, `health.ts`) | none | – (types of a response body) | – | – |
| **RPC client** (`runtime/rpc.rs`) | none | retries, decoding | rate limits | bounded retries |
| **Transactions, accounts, signer** (`runtime/`) | none | compile, length-encode, sign | encodings at boundaries | bytes that round-trip |
| **Envelopes and contract** (`envelope.ts`, `protocol-lock.ts`, `generate-instruction-contract.mjs`) | contract, lock | build, validate, validate for signing | optional accounts, hooks within arguments, a lock of another revision | accepts exactly what is pinned; signs only for the frozen deployment |
| **Argument codecs** (`codec.ts`, `generate-adapter-codecs.mjs`) | none | parse, encode | two encoders written by hand beside the IDL | the bytes of the IDL, for canonical arguments only |
| **Account resolution, keys** (`resolution.ts`, `generate-adapter-codecs.mjs`) | manifest | derive addresses, base58, curve test | recipes shared by the names of accounts | the address the program derives |
| **Account layouts** (`generate-account-layout.mjs`, `liquidation.ts`) | layout | read fields by offset | a sum over everything in front | the field as it was written |
| **Liquidation plans of the adapter** (`liquidation.ts`) | none | flash and emergency instructions | an index into the finished transaction | what begins is settled, with the quote's bounds |
| **Captures, repository validation** (`capture-devnet.mjs`, `capture-protocol.mjs`, `validate-repo.mjs`) | files of the repository, deployment record | capture, pin, regenerate, validate | upgrades between requests, interruptions between writes | a record that validates was deployed |
| **Configuration, command line, bank fixtures, TypeScript shadow process** | none | parsing, generation | – | – |

`PROJECT.json` lists every component with its status and every hazard at the
line where it bites, with the property that covers it or the reason why none does.

## 2. Modules

### FlashJournal, Generations — the submission journal

`FlashJournal` is the centre of the project. A step of a process is one SQL
statement (or transaction) or one RPC call, and control points (`pc`) are named
for what runs next; `work`, `from`, `to` and `todo` are the local variables of
`recover` and `submit_locked`.

| Module | Code |
|---|---|
| `rows`, `PendingOf` | table `keeper_flash_work` and its partial unique index |
| `lock`, `Leased`, `LeaseLost`, `Disconnect` | session advisory locks; a session that dies releases the lock while the process goes on |
| `StartRecover` … `RecoverDone` | `recover`: the query of at most 100 rows, try-lock, re-read, status, height, slot, the scan in chunks, expiry, unlock |
| `Acquire`, `ReadPending`, `Reserve`, `Sign`, `Persist`, `Send`, `SubmitUnlock` | `submit` and `submit_locked` |
| `FinishReceipt`, `Finish` | the receipt of a transaction found finalized |
| `Prepare`, `EndPass` | the evaluation of a position (any plan, any fresh blockhash) and the end of a pass |
| `RpcError`, `Crash`, `Disconnect` | faults, at most `MaxFaults` of them; a `Send` that fails may have been delivered |
| `NewBlock`, `Finalize`, `Views` | the cluster: a block may include any live transaction that was sent; one RPC answer may lag the finalized tip by `Lag` |

Abstractions: slots and heights are one clock; a work record names both the
message and its (deterministic) signature; event rows are left out, they repeat
the outcome in the same SQL transaction; the journal reads finalized data only,
so blocks are not rolled back.

`Generations` is what the journal promises: per conflict key, a transaction is
signed only when no other of that key can still take effect, and its fate,
once decided, stays. `FlashJournal` implements it under the mapping `Fate`
(computed from `rows`, `landed`, `good` and `tip`): leases, crashes, repeats
and RPC answers disappear.

### Lifecycle, AttemptLedger — attempts

`Lifecycle` translates the reducer: `Reduce(a, e)` is the set of the state after an
event, empty when the event is refused. `AttemptLedger` puts workers around it: each loads the attempt,
signs, broadcasts, learns a fate, and appends an event with the sequence number
it expects; two workers hold copies of different ages. Workers report what is
true of the signature their copy records, nothing more; no code in the
repository restricts them further. Keys, checks and indexes of migration 0001
are the guards of `Load`, `Append`, `Store` and `NextAttempt`.

### Scheduler — candidates

One action per method; `offers` and `last` are history variables for the
properties. `HandOut` covers `markInFlight` of the TypeScript twin, which claims
a key outside `popNext`. The tie-break between identifiers is a number, so both
languages' string orders are instances.

### KeeperPass — the polling loop

One process, its loop stage by stage, the shared snapshot and `Ready`, which is
`/readyz`. The environment toggles the node, the database, the balance and (by
restart) the mode. A row here is a submission of the journal, numbered by age; of
how its outcome is learned (`FlashJournal`) three cases are left: its transaction is
finalized (`landed`), or expired and absent (`absent`), or that and observed more than
100000 slots ago (`outgrown`), which only happens while a pause, an outage or an older
such row keeps the recovery from it (`Outgrow`: some eleven hours of slots). `Recover`
takes the `BatchSize` oldest rows in order, and ends the pass at the first that is an
error: the rows in front of it have their outcome, those behind it wait, and nothing is
submitted. No other process holds a lease. `Liquidate` and `Order` keep the loops'
counting exactly, and take what evaluating one target comes to from the outcomes the
code can return.

### ProfitSearch — sizes

`search_profitable` as a state machine: `Halve` is the loop of `slices`, which makes
the list of geometric probes; afterwards `todo` is the loop in progress, `visited` the evaluated amounts (their number is the probe count), `profit` the
function the simulations measure. An evaluation may fail, which ends the search.

### PositionAttempt — one attempt at a position

`LiquidationJob::attempt` call by call, beside the chain it asks: a state of the
chain holds what an attempt depends on (debt, pledge, price, epoch, the buyer's
wallet, whether the token accounts exist), and each call is answered from any state
that is not older than its `minContextSlot`. `Fetch` is `fresh`, `Assess` the health
preview and the account setup, `Preview`/`Score`/`ScoreLow` a quote and its simulated
execution, `NextRoute` is `select_liquidation`, `Protect` the rebuilt plan with its
floor, and `Recheck` the second snapshot, the comparison of the states and the last
simulation, after which the plan is signed. `Land` executes what was signed in the
newest state, within the bounds the instructions carry. What a liquidation does is a
constant, `Fill`: any function from states and sizes to amounts. Which sizes the
search tries is `ProfitSearch`; when a signature may be replaced is `FlashJournal`.

### Turns — the loops of the workers

One behaviour is one worker's loop, pass after pass, over targets whose `condition`
says what an attempt comes to: nothing to do, refused, an error, or due. `Counts` and
`Aborts` are where the five loops differ: liquidations and hLP recoveries count errors
and submissions; the orders count submissions and end at an error, a signature that is
still pending among them; the auction counts what the node accepted and ends at an
error; the operator bundles count before they look. `PassOrder` is the sort by urgent
markets, which only the liquidations have. `Attempt` is one turn of the loop,
`Executed`, `Rejected` and `Move` what the cluster and everybody else do to a target.
KeeperPass has the same loop with its budget, database and crashes, and no identity of
the targets; Turns has the identities, and a pass that never fails.

### AuctionBid — one bid

`ArbitrageurJob::attempt` beside the chain: the payment account is read (`ReadBalance`),
the sale is simulated with a ceiling that does not bind (`Measure`), and the bid is sent
with the measured payment plus the tolerance (`Send`), each call answered in a state
of its own; bids settle in the newest state or expire, while others trade. Several
bidders share the wallet.

### TransferFees — announced fees

The mint's fee authority and the epochs, and beside them the reader: `decodeMintFees`,
`decodeClockEpoch`, `phase`, `feeCredit` with its three modes. A quote may have been
made from a Clock account of an earlier slot.

### The TypeScript adapter

Operators, translated file by file, and a state machine around them: `Gate`, what stands
in front of the signer, and `Adapter`, which adds the calls that change nothing. A module
that is proved about reaches no RECURSIVE operator, so what walks over types stands apart:
`AdapterData` extends `Adapter` with codecs, layouts and plans.

| Module | Code |
|---|---|
| `Bytes` | little-endian writers and readers of the widths u8, u16, u32, u64 |
| `InstructionContract` | `generate-instruction-contract.mjs`: contract and fixture envelopes from the IDLs |
| `Envelope` | `envelope.ts`, `protocol-lock.ts`: every check in its order; a verdict is the first code |
| `IdlTypes` | the types of an IDL and JSON values, as both generators take them in |
| `Codec` | `codec.ts` and the reference encoder of `generate-adapter-codecs.mjs` |
| `Resolution` | the manifest generator and `resolution.ts` |
| `PublicKeys` | base58 and the Ed25519 curve test |
| `AccountLayout` | `generate-account-layout.mjs` and the reader of fields |
| `LiquidationPlan` | `liquidation.ts`: from a snapshot and a quote to the instructions |
| `Gate` | deploying, building, editing, validating and signing envelopes |
| `Adapter` | `Gate` with a resolver, the pure calls, and what they say of addresses and keys |
| `AdapterData` | what the calls say of arguments, fields and plans |

Numbers are digits of a small base, a hash is the content it is the hash of, an
address is a tuple. `EnvelopeIsPinned`, `ReferenceData`, `DerivedByProgram`,
`Serialized` and `HasPoint` are the reference definitions that the hand-written code
is compared with; `ReferenceData` is the generator's own encoder, the others are not
code of the repository but what it has to agree with.

### Capture — how the protocol gets into the repository

`capture-devnet.mjs` request by request, `capture-protocol.mjs` write by write, the
validation of the result, upgrades of the deployed programs at any time and an
interruption between any two writes.

### MC modules and configurations

`MCFlashJournal` and `MCAttemptLedger` add the symmetry sets the configurations name;
`MCKeeperPass` adds nothing; `MCScheduler` holds the candidates, the cost of a lot, and
`part`, which says whether a behaviour is the scheduler's, a worker's loop or a bid's
(they share no state; the parts that do not move stay in one initial state); `MCProfitSearch`
defines the profit functions, and the markets in which attempts are explored;
`MCIdls` holds two versions of the IDLs; `MCAdapter` the locks, edits, accounts and
calls, and `part`, which says what a behaviour is about (fees, captures or the
adapter, in the same way). Definitions whose comment starts with `Mutant:` in
the modelling modules are variants of the definition that follows them, each
with a plausible mistake; they are not part of any specification, and
`PROJECT.json` says which property notices each of them.

## 3. Runs

| Run | Configuration | Checks | Distinct states |
|---|---|---|---|
| `journal` | MCFlashJournal | `OutcomeMatchesChain`, `RecordedBeforeSent`, `SingleLive`, `IInv` (with `TypeOK`), `ReplacementAfterFate`, `TerminalForGood`, `ImplementsGenerations` | 544,618 |
| `journal_live` | MCFlashJournalLive | `PendingResolved` | 55,556 |
| `journal_pool` | MCFlashJournalPool | `ExpiredIsAbsent` is violated | |
| `journal_head_of_line` | MCFlashJournalHeadOfLine | `UnsignedReleased` is violated | |
| `ledger` | MCAttemptLedger | `IInv` (with `TypeOK`), `LedgerChecks`, `RecordedBeforeSent`, `ExecutedLanded`, `OneLiveGeneration`, `OutcomeStays` | 1,147,210 |
| `scheduler` | MCScheduler | `TypeOK`, `Exclusive`, `BestOffer`, `DrainOrder`, `PaysAsMeasured`, `Served` | 640,613 |
| `pass_lending` | MCKeeperPass | `TypeOK`, `SendCeiling`, `ReconciledFirst` | 1,415,744 |
| `pass_live` | MCKeeperPassLive | `OutageShows`, `PendingReconciled` | 419,948 |
| `pass_ceiling` | MCKeeperPassOrders | `SendCeiling` is violated | |
| `pass_paused` | MCKeeperPassPaused | `PendingReconciled` is violated | |
| `search` | MCProfitSearch | `TypeOK`, `ReturnsProfitable`, `FindsPeak`, `LandedWithinBounds`, `Terminates` | 311,438 |
| `adapter` | MCAdapter | `AcceptsExactlyPinned`, `SignedIsPinned`, `CodecMatchesIdl`, `ManifestFindsSeeds`, `KeysAreExact`, `FieldsReadBack`, `PlanSettles`, `ValuationKept`, `RecordIsDeployed`, `CompletedValidates` | 1,020,017 |

### Bounds

- `journal`: two processes, one key, one plan, blockhashes of blocks 0 and 1
  with two blocks of validity, four blocks, one fault, and a pool whose answers
  lag by one block. Keys are independent (lock, index and every property are
  per key); two works of one key are what replacement needs, and two processes what a race
  needs. Height 4 is past the expiry of both works plus the lag. Chunks of two
  slots put a chunk boundary inside the history of a work, and the window is
  not reached in this run.
- `journal_live`: one blockhash and two plans, so that two messages compete for
  the key, one fault, a node without lag. The scan window is never exceeded:
  that is the case `journal_head_of_line` shows to be different.
- `journal_head_of_line`: two keys are needed (one row blocks another), and a
  window of two slots that the chain outgrows. Two faults leave a signed row
  and an unsigned row behind.
- `ledger`: two workers, two generations, two attempts; a signature for each
  generation that one attempt can hold. Mistakes about replacement need two
  generations, mistakes about copies two workers.
- `scheduler`: three keys with three candidates each; ranks differ in each of
  their three components, and one candidate has another revision. Three targets for
  two sends, so that two errors block the third, one does not, and a pass ends before
  the last target; every worker, every set of urgent targets, every condition at
  the start, and two changes or rejections later. Two bidders with two bids, over three
  states of the chain: balance, measurement and settlement each in a state of its own.
- `pass_*`: more targets than sends, so that the ceiling bites; rows enough for a full
  pass and a part of the next one in `pass_lending`, for two in `pass_ceiling`. In
  `pass_lending` and `pass_live` a recovery looks at two of three rows, so that one can
  be outside the batch, in front of an outgrown row, or behind it.
- `search`: nine amounts, geometric probes 9, 4 and 1 (two slices and the
  final one), grids of three segments, a local width of one, and six probes,
  so that the budget runs out in some searches and not in others. Every
  function to {absent, zero, enough} and every single peak in every interval
  of available amounts is searched. Grids of two segments never narrow the
  interval, so three is the smallest instance that resembles the code's eight.
  Attempts are explored beside one search that has ended: both routes, own
  inventory, another market and a process that only simulates, in six configurations;
  prices of three levels, a minimum of two and limits that bind; three states of
  the chain before the one that a landing makes, so that the snapshot, the last
  simulation and the execution can each see a state of its own; one liquidation
  lands per behaviour, and no attempt begins while a signature is pending.
- `adapter`: base 8 keeps all widths and carries; two changes of an envelope, after
  which its digest may be renewed, so that one change can hide another; two IDL
  versions that differ in accounts, seeds, sizes and arguments; six locks
  (captured, frozen, without a binary, with IDLs of the other revision). Base58
  with five bits for a byte and base three, the curve over small primes that are 5
  modulo 8. Fees with rates 0, 1 and 3 of 4 over epochs 0 to 3 and Clocks up to
  slot 5: two announcements and a change of the epoch after a valuation.
  One upgrade and two captures: the second one meets what the first one left.

### Fairness

- `FlashJournal!Fairness`: every process keeps taking its steps (weak fairness
  of `Recover`, `Submit`, `LeaseLost`): the loop of `main.rs` has no exit. A
  pass ends again and again (strong fairness of `EndPass`): it makes finitely
  many submissions. A process that meets a taken lock skips the row and tries
  again next pass; strong fairness of that attempt says it is not unlucky for
  ever: a lease lasts for a few calls, a polling interval lies between attempts,
  and no two processes poll in step. The cluster produces and
  finalizes blocks. `Prepare`, faults and crashes get none.
- `KeeperPass!FairSpec`: the polling thread runs, and the cluster settles what
  was sent. Nothing forces the node or the database to come back:
  `PendingReconciled` is stated for runs in which they eventually do. Nothing bounds an
  outage either, so it excepts the rows that outgrew the readable history meanwhile.
- `Turns!TurnsFairness`: the loop takes its steps, and the cluster decides about every
  transaction (a blockhash expires; `PendingResolved` of the journal says that a row
  gets its outcome). Conditions change without fairness: nothing repairs a target that
  fails. `MCSpec` of `MCScheduler` states the same for its part.
- `ProfitSearch!FairSpec`: a sequential function that keeps running. Deadlock
  checking is off in `search`, because a search ends, and in `adapter`, because the
  chain, the epochs and the calls of a behaviour are bounded.

### What the properties say

Each property is stated in prose above its definition. The ones that carry most:

- `OutcomeMatchesChain`: what the database says of a transaction is what the
  cluster did, although it was learned from several calls made at several times.
- `SingleLive`, `ReplacementAfterFate`, `ImplementsGenerations`: no two
  transactions of a key can land, whatever the processes do to each other.
- `PendingResolved`: every pending row, also one a crashed process left behind,
  gets an outcome.
- `OneLiveGeneration`, `ExecutedLanded`: the same for attempts, where events
  name neither attempt nor generation.
- `SendCeiling`, `ReconciledFirst`: the limit and the order within a pass. What a pass
  must reconcile before it submits is what was settled when it began, among the oldest
  rows that one recovery looks at (100 in the code).
- `PendingReconciled`: with node, database and a live process, every submission gets an
  outcome, unless it or an older one was absent and observed more than 100000 slots ago:
  that row is an error of every recovery, and those behind it wait for good
  (`J:107`, `J:156`). TLC finds the behaviour when the exception is left out, a long outage
  that ends; `journal_head_of_line` shows it call by call.
- `Served`: a target that is due gets a turn unless errors in front of it block it, and
  the property says how many it takes: as many as the limit for liquidations and
  recoveries, one for orders and auctions, and for operator bundles as many as the limit
  of bundles that merely cannot be executed yet. Without the exception it fails for
  every worker: no loop starts where the last pass stopped. What the exception names is
  starvation that the code has and no document rules out.
- `PaysAsMeasured`: a bid does not pay for what happened after it was measured. What is
  measured is the difference of two reads, so a payment that left the wallet between them
  raises the bound by as much (`Drift`), and one that came in lowers it; the property
  says that nothing else moves it.
- `FindsPeak`: with one peak and probes left, giving up means there is nothing
  to find. It is conditional on a geometric probe having been available: when
  all were absent, the code gives up at once.
- `LandedWithinBounds`: what lands keeps the limits, in whatever state it lands. An
  internal flash liquidation carries the minimum on chain, one from inventory its
  cap and least credit. An emergency liquidation carries the reward of its *quote*,
  which may be below the minimum; for it the property is conditional (it lands in the
  state it was last simulated in, and the wallet did not move in between), and
  without either condition TLC finds a landing below the minimum: a deposit
  between snapshot and simulation counts as profit, for one.
- `AcceptsExactlyPinned`, `SignedIsPinned`: the validator is exact, and what is signed
  belongs to the frozen deployment whose IDLs the contract was made from.
- `CodecMatchesIdl`, `ManifestFindsSeeds`, `FieldsReadBack`, `KeysAreExact`: bytes,
  addresses, offsets and keys are those of the reference.
- `PlanSettles`: the index that begin names is the settlement's; accounts, payment and
  bounds stand where the program's structs have them.
- `ValuationKept`: whatever the authority announces afterwards, the transfer delivers
  what a liquidation was valued at, in its epoch and in the next.
- `RecordIsDeployed`, `CompletedValidates`: a record that validates pins a pair that was
  deployed together, and a capture that ends validates.

## 4. Proofs

| Module | Theorems | Assumption |
|---|---|---|
| `FlashJournalProofs` | `SpecIInv`, `TypeCorrect`, `OutcomesTrue`, `SentIsRecorded`, `OneLiveGeneration`, `ReplacementWaits`, `OutcomesStay`, `JournalImplementsGenerations` | `Lag <= 1` |
| `WorkerProofs` | `TypeCorrect`, `KeysAreExclusive`, `OrderDoesNotMatter`, `DrainsByPriority` (of Scheduler); `BidPaysAsMeasured` (of AuctionBid) | a lot costs an amount (`AuctionAssumption`) |
| `KeeperPassProofs` | `TypeCorrect`, `ReconcilesFirst`, `LendingCeiling` | a recovery looks at one row or more (`PassAssumption`); `Profile = "lending"` for the ceiling |
| `AttemptLedgerProofs` | `InvariantHolds`, `TypeCorrect`, `RowsPassTheChecks`, `SentIsRecorded`, `ExecutedHasLanded`, `OneGenerationLives`, `OutcomeIsFinal` | – |
| `LiquidationProofs` | `TypeCorrect`, `ReturnsWhatPays`, `MissesNoPeak` (of ProfitSearch); `LandsWithinBounds` (of PositionAttempt) | `Segments >= 3` for `MissesNoPeak`; the program answers with amounts (`ProgramAssumption`) for `LandsWithinBounds` |
| `ReadingProofs` | `RecordWasDeployed`, `CompletedIsValid` (of Capture); `TypeCorrect`, `ValuationsAreKept` (of TransferFees) | – |
| `GateProofs` | `GateInvariant`, `AcceptsOnlyPinned`, `SignsOnlyPinned` | `GateAssumption`, `IdlAssumption`, `HashAssumption` (see below) |
| `AdapterProofs` | `AdapterInvariant`, `KeysStayExact`, `AddressesAreFound` | those of Gate, `SizeAssumption`, `CallAssumption`, `ManifestAssumption`, `DeriveAssumption` (see below) |

They hold for every value of the constants that satisfies the modules' named
assumptions: any number of processes, keys, plans, heights, faults, any
validity, chunk size, window and batch.

**Journal.** None of the safety properties is inductive alone: that a row may
be expired depends on what the process has scanned, which depends on where
finality was when it started, and that it may write at all depends on holding
the lease. `IInv` (a checked invariant of run `journal`) has the parts:

- `WorkInv`: a process has a work exactly while it handles one;
- `RowInv`, `UniquePending`: signature and outcome columns agree; one pending row per key;
- `ChainInv`: blocks hold only sent transactions, between their blockhash and their expiry;
- `LocalInv`: at each control point, *while the lease is held*, the row is as the process left it;
- `ScanInv`: from `slot` on, expiry is final, and a block that holds the
  transaction has not been passed by the scan;
- `RecordedBeforeSent`, `OutcomeMatchesChain`.

The proof separates what a step does to shared data (`DataSteps`: every step is
quiet, or one of seven kinds of write; each kind keeps the data part) from what
a process knows (`Knows`): the step's own process is treated per action, and
another process's knowledge is kept because it holds the lease or because what
it knows is monotone (`Monotone`). `SingleLive` and `ReplacementAfterFate` then
follow from `OpenIsPending`: a signed row whose fate is open is pending, and
pending rows are unique. For the refinement each writing step is mapped to
`Sign`, to `Resolve` or to a stutter.

`Lag <= 1` is needed in `ScanInv` alone: `recover` starts the scan when the
block height is *greater than* the last valid height, and that one block is
the margin a later call may lag. With `Lag = 2` the property fails (`journal_pool`).

**Polling loop.** `ReconciledFirst` needs `Recovered`: nothing is sent before the recovery
of the pass, and until then the rows that were due when the pass began stay in the batch
and settled, since new rows are younger and nothing takes an older one's outcome back. So
a recovery that goes on gives all of them an outcome, and one that meets an outgrown row
ends the pass.

**Scheduler.** `Inv` is the conjunction of the four properties; `RankOrder`
(the rank is a strict weak order) is what the steps rest on.

**Polling loop.** `IInv` adds to the type invariant that from recovery on
nothing due is pending unless the pass failed (`Recovered`), and that sends are
bounded by the attempts counted (`Counted`), which the second stage of the
leverage profile breaks.

**Attempts.** That the safety properties are inductive fails for two reasons: an
event says nothing of the attempt it is appended to, and a signature that was given
up must be dead. `IInv` (a checked invariant of run `ledger`) says what phase, step,
signature and outcome say of each other (`Shape`), that rows left behind are dead
(`RowsInv`), that a copy with the number and the sequence of the stored attempt *is*
that attempt (`CopiesInv`), and that an event is true of the signature its worker's
copy records (`EventsInv`). The reducer is treated once: `ApplyFollows` says what one
accepted event can make of an attempt, and the actions cite it.

**Profit search.** `BaseInv` is type correctness with two parts: what was visited and
did not end the search is below the minimum (`Verdict`), and from the first interval on,
its ends are amounts around what was scored (`Bracket`). `SearchInv` adds, for a
function with a single peak, that the peak stays within the interval (`PeakKept`) and
that a grid or a local scan in progress has probed or still lists each of its amounts
(`Progress`). That a best probe exists (`BestIsBest`) is an induction over the finite set
of scored amounts, by way of a smallest counterexample (`Greatest`); the interval around
it keeps the peak because the next probes on either side are lower or absent
(`Narrowing`). `Segments >= 3` is needed where the refinement leaves its loop because
the grid did not narrow the interval: with three or more that means that the width is
not above the number of segments, so that the grid has visited every amount
(`GridExhausts`). Grids of one or two segments can stay as they are over a wide
interval, and `FindsPeak` is false for them.

**Captures.** `CaptureInv` follows a capture from the requests to the record. While it
reads, what was read of the programs so far was deployed as a pair and the target
directory holds it (`ReadInv`); while it copies, repository and lock in memory agree with
the target for the programs so far (`CopyInv`); afterwards each file that was written
is about the lock (`WriteInv`), and a deployment record, whenever there is one, names
pairs that were deployed (`RecordInv`). `RecordInv` alone survives an interruption,
together with the types; this is why `RecordIsDeployed` needs the validation as well.
Nothing is assumed of the programs but that there is one.

**Attempt at a position.** `AttemptInv` carries the limits from the plan (`PlanInv`:
`Kept`, and `Floored` before it can be submitted) to the signature (`SignedInv`, with
what the last simulation measured, `Checked`) and to what landed, over a chain that
only grows (`Grows`).

**Gate.** `AcceptsExactlyPinned` compares the validator, which walks, decodes and compares
in the order of the code, with `EnvelopeIsPinned`, which says of no order what an envelope of
the contract is. The proof follows the functions of the validator from the inside out:

- the walk over the accounts (`AcceptedArePinned`, `PinnedAreAccepted`): by induction over
  the expected accounts, the walk is at the place of the next account that is present; that
  a pinned list is also accepted rests on the generator's check that the names of an
  instruction's accounts differ (`SpecificationIs`), without which the walk could take an
  account for an absent optional one;
- one instruction (`InstructionVerdict`); the payload of a delegated close, whose decoder
  and writer are inverse to each other in both directions (`DecodedIsWritten`,
  `WrittenIsDecoded`, from the same for u16 and u32); the composition
  (`CompositionVerdict`); the envelope (`Verdict`).

These are right about envelopes of one shape (`WellFormed`: lists of accounts and of data,
no hooks or two, hooks with 16 bytes of data and fewer accounts than a u16 counts). That
every envelope that `BuildValidEnvelope` makes has this shape, and that each of the changes
keeps it, is the inductive part: `GateIInv` adds to `SignedIsPinned` the shape of the
envelope in hand and that the deployed pair has passed the constructor of the validator.
For what was signed, `DeployableIs` shows that the constructor's comparison of the programs
and IDL hashes is enough to know that the contract was made from the lock's own IDLs.

Assumed: accounts of an IDL and their groups are lists, shorter than a u16 counts, and a
byte has more than two values, so that the length of a hook's data fits a u32
(`IdlAssumption`); a discriminator has eight bytes, and two IDLs with one hash are one IDL
(`HashAssumption`); the contracts exist, and every change is one of the invalid fixtures or
of the others that `Gate` lists (`GateAssumption`). The number of locks, IDLs, deployments and
changes is not bounded. The functions of the validator that are recursive over a list are
recursive functions; that they exist is proved once (`Recursion`), and every induction is a
smallest counterexample among numbers (`Upwards`).

**Keys.** `KeysAreExact` is about pure calls, so its invariant (`AdapterIInv`: what is in
hand is a call, or Gate's invariant holds of it) says little; the work is in the operators.

- *Base58.* `Num` is the number that digits are in a base. Multiplying and adding with a
  carry (`MulAdd`) writes digits of the number it should (`MulAddIs`) and never a leading
  zero, so `Converted` is that of a number, and a number has one numeral without leading
  zeros (`OneNumeral`). Zeros in front are written one for one. `KeyKept` and `StringKept`
  put this together for keys and strings of every length, in any two bases; the encoder of
  `resolution.ts` starts from one zero digit and that of `liquidation.ts` from none, and
  both write the same.
- *The curve.* `ModPow` is the power (`ModPowIs`), by induction over the halves of the
  exponent. Fermat's little theorem (`Fermat`) is proved from the product of the factors
  1 to p - 1, which a multiplication permutes (`Rearranged`), and cancelling (`Cancel`, from
  Euclid's lemma). With p = 5 modulo 8, two is not a square (`TwoIsNoSquare`), so one of the
  two candidates is a root whenever there is one (`RootFound`); and the quotient of the
  numerator by the denominator is a square exactly when the equation of the curve has a
  solution (`Divided`, `PointIs`).

Assumed: both bases have two digits or more (`SizeAssumption`); keys and strings are not
empty and have digits of their base, and the size of a field is a prime that is 5 modulo 8
(`CallAssumption`), as 2^255 - 19 is. The parameter d of the curve may be any number: that
it is no square is needed by the program's curve, not by the comparison.

**Addresses.** `ManifestFindsSeeds` is about pure calls as well, but about an invariant of
the generator's loop: it walks all accounts of all instructions and merges their usages into
recipes. `Held` says what every prefix of that walk has: recipes with keys of their own, a
recipe for every usage so far, and for each usage (`Stands`) an account of an instruction
whose seeds and program are the recipe's and whose name is in its key. A usage with other
seeds gets the longer key, and a recipe that already has that key has it from the same
instruction and name, hence from the same account (`OneAccount`: a name is used once in an
instruction, as the generator of the contract asserts); so the merge keeps `Held` (`AddUsageKeeps`,
`AddRecipesKeeps`, `RecipesHeld`). The walk meets every instruction (`InstructionOrderHas`).
So the recipe of an account has its seeds (`RecipeFound`); the constructor of the resolver
has refused recipes with two inputs of one name, so each input is what the path of its seed
stands for (`InputsAre`), and the bytes hashed are the program's (`RecipeDerives`). Which
digests are points of the curve is a constant: nothing is assumed of it.

Assumed: the generator's own assertions hold for the contracts that were made, and the
seeds of an account are a list (`ManifestAssumption`); a call for an address asks for a
known instruction with values of the types that the IDL gives to its seeds, and inputs
given besides have names that no seed has (`DeriveAssumption`). That the constructor
accepts a manifest is not assumed: a pair that it refuses is not deployed.

**Transfer fees.** The invariant says, besides what a valuation is worth now, what it
is worth under the fee that is scheduled for the next epoch (`Ahead`), and that two
Clock accounts of one slot are the same account.

**Auction bid.** `AuctionInv` carries the bound from the measurement to the bid
(`Bound`) and to what settled (`Paid`), over a chain that only grows (`BoundStays`).

**Only model-checked:** liveness (`PendingResolved`, `OutageShows`,
`PendingReconciled`, `Served`, `Terminates`), since the prover handles neither fairness
nor ENABLED, and `CodecMatchesIdl`, `FieldsReadBack` and `PlanSettles` of
the adapter. Their reference definitions are recursive over types (`Codec`, `AccountLayout`
and `MCAdapter` use RECURSIVE operators, with which
the prover loses its SMT backend), and what a recursive definition computes for every input
would need the induction theorems over an operator parameter, which the installed provers
cannot instantiate. Where an induction is over numbers or finite sets, as in the walk of the
validator (`Upwards`) and among the scored amounts of a search (`Greatest`), it can be
replaced by a smallest counterexample in a well-founded relation; types that contain
types have no such order that the model could name without the recursion itself.

## 5. Where code and documents disagree

1. **`journal_pool`** – `J:103` and following read height, slot and blocks in
   separate calls with no minimum context slot. Behind a pool whose nodes are two
   blocks apart, a transaction that landed in the last valid block is recorded
   as `expired_absent`; `J:39-41` promises "complete finalized block history".
2. **`journal_head_of_line`** – the recovery loop leaves at the first row that
   fails (`J:156`), and a row whose history outgrew 100000 slots fails for
   ever (`J:107`): no younger row is reconciled, although `J:39` says "every
   pending generation".
3. **`pass_ceiling`** – `workers/leverage/mod.rs:23` subtracts executed reports
   from the orders' limit, but a fresh submission is reported as skipped: a
   leverage pass can send up to twice the ceiling that `config.rs:30-31` describes.
4. **`pass_paused`** – below the balance floor the pass returns before the
   journal is reconciled (`main.rs:285`); `docs/threat-model.md:43-46` says that
   submitted signatures continue through reconciliation.

Observed while modelling, without a run of their own:

- The contract generator writes 52 bytes of data for the fixture of `begin_hlp_flash`
  and 33 for `close_insolvent_hlp`; IDL and codec say 44 and 25
  (`generate-instruction-contract.mjs:240`). `docs/instruction-envelopes.md:57` says
  argument bytes come from the native codecs; the validator reads the discriminator only.
- `pda.program` of the IDL is not read: the recipe of
  `leverage_delegate:dusk_event_authority` has the wrong program. The Rust keeper
  derives this account by hand (`workers/leverage/orders.rs:141-144`).
- The fixture "malformed delegated hook hex" also lacks `closeBps` and is refused for
  that, before the hook is looked at. `docs/adapter-codecs.md:10` counts eleven
  instructions; the codec has more.
- An account whose type has the same size in another IDL passes the reader of fields;
  the properties ask for a refusal only where the sizes differ.
- Programs are captured one after another with no joint re-check: each pair was
  deployed, not necessarily all at one time. A capture that stops may leave the
  scheduler and lifecycle fixtures at the oldest revision.
- `docs/runbooks/lending.md:30` says "Emergency execution independently requires
  `KEEPER_LIQUIDATION_MIN_PROFIT`"; the instruction carries the reward of the quote and
  the minimum is checked in simulation. `docs/flash-liquidation-migration.md:96` says
  "minimum simulated", which is what the code does.
- `docs/threat-model.md:37-38` and `docs/architecture.md:35` ask a bid for a minimum
  profit, an exit and a capped exposure; the revenue worker has none of them.
  `docs/architecture.md:7` asks for a lease and an attempt row before signing; it has
  neither, and two of its processes bid for one lot. A bid whose answer is lost is not
  counted against the limit.
- An order that is an error ends the stage of the orders in every pass, its own pending
  signature included (`workers/leverage/orders.rs:587-589`); the other workers report
  the error and go on. A bundle that is not ripe counts against the limit
  (`workers/lifecycle/mod.rs:229`).
- The reducer accepts a retryable failure while the result of a submission is unknown
  (`keeper-core/src/lifecycle.rs:217`); the next attempt then signs while the old
  transaction can land. `OneLiveGeneration` is therefore stated per attempt, as the
  tables do; no process of the repository opens a second one.
- The first fetch of `fresh` accepts any slot, so the re-read before signing may be
  older than the snapshot it confirms.

## 6. Plan

Done: FlashJournal with Generations and its proofs; Lifecycle, AttemptLedger and
their proofs; Scheduler and its proofs; KeeperPass and its proofs; ProfitSearch and
PositionAttempt with their proofs; TransferFees and its proofs; the TypeScript adapter,
with the proofs of Gate, keys and addresses; Capture and its proofs; Turns; AuctionBid and its proof.

Next, the most important first:

1. **OrderAttempt** (`workers/leverage/orders.rs`): capture and evaluation of a
   conditional order; **HlpRecovery** (`workers/hlp/`).
2. **Operators** (`workers/lifecycle/`): which instructions a pending bundle becomes,
   and rotation and archival over repeated passes.
3. The cache of fee notices that the priorities of `Turns` are derived from.
4. **Wire** (compact-u16, order of account keys), **RpcRetry**.
5. **SchedulerTwins**: the Rust and TypeScript schedulers fed the same calls, with
   their different orders on identifiers and ties (`docs/architecture.md`).
6. Journal revisions: rows of an older revision after a redeployment.

Theorem to add: that the readers of fields find what was written (`FieldsReadBack`) for
the types without nested ones.

### Not modelled

- `artifacts/dusk.ts` and `artifacts/leverage_delegate.ts`: type declarations of an
  earlier revision that nothing imports. They are three quarters of the lines of the
  repository's TypeScript and JavaScript; the IDLs in use are the JSON files, of
  which `MCIdls` holds two versions.
- The Rust adapter: the twin of the TypeScript one, tied to it by conformance fixtures.
- Bank fixtures and the rehearsal script: they run an SDK in a local validator and
  store what it answers.
- Parsing of configuration and command lines, formatting of logs and health bodies,
  message compilation, the classification of simulation logs, and the TypeScript
  process, which runs no worker: input and output without state of their own.
- A step that hangs or panics (`main.rs:140`): the model lets it fail.
