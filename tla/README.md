# Verification of the blockchain transaction simulator

TLA+ models of the service in `src/`, the TLC runs that check them on small
instances, and TLAPS proofs of the main safety properties for every value of the
constants. `PROJECT.json` maps every definition to the source lines it models.
Paths below are relative to the repository's `src/` program directory unless they
start with `docs/` or `test/`.

## The system

A Fastify API writes a ledger in Postgres, submits transfers to a chain, and hands
each one to a BullMQ queue in Redis. One or more worker processes do the rest.

| Part | Code | Module |
|---|---|---|
| Transfer request | `services/transfer.service.ts`, `ledger.service.ts` | `TransferPipeline` |
| Ledger and its state machine | `repositories/transaction.repository.ts`, `domain/transaction/*` | `TransactionStateMachine`, `TransactionLifecycle`, `TransferPipeline` |
| Confirmation queue and worker | `workers/confirmation.*`, `queues/transaction.queue.ts` | `TransferPipeline` |
| Expiration, submission recovery, pending recovery | `workers/*.processor.ts` | `TransferPipeline` |
| Adapters (what `getTransaction` answers) | `blockchain/{evm,bitcoin,solana}/*.adapter.ts` | `TransferPipeline` |
| Scheduler lease, five leased schedulers | `scheduling/*`, `workers/*.scheduler.ts` | `LeasedScheduler` |
| Worker process, RPC timeout and retry | `workers/confirmation.queue.runner.ts`, `blockchain/rpc.executor.ts`, `utils/retry.ts` | `WorkerProcess` |
| Transactional outbox relay | `services/outbox-event.service.ts`, `queues/outbox-relay.queue.ts` | `OutboxRelay`, `EventDelivery` |
| Event listener (ERC-20 `Transfer` logs) | `workers/event.listener.ts`, `blockchain/evm/log-windows.ts`, `services/transfer-event.service.ts` | `EventIndexer` |
| Balance snapshots and drift sweep | `repositories/balance.repository.ts`, `services/balance-{sync,reconciliation}.service.ts`, `workers/balance-drift.processor.ts` | `BalanceSnapshots`, `MonotoneProjection` |
| Idempotency keys | `api/middleware/idempotency.guard.ts`, `services/idempotency.service.ts` | `IdempotencyKeys`, `ApiServer` |
| Wallets and proof of ownership | `services/{wallet,wallet-ownership,custodial-wallet}.service.ts`, `api/routes/wallet.routes.ts` | `WalletRegistry`, `ApiServer` |
| Tenants, API keys, users, sessions, audit log | `auth/*`, `services/{auth,tenant,audit-log}.service.ts`, their routes and middleware | `ApiAccess`, `ApiServer` |
| Tokens, HTTP formatting, observability, key custody | see "Not modelled" | |

The request creates a PENDING row, broadcasts, stores the hash (SUBMITTED) and
enqueues a job. A worker reads the receipt, claims the row (CONFIRMING) and
persists CONFIRMED with an outbox row in one database transaction. Three sweeps
repair what crashes leave behind: expiration (CONFIRMING too long), submission
recovery (re-enqueue SUBMITTED) and pending recovery (PENDING whose request
died), which looks for evidence among the rows the event listener writes. The
listener also refreshes balance snapshots, which a fourth sweep compares with the
chain. Each sweep, and the outbox relay that moves outbox rows into their queue,
runs in every worker process under a Postgres lease.

## Modules

**`TransactionStateMachine`** is the transition table and terminal statuses.
**`TransactionLifecycle`** is the abstract specification of a ledger row: created
once, moved along allowed edges only, its event written in the confirming step.

**`TransferPipeline`** is the core. State: the `Transaction` rows (`status`,
`txHash`, `createdAt`), outbox rows per transaction (`events`), the place of each
request (`api`), what the chain knows of each hash (`chain`), the `TokenTransfer`
rows (`transfers`), the queue (`job`), worker slots (`handler`) and the batches of
the sweeps. One action per awaited call: between any two a process may crash, and
any of them may throw, also *after* it took effect (a lost answer). Every
repository write is one conditional UPDATE, as in the code. `Faults` selects which
failures an instance allows. Time is an age in three classes (young, past
`graceMs`, past `failAfterMs`) and an `overdue` flag. BullMQ is external: job ids
deduplicate while the job exists, completed jobs vanish, failed ones stay, a lost
lock redelivers. The hash of request `t` is `t`.

**`LeasedScheduler`** is `acquire`/`renew`/`release` and the start, run, renew and
stop protocol the five schedulers share (mapped on the expiration scheduler). An
`acquire` reaches Postgres in one step and is answered in another, so an answer can be
late or lost; so can those of `renew` and `release`. All deadlines count down, so no
clock grows. **`WorkerProcess`** puts it into the process
that runs it: boot, one confirmation job whose RPC call is timed out and retried with
doubling sleeps by `executeRpc`, a shutdown that stops the scheduler without waiting
for its cycle and waits for the job, exit, and a kill at any point.

**`OutboxRelay`** is `relay()` in overlapping processes: claim (which writes
nothing), `addBulk`, mark. Which open rows a limited claim returns is left open,
because `createdAt` order is not the order in which rows become visible. `src/` has
no consumer yet; it is modelled from the options of the queue, and nothing is assumed
of its coming. **`EventDelivery`** is
its abstract specification: at-least-once delivery of committed events and no others.

**`EventIndexer`** is `processTokenEvents` with `scanLogWindows` for one token: load
the cursor, read the head, fetch windows, shrink a rejected range, write rows, sync
balances, move the cursor. Processes overlap freely, since `processingTokens` is
local to each and `markSuccess` overwrites. The chain grows and reorganises: the
last `k` blocks give way to `k + 1` others. A balance sync is done or not done here.
The logs of a window are handled by block, those of one block in any order. A stop or a restart forgets the
learned range.

**`BalanceSnapshots`** is what such a sync writes: the conditional update, then a create
that may lose a race and with it its balance, by overlapping listeners that replay
windows; and the drift sweep with its id-ordered pages, the cursor it caches as its
frontier, the comparison of each row with the chain at that block, the gauge and the
errors of each read. The gauge is the `latest_sweep` series of
`monitoring/recording-rules.yml`, which the alerts read. A wallet is registered before its first transfer or late. A balance
is the set of blocks that changed it, so no two balances look alike.
**`MonotoneProjection`** is its abstract specification: a row only moves to a later
block and shows what the chain holds there.

**`ApiServer`** is one API process serving concurrent requests, each a chain of awaits
that may fail. Its three parts write disjoint tables, so a behaviour exercises one of
them (`route`). **`IdempotencyKeys`** is `withIdempotency`: look, acquire over the unique
key, run the handler, mark, replay. The guard is modelled as written and tested; no
route calls it yet. **`WalletRegistry`** is challenge and response, look-then-insert over
the unique address, spelling of addresses, custodial creation. The message that is signed
names neither user nor tenant, so the model assumes that the holder of an address signs
only challenges they asked for; the switch that requires the proof is set or not for the
whole behaviour, so wallets from before it was switched on are outside. **`ApiAccess`** is tenants
with their default key, keys issued, verified, expired and revoked, registration,
login, refresh, and the audit entries that are written after the fact and may be lost.
The entry of a login tells that the credentials were right: the session is stored after it.
Hashes and signatures are perfect.

`MC*` modules give the instances. Definitions whose comment begins with "Mutant" are
wrong variants of the definition after them; substituting one must break the property
`PROJECT.json` pairs it with.

## Runs

| Run | Instance | Shows |
|---|---|---|
| `pipeline_workers` | 1 Solana transfer, 2 slots, 2 attempts, crashes, errors and stalls | `AnnouncedOnce`, refinement `LifecycleSpec` |
| `pipeline_twins` | 2 indistinguishable transfers, crashed or slow requests, no worker | `OneRowPerHash`, `HashIsFinal` |
| `pipeline_live` | 1 EVM transfer, 1 slot, crashes and errors of requests, workers and sweeps, fair | `ConfirmingMeansSucceeded`, `PipelineInv`, `ConfirmingResolves`, `SubmittedMovesOrParks`, `OrphanResolves` |
| `worker_process` | 2 processes, one with jobs, lease of 3 ticks renewed every tick, 1 retry, kills, a database error, late answers of `acquire` and `renew`, fair | `GrantIsBacked`, `ExclusiveWhileGranted`, `HealthyCycleKeepsLease`, `ShutdownInTime`, `ShutdownCompletes`, `LeaseIsFreed` |
| `outbox` | 2 relays, 2 events, limit 1, 2 attempts, 1 failure, fair | `NothingLost`, `EveryEventPublished`, refinement `DeliverySpec` |
| `indexer` | 2 processes, 1 log, 7 blocks, ranges 6 shrinking to 3, 2 windows, 1 confirmation, reorganisations of depth 1, 1 failure, fair | `NoGap`, `RowsAreCanonical`, `Indexed` |
| `balances` | 2 transfers, 1 failure, pages of 1; 2 listeners on one row, or 1 listener and 2 rows; fair | `NoFalseDrift`, `SnapshotInv`, `WholeSweep`, refinement `ProjectionSpec`, `SnapshotsSettle` |
| `api` | 3 requests on 1 key with 2 payloads and 2 failures; or 2 registrations of 2 users with 1 challenge; or 3 calls on 2 tenants, 2 API keys and 1 email | `OneTransferPerKey`, `AnswerIsOwnTransfer`, `KeyResolves`; `OneWalletPerAddress`, `RegisteredByController`, `TakenIsToldToController`; `RevokedOnce`, `RevocationHolds`, `RevokedByOwnTenant`, `TrailIsTrue` |
| `revert_stuck`, `false_failed`, `lagging_listener`, `duplicate_event` | see "Findings" | disagreements of code and documentation |

**Bounds.** Two attempts distinguish a first, a last and a spent one; one stall, a
tolerated from a fatal one. Two slots suffice for a race on a row. Two identical
transfers are the least the matching heuristic can confuse. A lease of three ticks
renewed every tick keeps the code's ratio. With a limit of one and two events a
batch leaves something open; seven blocks take three windows of three, so a cycle
that stops at two must be continued. Two listeners race for the create of a row; a
page of one row makes the sweep of two rows turn a page; a gap of two quiet blocks
lets a row be older than the frontier. Three requests are an original, a retry and a
retry after a failure; three calls are an issue, a use and a revocation in any order.
The proofs remove these bounds for the safety properties listed below. Deadlock is
checked where the system never stops (`indexer`, `balances`); the others end when every
transfer, event or request is done, or every process is gone.

**Types.** The type invariants of all modules are proved, so the runs do not repeat them;
`JobsHaveHash` is part of `PipelineInv`, and `TerminalIsFinal` follows from `LifecycleSpec`.

**Chains.** The runs have EVM and Solana transfers; what the Bitcoin adapter answers is
covered by the proofs, which hold for every chain.

**What the properties leave out.** `HealthyCycleKeepsLease` is about cycles whose scheduler
is not stopped, whose `acquire` was answered with more than a renewal interval of the lease
left and whose renewals get through; the other cycles can outlive their lease, and
`ExclusiveWhileGranted` then speaks of the granted time only. `KeyResolves` exempts a
request that was cut off: its process died, or an await outside the `try` of the guard
threw. `OneTransferPerKey` does not relate two keys. `RegisteredByController` is about who
registers, not when: that an expired token is refused is in the model (`opens`), not in a
property. `RevocationHolds` is about requests that arrive after the answer;
one that verified the key earlier still registers. `NoFalseDrift` and `SnapshotsSettle`
exempt wallets registered after their first transfer, for which a lost create may drop the
newer balance. `OrphanResolves` is about a token with a cursor.

**Fairness.** Promises and timers of a live process run (weak fairness on each
step), time passes, and an RPC call ends, if only by its timeout. BullMQ serves its
queue and checks stalled jobs. A sweep that returns every interval is not struck down
every time, and a listener asked again and again is not stale every time: strong
fairness on those row steps. Nothing is assumed of crashes or errors in the pipeline;
the other models bound their number. The chain is never assumed to decide, nor the
consumer of the outbox queue to come: `EveryEventPublished` needs the relays only.

**`Indexed` needs wide windows.** A scan restarts one block before the cursor. With
a range of one block the first window moves the cursor back; when range times
windows per run is at most two, no cycle gains a block, although the configuration
accepts these values. With ranges below three, two overlapping processes can also
hold each other back. The run uses a provider limit that leaves ranges of three;
the defaults are 2000 blocks and 25 windows.

**`ShutdownInTime`** bounds the wait for the job by all timeouts and sleeps of one call.
It is about EVM calls: the Bitcoin and Solana adapters set no timeout.

## Proofs

| Module | Theorem | Statement |
|---|---|---|
| `TransferPipelineTypes` | `PipelineTypeCorrect` | `TypeOK` |
| `TransferPipelineProofs` | `PipelineInvariant` | `PipelineInv` |
| | `ConfirmedIsAnnouncedOnce`, `ClaimsFollowSuccess`, `HashesAreUnique`, `QueueKnowsHashes` | `AnnouncedOnce`, `ConfirmingMeansSucceeded`, `OneRowPerHash`, `JobsHaveHash` |
| | `HashNeverChanges`, `TerminalRowsAreFinal` | `HashIsFinal`, `TerminalIsFinal` |
| | `PipelineImplementsLifecycle` | `Spec => Lifecycle!Spec` |
| `LeasedSchedulerProofs` | `LeaseTypeCorrect`, `GrantAlwaysBacked`, `LeaseExclusive`, `HealthyCycleKept` | `TypeOK`, `GrantIsBacked`, `ExclusiveWhileGranted`, `HealthyCycleKeepsLease` |
| | `ProcessRunsScheduler`, `ProcessesExclude` | `WorkerSpec => Spec`, so the above hold of worker processes |
| | `WorkerTypeCorrect`, `ShutdownIsBounded` | `WorkerTypeOK`, `ShutdownInTime` |
| `OutboxRelayProofs` | `NoEventIsLost`, `RelayTypeCorrect`, `CopiesAreBounded` | `NothingLost`, `TypeOK`, `CopiesBounded` |
| | `RelayImplementsDelivery` | `Spec => Delivery!Spec` |
| `EventIndexerProofs` | `IndexerInvariant`, `NoGapBehindCursor`, `NoOrphanedRow` | `TypeOK /\ IndexerInv`, `NoGap`, `RowsAreCanonical` |
| `BalanceSnapshotsProofs` | `SnapshotTypeCorrect`, `SnapshotInvariant`, `SweepReportsNoFalseDrift`, `SweepIsWhole` | `TypeOK`, `SnapshotInv`, `NoFalseDrift`, `WholeSweep` |
| | `ImplementsProjection` | `Spec => Projection!Spec` |
| `ApiRouteProofs`, `ApiProofs` | `ApiSafe` | `TypeOK /\ ApiInv` |
| | `IdempotencyHolds`, `ReplaysAreFaithful` | `OneTransferPerKey`, `AnswerIsOwnTransfer` |
| | `OwnershipIsProved`, `TakenIsNoOracle`, `AddressesAreUnique` | `RegisteredByController`, `TakenIsToldToController`, `OneWalletPerAddress` |
| | `OneRevocationWins`, `RevocationIsFinal`, `RevocationIsOwn`, `AuditDoesNotLie` | `RevokedOnce`, `RevocationHolds`, `RevokedByOwnTenant`, `TrailIsTrue` |

They hold for any number of transfers, workers, attempts, processes, logs, wallets,
requests, keys and failures, and for every choice of `Faults`, from the named
assumptions on the constants only (`PipelineAssumption`, `LeaseAssumption`,
`WorkerAssumption`, `RelayAssumption`, `IndexerAssumption`, `SnapshotAssumption`,
`KeyAssumption`, `WalletAssumption`, `AccessAssumption`).

*Pipeline.* None of the four safety invariants is inductive alone. `PipelineInv`
adds what each process carries from one await to the next: a hash is written exactly
when a row leaves PENDING for SUBMITTED; nothing is enqueued before that; a handler
about to claim, re-check or persist has seen the chain's success, which is final.
Its parts are `RowInv` (one row with its request and sweeps) and `HandlerInv` (one
slot); frame lemmas (`QuietInv`, `StatusInv`, `ChainStepInv`, `SlotInv`) say what each
kind of step leaves alone, so that an action only has to show what it changes.
The refinement follows because each repository write takes an edge of the table, and
only the confirming step writes an event; a terminal status has no edge, so
`TerminalIsFinal` is a consequence.

*Lease.* `GrantIsBacked` is inductive with the types: takeover needs an expired row,
renewal and release ask for the owner. Exclusion follows, since two grants would
make two owners. It covers work within the granted time. A cycle stays within it
(`HealthyCycleKeepsLease`) because its next renewal is due, or under way, while time is
left (`RenewsInTime`): so it is when the answer of `acquire` comes with more than a renewal
interval left, and a renewal that gets through before the next tick restores it. `shaken`
records when one of these fails. A worker process
implements the scheduler because the job and the RPC call never touch the lease.

*Shutdown.* `ShutdownInTime` needs a budget (`WithinJobTime`): the ticks since the signal and
the most the job can still take, the rest of this call or sleep, the timeouts of the
calls left, and the sleeps left, which sum to `RetryDelay * (2^RpcRetries - 2^attempt)`.
A tick moves one unit from the second to the first; a retry spends what it was counted
for. That powers of two double comes from counting subsets (`PowerCounts`).

*Outbox.* `NothingLost` needs that a relay about to mark has its whole batch in the
queue (`Enqueued`), and that a job only leaves the queue by completing. For
`CopiesBounded`: while a row is open, every copy of its event is owed to a relay about
to mark it or to a failure; once it is published, only relays that still hold it in a
batch can add one. The refinement maps what is sent to the ids that have a job: a batch
consists of rows, `Enqueued` allows its mark, and a throwing consumer or a failing relay
is a stutter.

*Indexer.* `NoGap` needs `ScanIsCovered`: everything before a scan's window is
indexed, and what its window lacks is still in its hands. That rests on blocks with
`Confirmations` confirmations being final, from the assumption
`ReorgDepth <= Confirmations`. The default of 0 confirmations is therefore covered
for chains that never reorganise only.

*Balances.* A row is written with a balance read at the block it is stamped with, and
only over an older block, which gives the refinement. `NoFalseDrift` needs that rows
keep up with the cursor and the frontier (`Covered`), and that in turn needs two facts
about a scan: what its window holds is in the rows or still to do (`ScanCovers`), and a
listener about to create a row holds the first transfer of its wallet, or one that the
row has by now (`CreatesFirst`), so that a lost create loses nothing. Both are about
wallets registered before their first transfer; for a late one the sweep may report
drift. `WholeSweep` needs `PagesByKey`: a row that was there at the start and is not
checked is on the page or has a larger id than everything on it, and checked ids are at
most `afterId`. A page of the first rows by id leaves nothing smaller behind
(`FirstRowsLead`), and a short page leaves nothing (`ShortPage`).

*API.* The parts of `ApiInv`, `KeyInv`, `WalletInv`, `AccessInv` and `TrailInv`, each
say what a request still holds from its last await: at most one request runs the handler
of a key; a registration about to insert has verified its proof; a key that a call
revoked, or found revoked when it came, stays revoked by the same call
(`revokedBy`, which makes two revocations of one key impossible); a call about to audit has
done what it will report, itself. `OneWalletPerAddress` is inductive with the types: the unique
index compares what is stored, and equal addresses of a chain are stored alike, since a
bech32 spelling is recognised in either case (`WalletAssumption`). Addresses of
different chains are different even when they coincide in lower case. One lemma treats
the arrival of a request, one the rest of it.

Model-checked only: liveness, which is beyond the prover (`ConfirmingResolves`,
`SubmittedMovesOrParks`, `OrphanResolves`, `ShutdownCompletes`, `LeaseIsFreed`,
`EveryEventPublished`, `Indexed`, `SnapshotsSettle`, `KeyResolves`). Every safety property of
a passing run is a theorem. `IndexerInv`, `ApiInv` and `CopiesBounded` are only proved: the
first two are what the properties of their runs follow from, the third says how far the
duplicates of `duplicate_event` can go.

## Findings

Each is a run that TLC refutes; `PROJECT.json` quotes the contradicted text.

- `revert_stuck`: a failed receipt is met while the row is SUBMITTED, a status
  `markFailed` does not accept; the row stays SUBMITTED.
- `false_failed`: wallet addresses are stored in lower case, listener rows in EIP-55
  form, so pending recovery misses the row of the very transfer.
- `lagging_listener`: a listener counts as healthy when it synced recently, also far
  behind the head, so pending recovery fails the row of a transfer that succeeded.
- `duplicate_event`: a relay that dies between enqueue and mark enqueues its row again.
  The queue removes completed jobs, so when the first was processed in the meantime
  its id no longer deduplicates and the event is processed twice. The comment of `relay`
  says "only one copy is ever processed", ADR-007 "a no-op, not a duplicate" and, in
  another place, "At-least-once delivery".

Seen while modelling, without a run of their own:

- When the chain decides after both jobs ran out of attempts the row stays SUBMITTED:
  failed jobs keep their ids, and expiration looks at CONFIRMING rows only.
- A request that fails after the broadcast ends in a catch block whose `markFailed`
  accepts PENDING and CONFIRMING rows. When the answer of `submitTransfer` is lost, or
  `markSubmitted` fails, the row of a transfer that may succeed becomes FAILED; when only
  the answer of `queue.add` is lost, so does a row that a worker has claimed because the
  transfer did succeed. `workers/pending-recovery.processor.ts:19` and
  `docs/runbooks/confirmation-worker-lag.md` say of such errors that the request
  "correctly marks the transaction FAILED".
- An orphaned PENDING row of a token without cursor (Bitcoin, Solana) is deferred
  for ever: `isEventListenerHealthy` is false on every cycle.
- `stop()` during a cycle ends the renewals and not the cycle, so the lease can
  expire under it; `stop()` while `acquire` is pending still starts a cycle. The first
  renewal is timed from the answer of `acquire`, so a late answer has the same effect.
  ADR-004 says "Only the worker instance that successfully acquires the lease executes
  that cycle. The lease is renewed while a cycle is running".
- EXPIRED rows always belong to transactions that succeeded on chain
  (a consequence of `ConfirmingMeansSucceeded`).
- The queue's error handler clears `worker_ready` under the label
  `confirmation-worker`, the runner sets it under `confirmation-queue-worker`
  (`docs/runbooks/confirmation-worker-lag.md` queries the former).
- The drift gauge is per process and lingers on a worker that lost the lease; only the
  recording rule drops the stale one.
- When `markCompleted` fails after the transfer, the key becomes FAILED and the client
  is told to use a new one, which makes a second transfer; a crash leaves the key
  PROCESSING for good, since `expiresAt` is never read.
- `docs/ROADMAP.md` says `withIdempotency` is wired into `POST /transactions`; no route
  calls it.
- Native tokens have no unique column, so two concurrent registrations store two.
- A login is audited as succeeded before its refresh row is stored.

## Not modelled

- Tokens and deployment safety: look first, then insert over a unique column, as in
  `WalletRegistry`; minting and the bytecode checks are input and output.
- The 100-row limit of the sweeps: a hundred rows that can never move would hide later
  ones; the models hold fewer rows than a batch.
- The patterns of the RPC error classifier: whether an error is retryable is a free
  choice in `WorkerProcess`.
- The adapters' minting, deployment and balance reads; key custody and signing:
  cryptography and chain access without state of their own.
- HTTP parsing and formatting, readiness, metrics, tracing, configuration: nothing in
  the system reads what they write.
