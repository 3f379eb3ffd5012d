# Formal models of the ortelius indexer

This directory holds TLA+ models of the ortelius indexer (`src/`). It contains
TLC configurations that check them on small instances and TLAPS proofs of their
main safety properties for every value of the constants.

## 1. The system

Ortelius copies the accepted containers (blocks, transactions) of an Avalanche
or Camino node into a MySQL database. It then decodes them into
business tables that an HTTP API serves. The parts that matter for
correctness, and their shared state, are these:

| Part | Source | State | Operations |
|---|---|---|---|
| Checkpoint store | `db/dbmodel.go` (`NodeIndex`, 2140-2225) | row `node_index(instance, topic, idx)` | `InsertNodeIndex` (insert, a duplicate ignored, with `upd` an unconditional UPDATE), `UpdateNodeIndex`, `QueryNodeIndex` |
| Durable queue | `db/dbmodel.go` (`TxPool`, 2040-2120), `stream/processor.go` | table `tx_pool`, id = hash(MsgKey:Topic) | `InsertTxPool` (a duplicate is success), `RemoveTxPool` |
| Producer | `stream/producer_chain.go` | in memory: `producerChainContainer{nodeIndex, ...}` | `Listen` → `runProcessor` → `newContainer` (insertNodeIndex, getIndex) → loop `ProcessNextMessage` (GetContainerRange, UpdateTxPool per container, updateNodeIndex) |
| Consumer | `stream/consumer_db.go` | in memory: the row being consumed | `Process` → `Consume` (persistConsume in a transaction, retried on lock errors; `Failure` otherwise); the row is deleted afterwards |
| Decoders | `services/indexes/avm`, `pvm`, `cvm` writers | business tables | insert-or-ignore writes per table; `InsertMultisigAlias` deletes and re-inserts |
| Rewards handler | `services/rewards/rewards_handler.go` | `reward` table, goroutine with ticker and `doneCh` | `Start`, `runTicker`, `processRewards`, `Close` |
| Reader helpers | `services/indexes/avax/reader_util.go` | none (pure) | `addAssetInfoMap` |
| API, params, cfg, models, RPC client, CLI | `api/`, `params/`, `cfg/`, `models/`, `modelsc/`, `cmds/` | none the pipeline reads | request parsing, formatting, configuration |

The producer and consumer of a topic share only the database. The producer
writes `tx_pool` and `node_index`. The consumer reads and deletes `tx_pool`
rows and writes the business tables. Either process can crash at any point
and restart from what the database holds. Every call to the node or the
database can fail or time out.

**Hard behaviours:**
- The interleaving of producer inserts with consumer deletes of the same row.
- A crash between the inserts of a batch and its checkpoint.
- A checkpoint UPDATE that commits although the call reports a deadline error.
- The restart path that re-runs `InsertNodeIndex` with `cfg.PerformUpdates`.
- A decode that commits followed by a failed delete.
- Redelivery of a container to the decoders.

**Properties the system needs:**
- No accepted container is lost below the checkpoint.
- No row is dropped before its decode commits (guaranteed by `RemoveTxPool`'s guard and checked as `DQHeldStable`, part of `ImplementsDurableQueue`).
- The checkpoint does not move back.
- Every accepted container is eventually decoded.
- With a finite ledger, `tx_pool` eventually empties (spec §8).

## 2. Modules

### `IngestPipeline` (producer + checkpoint + queue + consumer, one topic)

**Constants:**
- `MaxLedger` is the number of containers accepted in a behaviour.
- `MaxTxRead` is the `numToFetch` of `GetContainerRange`.
- `PerformUpdates` is `cfg.PerformUpdates`. It is not defined under `src/`, so it is a constant.
- `MaxCrashes` bounds process crashes.
- `MaxFailures` bounds failed calls.

**Variables:**
- The durable ones are `nodeIdx` (`node_index.idx`), `txPool` (the `tx_pool` ids) and `applied` (containers whose decode committed).
- Containers are identified by their ledger position. `ComputeID` is a function of the container, so a position always yields the same id.
- The producer's memory is `pState` (`down` = no container, `idle`, `draining`), `memIdx` (`nodeIndex.Idx`), `batchLen` and `inserted`.
- The consumer's memory is `cState` and `cRow`.
- `ledger`, `crashes` and `failures` are bookkeeping.

**Actions**, with the code they model:

| Action | Code |
|---|---|
| `NewContainer` / `NewContainerError` | `newContainer`: `insertNodeIndex(Idx 0, PerformUpdates)` then `getIndex`; an error after the insert returns to `Listen` |
| `ProcessNextMessageRead` / `...Error` | `GetContainerRange(Idx, MaxTxRead)`; not-ready, deadline and 404 errors are swallowed (stutter); other errors restart the container |
| `UpdateTxPool` / `UpdateTxPoolError` | one loop iteration: `UpdateTxPool` → `InsertTxPool`, a duplicate ignored |
| `UpdateNodeIndex` / `UpdateNodeIndexError` | `updateNodeIndex(Idx + len - 1)`; the error case chooses whether the UPDATE committed |
| `ConsumerRead(row)` | the consumer loop picks any `tx_pool` row (spec §4.3, modelled from the spec: that loop is outside `src/`) |
| `Consume` / `ConsumeError` | `Consume`/`persistConsume`: commit, or a non-lock error (`Failure`, row kept); a lock-error retry changes nothing and is a stutter |
| `RemoveTxPool` / `RemoveTxPoolError` | the delete after a successful decode |
| `Crash` | the process dies: memory lost, database kept |
| `Accept` | the node accepts one more container |

The decoders' effect is abstracted to adding the position to `applied`.
That is the idempotence the persist layer's insert-or-ignore gives.

### `PvmDecoder` (P-chain writer and its persist writes)

The business tables are one record `db`, with a set per table: `pvm_blocks`, `transactions_block`, `transactions`, `transactions_validator`, `reward`, `reward_owner`, `multisig_aliases` and the address tables. A ledger transaction is a record of the fields the decoder branches on: id, kind (the branch of `indexTransaction`'s type switch), alias, owners, `Auth` nil or not, and reward owner addresses. Times, amounts and bytes are left out, because every row is keyed by content.

| Definition | Code |
|---|---|
| `DecodeContainer(p)` | `Writer.Consume`: `indexBlock` in one transaction, committed only without error |
| `IndexBlock` | `indexBlock`: `indexCommonBlock`, then `indexTransaction` per tx in order (a fold) |
| `IndexTransaction`, `KindWrites`, `DecodeFails` | `indexTransaction`: `AdvanceTimeTx` returns early; each branch's writes; the unknown type fails the block |
| `InsertReward`, `InsertTransactionValidator`, `InsertTransactionBlock` | the writer helpers |
| `InsertMultisigAlias` | `Writer.InsertMultisigAlias`: query; delete if the alias exists or `Auth` is nil; alias address; per owner the row and its addresses |
| `InsertPvmBlocks` … `DeleteMultisigAlias` | the `persist` writes of `dbmodel.go` (insert, a duplicate ignored) |
| `BootstrapUpTo(d, k, j)`, `BootstrapErrorPoints` | `Writer.Bootstrap`: `indexTransaction(ChainID, tx, true)` for the genesis txs (validators, chains, address states, consortium members, then the multisig aliases with a non-nil `Auth`), then `indexCommonBlock` and the txs of each Camino genesis block. It writes through a plain session, so an error leaves the prefix written before it. The genesis UTXOs (avax writer, not under `src/`) are left out |

### `PvmIndexer` (pipeline + P-chain decoder)

`PvmIndexer` extends `IngestPipeline` and `PvmDecoder`. The pipeline's `Consume` step (the decode transaction committing) is conjoined with `DecodeContainer(cRow)`, as `consumerDB.persistConsume` calls `Writer.Consume`. Every other step leaves `db` unchanged.

The daemon calls `consumers.Bootstrap` at every start, before it starts the producer and the consumer (`magelland.go:365`). `consumers.Bootstrap` is not under `src/`, so the model lets it run `Writer.Bootstrap` at every start. `src/` does not show whether it skips a Bootstrap already done: the `key_value_store` writers (`dbmodel.go:2126-2157`), which nothing under `src/` calls, look like the marker for that. Running Bootstrap again only adds behaviours. So it is harmless for the properties that pass, but it cannot support a violation, and no finding rests on it. `booted` records that this process's Bootstrap returned, and `gDone` how many genesis txs have been indexed so far.
- `Bootstrap`: the whole genesis is indexed, and the pipeline steps are enabled.
- `BootstrapError`: any prefix is indexed, and the daemon fails (a bounded failure) and starts again.
- `CrashRestart`: the pipeline's `Crash`, with `booted` reset, so the next start bootstraps again over the database as it is.

### `AvmDecoder` (X-chain writer)

`db` holds the tables the AVM writer touches: transactions, outputs keyed by (tx, index), inputs, assets and transactions_epoch. `assets` and `transactions_epoch` have one row per id, written by `InsertAssets` and `InsertTransactionsEpoch`: an insert, a duplicate ignored, then with `cfg.PerformUpdates` an UPDATE of that row (`Upsert`). The writer's loops are folds that carry the database, `outputCount` and the running `amount`:
- `InsertCreateAssetTx` first numbers the `Outs` from 0, then the outputs of each State from the next index, writes the asset row, and calls `InsertTransaction`.
- `InsertOperationTx` does the same with the Ops.

`avax.Writer` is not under `src/`. Its `InsertTransaction` (the tx row, its `Outs` again at indices 0…, its inputs) and the output row of `ProcessStateOut` are modelled from how this writer uses them.

The actions are the following:
- `Consume(p)` (`Writer.Consume` → `insertTx` → `insertTxInternal`): any container, any number of times. An unknown type rolls back.
- `ConsumeConsensus(v)`.
- `Bootstrap` and `BootstrapError`: the genesis written without a transaction, so an error leaves any prefix of it.

### `RewardsHandler` (rewards handler and its start and close by the daemon)

**Constants:**
- `Rewards` are the rows of the `rewards` table; `Aborted` are the rows of abort blocks.
- `RewardUtxos[r]` is what `GetRewardUTXOs` answers for row `r`; `Utxos` are the outputs `ProcessStateOut` writes.
- `MaxCrashes` and `MaxFailures` bound daemon restarts and failed calls.

**Variables:** `main` (the daemon goroutine), `hState` (runTicker), `doneCh` (nil, open, closed), and the database: `rows`, `processed`, `outs`. `pending` and `cur` are the tick's result and the row being marked.

| Action | Code |
|---|---|
| `Start` / `StartError` | `rh.Start` in `runStreamProcessorManagers`: `sc.Database()`, `go runTicker`; an error returns before `defer rh.Close` |
| `DaemonReturn` (`HandlerClose`) | the daemon returns (Bootstrap error or exit signal) and its deferred `rh.Close` runs `close(r.doneCh)` |
| `RunTickerInit`, `Stop` | runTicker's set-up (it creates `doneCh`), and the select on the closed `doneCh` |
| `ProcessRewardsSelect` / `...Error` | the query for `processed = 0` (no ORDER BY: any order) |
| `ProcessAbort`, `Mark`, `MarkError` | `markRewardProcessed` for an abort row, after the UTXOs, and its failure |
| `GetRewardUTXOsError`, `NoRewards` | the node call failing, and the "no rewards" return |
| `ProcessRewardUtxos` / `...Error` | `processRewardUtxos`: all outputs written, or a failure after any subset (the writes go through `sess`, not `dbTx`) |
| `TickDone`, `Arrive`, `Crash` | the tick's end; a row written by code outside `src/`; a daemon restart |

### `RewardsLedger` (what the rewards handler promises)

The spec leaves rewards accrual to an external subsystem (§1), so this abstract module is written from the handler's own contract. It keeps only the database: `rows`, `processed` and `outs`. A row arrives (`RLArrive`). Some of its reward outputs are written while it is unprocessed (`WriteOutputs`). It is settled once, and only when its block was aborted or all its outputs are there (`Settle`). `RewardsHandler` implements it under the identity mapping on the three variables (`ImplementsRewardsLedger == RL!RLSpec`):
- `ProcessAbort` and `Mark` are `Settle` steps;
- `ProcessRewardUtxos` and `ProcessRewardUtxosError` are `WriteOutputs` steps;
- `Arrive` is `RLArrive`;
- every other step (daemon, ticker, crashes, failed calls) is a stutter.

### `AssetInfo` (`addAssetInfoMap`)

`AddAssetInfoMap` folds the per-key merge `MergeAsset` over the keys of `assets2` (`FoldSet`, since Go's map order is random). `AddAssetInfos` translates `addAssetInfos` field by field. `TokenAmount` strings are read as canonical decimals, so `addStringsFunc` is the sum of their values. `Init` enumerates every pair of maps over two assets with fields in `0..1`, and `MergedSum` is the reference, a field-wise sum.

### `DurableQueue` (the abstract queue of spec §4.1-4.4)

This module is what the checkpoint store, the producer, the queue and the consumer promise together, written from the spec. It has no workers, batches, crashes or failed calls. The ledger grows. An accepted position is enqueued, any number of times, as one entry. The checkpoint moves forward, but only over positions that are queued or decoded. A queued entry is decoded, again if it is delivered again. An entry leaves the queue only after its decode. `IngestPipeline` implements it under the mapping `queue <- txPool`, `decoded <- applied`, `checkpoint <- nodeIdx`. The producer's and consumer's memory is hidden. The property is `ImplementsDurableQueue == DQ!DQSpec`:
- a batch's `UpdateTxPool` is an `Enqueue`;
- its `UpdateNodeIndex` is an `Advance` to the last container read;
- the consumer's commit is a `Decode`;
- `RemoveTxPool` is a `Remove`;
- every other step (reads, crashes, failures) is a stutter.

### `Persist` (the writers with special duplicate handling)

Most `dbmodel.go` writers insert, ignore a duplicate key, and with `upd` overwrite the row with the same values (spec §4.5). Those are operators of the modules whose code calls them. `Persist` models the writers that do something else, and those that later steps write over. Their callers are not under `src/`, so any call, with arguments from small sets and any `upd` in `Updates`, can be made at any time and again. Each table is a function from its key to the columns kept. `call` and `ret` record the last call and what it returned.

| Action | Code |
|---|---|
| `InsertCvmAccount(a, n, upd)` | the INSERT; on a duplicate without `upd` the duplicate-key error is returned; with `upd`, `IncrBy("tx_count", n)` |
| `InsertReward(t, row)` | `INSERT … ON DUPLICATE KEY UPDATE updated_at` |
| `DeactivateReward(t, row)` | `LoadOne` of the stored owner and type (an error if none), `DeleteFrom`, then `InsertReward` of the stored row with the caller's `created_at`; the re-insert can fail after the delete |
| `InsertCamLastBlockCache(c, b, upd)` | with `upd` only the UPDATE (no row is created), without `upd` only the INSERT |
| `InsertKeyValueStore(k, v)` | the INSERT, a duplicate ignored |
| `InsertOutputAddresses(k, sig, upd)` | the INSERT (with `redeeming_signature` only if the caller has one), a duplicate ignored; with `upd` the UPDATE, which sets `redeeming_signature` only if the caller has one |
| `UpdateOutputAddresses(k, sig)` | the UPDATE of `redeeming_signature` to the caller's value, of the row if there is one |
| `InsertOutputAddressAccumulateIn(k, upd)` / `…Out(k, upd)` | the INSERT (`output_processed` defaults to 0), a duplicate ignored; the UPDATE with `upd` sets only columns that are functions of the key |
| `UpdateOutputAddressAccumulateInOutputsProcessed(o)` | `output_processed = 1` on every row of the output |
| `InsertAccumulateBalances(kind, a)` | `InsertAccumulateBalancesReceived`, `…Sent`, `…Transactions`: the INSERT of the row without a total, a duplicate ignored |
| `AccumulateBalance(kind, a)` | the balance manager (not under `src/`, modelled from spec) adds to an existing row's total |
| `StatementError` | the first statement fails: nothing written, the error returned |

`ProgressKept` is the action property that these writers, called again in any order, never undo what a later step recorded:
- a redeeming signature is cleared only by `UpdateOutputAddresses`;
- `output_processed` is never reset;
- a balance total never decreases.

`RedeliveryNoop` is the idempotence contract of spec §4.5: a call made again right after it returned ok does not fail on the duplicate key, and when it returns ok it changes no table. `InsertCvmAccount` violates it (finding 7). `RedeliveryNoopOthers` states it for every other writer.

## 3. Runs

`MCIngestPipeline` instantiates the module with the following bounds:
- `MaxLedger = 4` and `MaxTxRead = 2`, so there are two full batches and the re-read of the last container.
- `MaxCrashes = 1`.
- `MaxFailures = 2`, so there are two failed calls at any points.
- `PerformUpdates = FALSE`.

These bounds make every interesting case happen:
- a crash in mid-batch;
- a failed checkpoint update that committed;
- a row re-inserted after its deletion;
- a failed delete after a decode.

| Run | cfg | Expect | Properties | Shows |
|---|---|---|---|---|
| `pipeline` | `IngestPipeline.cfg` | pass | `TypeOK`, `NoLostContainer`, `CheckpointMonotone`, `AllDecoded`, `ImplementsDurableQueue` | crash-resume safety, monotone checkpoint, every container decoded, and every behaviour is one of `DurableQueue` (about 92k states) |
| `queue_drains` | `QueueDrains.cfg` | violation | `QueueDrains` | finding 1 below |
| `pvm_indexer` | `PvmIndexer.cfg` | pass | `IndexerTypeOK`, `AliasRowsFromOneTx`, `ImplementsDurableQueue` | under crashes, failures and redelivery, an alias's rows are always the owners of exactly one indexed alias tx, genesis included, also across restarts that bootstrap again; and the indexer, Bootstrap and decoder included, still implements `DurableQueue` (about 19k states) |
| `alias_owners_latest` | `AliasOwnersLatest.cfg` | violation | `AliasOwnersLatest` | finding 2 below (no crashes) |
| `avm_decoder` | `AvmDecoder.cfg` | pass | `AvmTypeOK`, `OutputsNumbered` | every output of a decoded CreateAssetTx or OperationTx is numbered once, consecutively, across the writer's two loops and `InsertTransaction`'s pass, under redelivery and a partial genesis (120 states) |
| `rewards` | `RewardsHandler.cfg` | pass | `TypeOK`, `MarkedImpliesWritten`, `ImplementsRewardsLedger` | a reward is marked only after all its outputs are written, also when the node has none for one row, and every behaviour is one of `RewardsLedger` (about 2.7k states) |
| `no_nil_close` | `NoNilClose.cfg` | violation | `NoNilClose` | finding 3 below |
| `reward_utxos_atomic` | `RewardUtxosAtomic.cfg` | violation | `RewardUtxosAtomic` | finding 4 below |
| `rewards_starved` | `RewardsStarved.cfg` | violation | `EveryRewardProcessed` | finding 5 below |
| `asset_info_sums` | `AssetInfoMapSums.cfg` | violation | `AssetInfoMapSums` | finding 6 below |
| `cvm_account_redelivery` | `CvmAccountRedelivery.cfg` | violation | `RedeliveryNoop` | finding 7 below |

`MCPvmIndexer` has a genesis with a validator, alias `a1` with owner `{o1}`, and one genesis block. The ledger has three blocks: `b1` creates alias `a1` with owners `{o1, o2}` and adds a Camino validator with a reward owner; `b2` changes `a1` to `{o2}`; `b3` holds an `AdvanceTimeTx` and a deposit. With `MaxTxRead = 2`, `b1` and `b2` are in one batch, so the consumer can take them in either order, and the re-read of the batch's last block redelivers it. `AliasOwnersLatest.cfg` sets `MaxCrashes = 0`, so its violation comes from the order of decoding alone; with a crash the restart of finding 7 violates it too.

`MCAvmDecoder` has two genesis assets and four ledger transactions: a CreateAssetTx with two States, an OperationTx with two outputs in one Op, a BaseTx, and an unknown type. It also has two vertices that share the OperationTx.

`MCPersist` has two addresses, two rewards with two possible owners, one chain for the block cache, one key with two values, one output `u1` and one signature `s1`, and `tx_count` bounded by 2. That allows a duplicate account insert, an `IncrBy`, a deactivation of an existing and of a missing reward, and a failed re-insert. Callers may pass either `upd`. Persist has no passing run, because its independent tables multiply the state space. Its type correctness, `DeactivateKeepsReward` and `ProgressKept` are proved for every value of the constants (section 5).

`MCRewardsHandler` has rows `r1` (two UTXOs), `r2` (one) and `r3` (abort block), with `MaxFailures = 2` and `MaxCrashes = 1`. That is enough for a failed write after some outputs, a crash between the writes and the mark, and a Close before runTicker's set-up. `RewardsHandler.cfg` and `RewardsStarved.cfg` use the node answer `MCRewardUtxosMissing`, in which `r1` has no UTXOs and `r2` has two. Deadlock is not checked for this module: the daemon really stops after Close, or after `StartError`.

**Fairness:**
- The rewards handler's steps are weakly fair as a group, and so is `Start`: runTicker loops and the ticker fires every 24 hours. The exit signal (`DaemonReturn`), crashes and new rows are not scheduled. `EveryRewardProcessed` is therefore stated as "processed, or the daemon has returned".
- Both workers loop forever: `Listen` retries and the consumer loop polls. So the producer and the consumer's commit and delete steps are weakly fair.
- Spec §5 promises that each queued entry is eventually decoded, but the consumer loop promises no order. Reading a given row is therefore strongly fair: the row can be absent or the consumer busy each time it is looked at.
- Failures are bounded by `MaxFailures`, which rules out behaviours where a call fails forever. The code gives no such bound. `AllDecoded` is therefore a statement about runs in which failures stop.

**Mutants:** each property is broken by a plausible bug.

| Mutant | Breaks |
|---|---|
| `InsertNodeIndexAlwaysUpd` (restart with `upd`) | `CheckpointMonotone` |
| `ContainerRangeUnbounded` | `TypeOK` |
| `ContainerRangeShort` | `AllDecoded` |
| `ContainerRangeOpen` (one container past the ledger) | `ImplementsDurableQueue` (`pipeline` and `pvm_indexer`) |
| `UpdateNodeIndexEarly` (checkpoint before inserts) | `NoLostContainer` |
| `InsertMultisigAliasNoDelete` (existing rows kept) | `AliasRowsFromOneTx` |
| `InsertTransactionBlockSwapped` (ids swapped) | `IndexerTypeOK` |
| `ProcessStateOutsNoIncrement` (`outputCount++` lost) | `OutputsNumbered` |
| `InsertTransactionsEpochSwapped` (ids swapped) | `AvmTypeOK` |
| `ProcessRewardsSelectAll` (the `processed = 0` filter lost) | `TypeOK` of `RewardsHandler` |
| `ProcessRewardUtxosErrorIgnored` (the row marked after a failed write) | `MarkedImpliesWritten` |
| `ProcessAbortAnyRow` (the abort-block test lost) | `ImplementsRewardsLedger` |

## 4. Findings

**1. `tx_pool` never drains.** `producer_chain.go:222` sets the checkpoint to `Idx + len(containers) - 1`. That is the last container read, so each poll re-reads it. Spec §8 describes polls `[0,1],[2,3],[4]` and an empty `tx_pool` at the end.

With the code, once the ledger stops growing the following repeats forever:
1. The producer re-inserts the last container's row after the consumer deleted it.
2. The consumer decodes that container again.

`QueueDrains` is violated. With `memIdx + batchLen` it holds.

**2. Alias owners follow the decode order, not the ledger order.** `pvm/writer.go:701` deletes all rows of an existing alias and inserts the owners of the transaction being decoded. Spec §3 says the consumer gives no order and decoders must encode dependencies in their keys. Spec §4.4 and §6 say decoding is idempotent under redelivery. TLC finds the following trace:
1. `b1` and `b2` are queued in one batch.
2. The consumer decodes `b2`, then `b1`.
3. Alias `a1` ends with the owners `{o1, o2}` of the older transaction.

`AliasOwnersLatest` is violated. A redelivered `b1`, after a failed delete, does the same.

**3. Close of a nil `doneCh`.** `rewards_handler.go:51`. `Start` only spawns runTicker, and runTicker assigns `r.doneCh` in its own goroutine. If the daemon returns right after `rh.Start`, its deferred `rh.Close` closes a nil channel and panics. The unsynchronised write and read are also a data race.

**4. The rewards transaction covers nothing.** `rewards_handler.go:180`. `processRewardUtxos` begins `dbTx`, but it passes `sess` to `ProcessStateOut`. A failure after some outputs leaves them written while the reward stays unprocessed.

**5. One reward without UTXOs starves the others.** `rewards_handler.go:144`. "no rewards" ends the tick, and the row is selected again on the next one. As the query has no ORDER BY, the rows after it may never be reached. TLC shows the lasso.

**6. `UTXOCount` is doubled, not summed.** `reader_util.go:31` is `t.UTXOCount += t.UTXOCount`. Every other field is the sum of the two maps.

**7. A redelivered `InsertCvmAccount` is not a no-op.** Spec §4.5 says a duplicate is treated as success, or as an explicit update keyed by the natural id when the caller asks for one, so that re-running a range never double-counts. `InsertCvmAccount` does neither:
- With `upd` (`dbmodel.go:1435`), a duplicate address gets `UPDATE … IncrBy("tx_count", v.TxCount)`. A decode redelivered after a crash between its commit and the `tx_pool` delete therefore adds its transactions to `tx_count` again.
- Without `upd` (`dbmodel.go:1430`, `!upd || !ErrIsDuplicateEntryError(err)`), the duplicate-key error is returned. The redelivered decode fails, and fails again on every retry.

`RedeliveryNoop` is violated in two steps, either way.


## 5. Proofs

All proofs assume the constants' `ASSUME`s only. They sit in seven modules:
- `IngestPipelineProofs`, `PvmIndexerProofs`, `AvmDecoderProofs`, `RewardsHandlerProofs` and `PersistProofs` hold the proofs about the component models;
- `DurableQueue` and `RewardsLedger` prove the invariants of the abstract specifications.

**`TypeOKThm`: `Spec => []TypeOK`**, the pipeline run's type invariant, as a corollary of `TypeCorrect`.

**`TypeCorrect`: `Spec => []TypeInv`.** `TypeInv` is `TypeOK` plus the fact that a draining batch lies inside the accepted ledger (`batchLen ∈ 1..MaxTxRead`, `memIdx + batchLen <= ledger`, `inserted <= batchLen`). `TypeOK` alone is not inductive, because `UpdateNodeIndex` needs the batch bound to keep `nodeIdx` a position.

**`CrashResumeSafety`: `Spec => []NoLostContainer`**, through the inductive invariant `IInv`. Its conjuncts are:
- `TypeInv`;
- `NoLostContainer`;
- a running producer's `memIdx` equals `nodeIdx`;
- the containers inserted so far in the current batch are delivered;
- a row in state `decoded` is in `applied`.

Each conjunct is needed:
- Without the second-to-last one, the checkpoint step could not know its batch is delivered.
- Without the last one, the delete could drop an undecoded row.
- Without the first equality, a checkpoint from a stale `memIdx` could not be related to the durable one.

`IInv` was checked with TLC as an invariant before it was proved.

**`CheckpointMonotoneThm`: `~PerformUpdates => (Spec => CheckpointMonotone)`**, from `IInv`. The batch checkpoint `memIdx + batchLen - 1 >= memIdx = nodeIdx`, because `batchLen >= 1`. With `PerformUpdates` the property is false: every restart resets the checkpoint to 0.

**`RefinesDurableQueue`: `~PerformUpdates => (Spec => ImplementsDurableQueue)`**, from `IInv` and the lemma `RefinementStep`. `RefinementStep` says every `Next` step from an `IInv` state is a `DQNext` step or a stutter under the mapping. For this, `IInv` gained one conjunct: the row a consumer is consuming is in `txPool`. Without it, the commit could not be shown to be a `Decode` of a queued entry. The checkpoint step is an `Advance(memIdx + batchLen - 1)`:
- positions below `nodeIdx` are held by `NoLostContainer`;
- the ones of the batch are held because they were inserted.

With `PerformUpdates` the restart resets the checkpoint, which no `Advance` allows.

**`DQNoLossThm` and `DQSafeSteps`** (in `DurableQueue`) prove the abstract queue's promises from its own steps:
- `DQNoLoss`: every position below the checkpoint is held, i.e. queued or decoded;
- `DQHeldStable`: a held position stays held;
- `DQCheckpointMonotone`: the checkpoint never moves back.

`DQNoLoss` is inductive once the counters are known to be naturals (`DQTypeOK`). `Advance(k)` checks every position up to `k`, and `Remove` takes only decoded entries. **`PipelineKeepsQueuePromises`** then derives the three properties for the pipeline from `RefinesDurableQueue` and these two theorems alone, under the mapping (held = in `txPool ∪ applied`). This is how the refinement is meant to be used: the abstract argument is made once and carries over.

**`PvmIndexerProofs`: the P-chain indexer keeps the pipeline's guarantees.** Composing the decoder into the pipeline adds three kinds of step: Bootstrap at every start, a failed Bootstrap, and the decoder's writes inside the consumer's commit. The lemma `IndexerStepIsPipelineStep` shows that every indexer step is one of:
- a pipeline `Next` step (the commit with its writes is `Consume`, a restart is `Crash`);
- a step that leaves the pipeline's variables alone (a successful Bootstrap);
- `BootFail`: one failure counted, nothing else of the pipeline changed.

`BootFail` preserves the pipeline's `IInv`, so `IInv` is an invariant of `IndexerSpec` too (`IndexerIInv`). From it come, for every value of the constants:
- `IndexerCrashResumeSafety` (`[]NoLostContainer`);
- with `PerformUpdates` false, `IndexerCheckpointMonotone` (`CheckpointMonotone`) and `IndexerRefinesDurableQueue` (`ImplementsDurableQueue`, which the `pvm_indexer` run also checks).

`IInv` was checked with TLC on the `pvm_indexer` instance before the proof.

**`AvmDecoderProofs`: which row wins in the X-chain writer's keyed writes.** Both theorems assume the table has one row per key before the write. `InsertAssetsRowOfId` says which row of the asset's id there is after one `persist.InsertAssets`: the new one when the UPDATE runs or the id was new, else the one written first. So a redelivered CreateAssetTx with `PerformUpdates` false keeps the first supply. `InsertTransactionsEpochRowOfTx` says the same for `persist.InsertTransactionsEpoch`. With `PerformUpdates` false a transaction keeps the epoch of the first vertex consumed; with it, the last vertex consumed wins. That one row per key stays one row is not stated: it holds by the shape of the keyed write. The folds that apply these writes are left to TLC (see below).

**`RewardsHandlerProofs`:** `RewardsTypeCorrect` (`Spec => []TypeOK`) and `MarkedImpliesWrittenThm` (`Spec => []MarkedImpliesWritten`), from `RewardsAssumption` only. The inductive invariant `IInv` adds one conjunct to `TypeOK` and the property: while `hState = "marking"`, `cur` is a pending non-abort row whose UTXOs are all written. Without it, `Mark` could not know that the row it marks has its outputs. `TypeOK` is not inductive alone either: `Mark` needs `cur` to be a pending row for `processed ⊆ rows`. `IInv` was checked with TLC before it was proved.

**`RefinesRewardsLedger`: `Spec => ImplementsRewardsLedger`**, from the same `IInv` and the lemma `RLStep` (each handler step is a ledger step or a stutter):
- `ProcessAbort(r)` settles a row that `TypeOK` puts in `rows \ processed`;
- `Mark` settles `cur`, which `IInv` makes a pending, unprocessed row with all its outputs;
- the two UTXO writers write a subset of `RewardUtxos[r]` for such a row.

`RLSettledWrittenThm` (in `RewardsLedger`) proves, at the abstract level, that a settled non-abort row has all its outputs written.

**`PersistProofs`:** `PersistTypeCorrect` (`PersistSpec => []PersistTypeOK`), `DeactivateKeepsRewardThm` (`PersistSpec => DeactivateKeepsReward`; `DeactivateReward` is not in the `Persist` interface and nothing under `src/` calls it, so this is about dead code), `ProgressKeptThm` (`PersistSpec => ProgressKept`) and `RedeliveryNoopOthersThm` (`PersistSpec => RedeliveryNoopOthers`). All four assume `PersistConstants`: `Updates ⊆ BOOLEAN`, `MaxTxCount ∈ Nat`, and non-empty `Keys` and `Vals`.
- `PersistTypeOK` is inductive as it stands. Four lemmas carry the table reasoning:
  - a table (`Table(K, V)`, a function from a subset of `K` to `V`) stays one under an insert-or-ignore (`InsertIgnore`), an overwrite of an existing key, and a delete (`Without`);
  - its rows are in `V`.
- The action property follows from `PersistTypeOK`: the stored row is a record of `RewardRow`, and the successful branch of `DeactivateReward` changes only its `updated` field.
- `ProgressKeptThm` is proved one writer at a time. Only `InsertOutputAddresses` and `UpdateOutputAddresses` write `outAddrs`, and the first overwrites a row only with a non-nil signature. The `accumulate_in` writers either insert-or-ignore or set `output_processed` to TRUE. The balance rows are insert-or-ignore, or `+ 1`, on values that `PersistTypeOK` makes integers.
- `RedeliveryNoopOthersThm` is the idempotence contract of spec §4.5 for every writer except `InsertCvmAccount` (whose violation is finding 7) and the balance manager's increment. Its inductive invariant is `LastCallDone`: after a call returned ok, the tables show its effect. For example:
  - the reward row's `updated` is the caller's;
  - the cache row holds the caller's block if the call had `upd`;
  - the output-address row exists and holds the caller's non-nil signature if the call had `upd`;
  - every `accumulate_in` row of a processed output is marked.

  With it, each writer called again with the same arguments rewrites the same values (`TableIsFcn`: a table equals the function of its rows). `LastCallDone` and the property were checked with TLC on three small instances (up to 61k states), and a mutant that drops the balance manager from the exclusions was seen to violate the property. No listed run checks it: the Persist state space grows too fast for a run that covers all writers.

**Left to TLC:**
- Liveness (`AllDecoded`, `QueueDrains`, `EveryRewardProcessed`) needs fairness and ENABLED, which TLAPS does not handle here.
- The decoder invariants (`IndexerTypeOK`, `AliasRowsFromOneTx`, `AvmTypeOK`, `OutputsNumbered`) rest on what a fold computes. A block is a `FoldLeft` over its transactions, an alias write is a `FoldSet` over its owners, and the AVM writer's loops are `FoldLeft`s. Proving them for every ledger needs induction over the sequence or the set. The library's induction theorems take an operator parameter, which the installed provers cannot instantiate. So these stay with the `pvm_indexer` and `avm_decoder` runs. What does not depend on a fold is proved: the pipeline's guarantees for the indexer (`PvmIndexerProofs`), and which row a single keyed write of the X-chain writer leaves (`AvmDecoderProofs`).

## 6. Not modelled, and the plan

**Not modelled:**
- The stop signal of `ProducerChain.Close`.
- More than one consumer per topic.
- Byte decoding of containers, the UTXO writes of `avax.InsertTransaction`, and the avax and cvm writers, which are not under `src/` (only the persist calls they make are modelled).
- The cvm block, address and txdata writers of `dbmodel.go`, whose callers are not under `src/`.
- The HTTP API, configuration and CLI: pure I/O.
- The daemon's ListenCloser goroutines, whose `wg.Done` runs before `Listen` (`magelland.go:383`), so shutdown does not wait for them.

**Planned in order**, with the hazards in `PROJECT.json` each is meant to cover:
1. **More theorems** for the modules above, where no fold stands in the way (see "Left to TLC").
