--------------------------- MODULE IngestPipeline ---------------------------
(***************************************************************************)
(* The checkpointed ingestion pipeline of one topic: the ProducerChain     *)
(* worker (src/stream/producer_chain.go) that copies containers of the     *)
(* node's index API into the tx_pool table and advances the node_index     *)
(* checkpoint, and the consumerDB worker (src/stream/consumer_db.go) that  *)
(* hands tx_pool rows to the chain decoder and deletes them afterwards.    *)
(*                                                                         *)
(* The two workers share only the database: the node_index row            *)
(* (nodeIdx), the tx_pool table (txPool) and the business tables the       *)
(* decoder writes (applied).  A container is identified by its position   *)
(* in the ledger: TxPool.ComputeID hashes (MsgKey, Topic) and the MsgKey   *)
(* is a function of the container, so position i always yields the same   *)
(* tx_pool id.                                                             *)
(***************************************************************************)
EXTENDS Naturals, FiniteSets

CONSTANTS
  MaxLedger,       \* containers the ledger accepts in a behaviour
  MaxTxRead,       \* MaxTxRead, the numToFetch of GetContainerRange (500)
  PerformUpdates,  \* cfg.PerformUpdates, the upd flag of InsertNodeIndex
  MaxCrashes,      \* process crashes (kill and restart) in a behaviour
  MaxFailures      \* failed node or database calls in a behaviour

ASSUME MaxLedgerAssumption == MaxLedger \in Nat \ {0}
ASSUME MaxTxReadAssumption == MaxTxRead \in Nat /\ MaxTxRead >= 2
ASSUME PerformUpdatesAssumption == PerformUpdates \in BOOLEAN
ASSUME MaxCrashesAssumption == MaxCrashes \in Nat
ASSUME MaxFailuresAssumption == MaxFailures \in Nat

VARIABLES
  ledger,    \* number of containers the node has accepted: positions 0..ledger-1
  nodeIdx,   \* node_index.idx of (instance, topic), durable
  txPool,    \* ids (positions) of the rows of tx_pool, durable
  applied,   \* containers whose decoder transaction has committed, durable
  pState,    \* producer: "down" (no producerChainContainer), "idle", "draining"
  memIdx,    \* producerChainContainer.nodeIndex.Idx, in memory
  batchLen,  \* len(containers) of the batch being drained
  inserted,  \* containers of that batch written to tx_pool so far
  cState,    \* consumer: "idle", "consuming" (in Consume), "decoded"
  cRow,      \* the tx_pool row the consumer works on
  crashes,   \* process crashes so far
  failures   \* failed calls so far

vars == <<ledger, nodeIdx, txPool, applied, pState, memIdx, batchLen,
          inserted, cState, cRow, crashes, failures>>

Positions == 0 .. (MaxLedger - 1)

MinOf(a, b) == IF a <= b THEN a ELSE b

(* A container is delivered once its row is in tx_pool or its effect is   *)
(* in the business tables.                                                *)
Delivered(i) == i \in txPool \cup applied

TypeOK ==
  /\ ledger \in 0 .. MaxLedger
  /\ nodeIdx \in Positions
  /\ txPool \subseteq Positions
  /\ applied \subseteq Positions
  /\ pState \in {"down", "idle", "draining"}
  /\ memIdx \in Positions
  /\ batchLen \in 0 .. MaxTxRead
  /\ inserted \in 0 .. MaxTxRead
  /\ cState \in {"idle", "consuming", "decoded"}
  /\ cRow \in Positions
  /\ crashes \in 0 .. MaxCrashes
  /\ failures \in 0 .. MaxFailures

Init ==
  /\ ledger = 0
  /\ nodeIdx = 0            \* no node_index row yet: reads as idx 0
  /\ txPool = {}
  /\ applied = {}
  /\ pState = "down"
  /\ memIdx = 0
  /\ batchLen = 0
  /\ inserted = 0
  /\ cState = "idle"
  /\ cRow = 0
  /\ crashes = 0
  /\ failures = 0

-----------------------------------------------------------------------------
(* Ledger: the node accepts one more container.                           *)
Accept ==
  /\ ledger < MaxLedger
  /\ ledger' = ledger + 1
  /\ UNCHANGED <<nodeIdx, txPool, applied, pState, memIdx, batchLen,
                 inserted, cState, cRow, crashes, failures>>

(* Mutant: newContainer passes upd = true, resetting the checkpoint.      *)
InsertNodeIndexAlwaysUpd(idx, upd) == 0

(* InsertNodeIndex(&NodeIndex{Idx: 0}, upd): insert, a duplicate ignored, *)
(* then with upd an unconditional UPDATE of idx.                          *)
InsertNodeIndex(idx, upd) == IF upd THEN 0 ELSE idx

(* One failed node or database call.                                      *)
Fail ==
  /\ failures < MaxFailures
  /\ failures' = failures + 1

(* runProcessor -> newContainer: insertNodeIndex, then getIndex reads the *)
(* row into memory.                                                       *)
NewContainer ==
  /\ pState = "down"
  /\ nodeIdx' = InsertNodeIndex(nodeIdx, PerformUpdates)
  /\ pState' = "idle"
  /\ memIdx' = nodeIdx'
  /\ UNCHANGED <<ledger, txPool, applied, batchLen, inserted, cState, cRow,
                 crashes, failures>>

(* getIndex fails after the insert has happened: runProcessor returns the *)
(* error and Listen retries it later.                                     *)
NewContainerError ==
  /\ pState = "down"
  /\ Fail
  /\ nodeIdx' = InsertNodeIndex(nodeIdx, PerformUpdates)
  /\ UNCHANGED <<ledger, txPool, applied, pState, memIdx, batchLen, inserted,
                 cState, cRow, crashes>>

(* GetContainerRange(nodeIndex.Idx, MaxTxRead) returns the containers at  *)
(* positions Idx .. Idx+n-1 the node has accepted.  With Idx >= ledger    *)
(* the node answers "start index ... last accepted index" or "no          *)
(* containers have been accepted"; both leave the worker as it was, so    *)
(* they are stuttering steps.                                             *)
(* Mutants: the range ignores the last accepted index; numToFetch is one  *)
(* short; the range runs one past the last accepted index.                *)
ContainerRangeUnbounded(idx) == MaxTxRead
ContainerRangeShort(idx) == MinOf(MaxTxRead - 1, ledger - idx)
ContainerRangeOpen(idx) == MinOf(MaxTxRead, ledger - idx + 1)

ContainerRange(idx) == MinOf(MaxTxRead, ledger - idx)

ProcessNextMessageRead ==
  /\ pState = "idle"
  /\ memIdx < ledger
  /\ batchLen' = ContainerRange(memIdx)
  /\ inserted' = 0
  /\ pState' = "draining"
  /\ UNCHANGED <<ledger, nodeIdx, txPool, applied, memIdx, cState, cRow,
                 crashes, failures>>

(* An error of GetContainerRange that processNextMessage does not         *)
(* swallow (io.EOF, or an unknown error counted by Failure): runProcessor *)
(* returns, the container is closed, Listen starts a new one.  Deadline,  *)
(* 404 and not-ready errors are swallowed and leave the state unchanged.  *)
ProcessNextMessageReadError ==
  /\ pState = "idle"
  /\ Fail
  /\ pState' = "down"
  /\ UNCHANGED <<ledger, nodeIdx, txPool, applied, memIdx, batchLen,
                 inserted, cState, cRow, crashes>>

(* One iteration of the loop over containers: UpdateTxPool inserts the    *)
(* row; InsertTxPool treats a duplicate id as success.                    *)
UpdateTxPool ==
  /\ pState = "draining"
  /\ inserted < batchLen
  /\ txPool' = txPool \cup {memIdx + inserted}
  /\ inserted' = inserted + 1
  /\ UNCHANGED <<ledger, nodeIdx, applied, pState, memIdx, batchLen, cState,
                 cRow, crashes, failures>>

(* UpdateTxPool fails: ProcessNextMessage returns the error before the    *)
(* checkpoint moves and the worker restarts.                              *)
UpdateTxPoolError ==
  /\ pState = "draining"
  /\ inserted < batchLen
  /\ Fail
  /\ pState' = "down"
  /\ UNCHANGED <<ledger, nodeIdx, txPool, applied, memIdx, batchLen,
                 inserted, cState, cRow, crashes>>

(* The checkpoint ProcessNextMessage writes after the whole batch.        *)
NextNodeIdx == memIdx + batchLen - 1

(* Mutant: the checkpoint is written without waiting for the batch.      *)
UpdateNodeIndexEarly ==
  /\ pState = "draining"
  /\ nodeIdx' = NextNodeIdx
  /\ memIdx' = NextNodeIdx
  /\ pState' = "idle"
  /\ UNCHANGED <<ledger, txPool, applied, batchLen, inserted, cState, cRow,
                 crashes, failures>>

(* updateNodeIndex succeeds: the durable and the in-memory index move.    *)
UpdateNodeIndex ==
  /\ pState = "draining"
  /\ inserted = batchLen
  /\ nodeIdx' = NextNodeIdx
  /\ memIdx' = NextNodeIdx
  /\ pState' = "idle"
  /\ UNCHANGED <<ledger, txPool, applied, batchLen, inserted, cState, cRow,
                 crashes, failures>>

(* updateNodeIndex returns an error: the UPDATE may still have committed  *)
(* (a deadline racing the commit); the worker restarts either way.        *)
UpdateNodeIndexError ==
  /\ pState = "draining"
  /\ inserted = batchLen
  /\ Fail
  /\ \E committed \in BOOLEAN :
        nodeIdx' = IF committed THEN NextNodeIdx ELSE nodeIdx
  /\ pState' = "down"
  /\ UNCHANGED <<ledger, txPool, applied, memIdx, batchLen, inserted,
                 cState, cRow, crashes>>

-----------------------------------------------------------------------------
(* The consumer loop reads a tx_pool row and calls consumerDB.Process.    *)
ConsumerRead(row) ==
  /\ cState = "idle"
  /\ row \in txPool
  /\ cRow' = row
  /\ cState' = "consuming"
  /\ UNCHANGED <<ledger, nodeIdx, txPool, applied, pState, memIdx, batchLen,
                 inserted, crashes, failures>>

(* persistConsume commits the decoder transaction: Consume returns nil.   *)
(* A lock error rolls the transaction back and Consume retries, a step    *)
(* that changes nothing.                                                  *)
Consume ==
  /\ cState = "consuming"
  /\ applied' = applied \cup {cRow}
  /\ cState' = "decoded"
  /\ UNCHANGED <<ledger, nodeIdx, txPool, pState, memIdx, batchLen,
                 inserted, cRow, crashes, failures>>

(* persistConsume fails with an error that is not a lock error: Failure, *)
(* the error is returned and the row stays in tx_pool.                    *)
ConsumeError ==
  /\ cState = "consuming"
  /\ Fail
  /\ cState' = "idle"
  /\ UNCHANGED <<ledger, nodeIdx, txPool, applied, pState, memIdx, batchLen,
                 inserted, cRow, crashes>>

(* RemoveTxPool deletes the row after the decode has committed.          *)
RemoveTxPool ==
  /\ cState = "decoded"
  /\ txPool' = txPool \ {cRow}
  /\ cState' = "idle"
  /\ UNCHANGED <<ledger, nodeIdx, applied, pState, memIdx, batchLen,
                 inserted, cRow, crashes, failures>>

(* The DELETE fails: the row stays and is decoded again later.            *)
RemoveTxPoolError ==
  /\ cState = "decoded"
  /\ Fail
  /\ cState' = "idle"
  /\ UNCHANGED <<ledger, nodeIdx, txPool, applied, pState, memIdx, batchLen,
                 inserted, cRow, crashes>>

-----------------------------------------------------------------------------
(* The process dies and is restarted: everything in memory is lost, the   *)
(* database keeps node_index, tx_pool and the business tables.            *)
Crash ==
  /\ crashes < MaxCrashes
  /\ crashes' = crashes + 1
  /\ pState' = "down"
  /\ cState' = "idle"
  /\ UNCHANGED <<ledger, nodeIdx, txPool, applied, memIdx, batchLen,
                 inserted, cRow, failures>>

Producer ==
  \/ NewContainer
  \/ NewContainerError
  \/ ProcessNextMessageRead
  \/ ProcessNextMessageReadError
  \/ UpdateTxPool
  \/ UpdateTxPoolError
  \/ UpdateNodeIndex
  \/ UpdateNodeIndexError

Consumer ==
  \/ \E row \in Positions : ConsumerRead(row)
  \/ Consume
  \/ ConsumeError
  \/ RemoveTxPool
  \/ RemoveTxPoolError

Next == Accept \/ Producer \/ Consumer \/ Crash

(* Both workers loop forever (Listen, and the consumer loop): a step they  *)
(* can take is eventually taken.  A failing call is retried and fails at  *)
(* most MaxFailures times.  The consumer loop promises no order over the  *)
(* tx_pool rows but that each row is eventually processed (spec 5), so    *)
(* reading a given row is strongly fair: the row may be re-inserted and   *)
(* the consumer busy with other rows whenever it is looked at.            *)
Fairness ==
  /\ WF_vars(Producer)
  /\ WF_vars(Consume)
  /\ WF_vars(RemoveTxPool)
  /\ \A row \in Positions : SF_vars(ConsumerRead(row))

Spec == Init /\ [][Next]_vars /\ Fairness

-----------------------------------------------------------------------------
(* Crash-resume safety (spec 4.2, 5): every container below the durable   *)
(* checkpoint is in tx_pool or decoded, whatever crash, failed insert or  *)
(* failed checkpoint update happened in ProcessNextMessage.               *)
NoLostContainer ==
  \A i \in Positions : i < nodeIdx => Delivered(i)

(* The node_index checkpoint never moves back (spec 3, 4.1), across       *)
(* worker restarts after errors and process crashes.                      *)
CheckpointMonotone ==
  [][nodeIdx' >= nodeIdx]_vars

(* Every container the node accepts is eventually decoded.                *)
AllDecoded ==
  \A i \in Positions : (i < ledger) ~> (i \in applied)

(* The pipeline implements the durable queue of spec 4.1-4.4: tx_pool is *)
(* the queue, the committed decodes are the decoded entries, node_index   *)
(* is the checkpoint.  Every step of producer, consumer, crash or failed  *)
(* call is an enqueue of an accepted container, a checkpoint advance over *)
(* held containers, a decode of a queued entry, a removal of a decoded    *)
(* one, or no step at all.                                                 *)
DQ == INSTANCE DurableQueue
        WITH queue <- txPool, decoded <- applied, checkpoint <- nodeIdx

ImplementsDurableQueue == DQ!DQSpec

(* Spec 8, end-to-end: once the ledger stops growing the consumer drains  *)
(* tx_pool and it stays empty.                                            *)
QueueDrains ==
  <>[](txPool = {})

=============================================================================
