-------------------------- MODULE PvmIndexerProofs --------------------------
(***************************************************************************)
(* The P-chain indexer keeps the pipeline's guarantees.  Composing the     *)
(* decoder into the pipeline adds the daemon's Bootstrap at every start,   *)
(* its failures and the decode of a row inside the consumer's commit.      *)
(* Every indexer step is a pipeline step, or a failed Bootstrap that only  *)
(* counts a failure, or leaves the pipeline alone.  So the pipeline's      *)
(* inductive invariant IInv carries over, and with it crash-resume         *)
(* safety, the checkpoint action property and the refinement            *)
(* of the durable queue.  These hold for every value of the constants.     *)
(***************************************************************************)
EXTENDS PvmIndexer, IngestPipelineProofs

USE MaxLedgerAssumption, MaxTxReadAssumption, PerformUpdatesAssumption,
    MaxCrashesAssumption, MaxFailuresAssumption

(* A failed Bootstrap, as the pipeline sees it: one failure is counted    *)
(* and nothing else of the pipeline changes.                               *)
BootFail ==
  /\ Fail
  /\ UNCHANGED <<ledger, nodeIdx, txPool, applied, pState, memIdx, batchLen,
                 inserted, cState, cRow, crashes>>

(* Every indexer step is a pipeline step, a counted Bootstrap failure, or *)
(* a step that leaves the pipeline's variables alone.                     *)
LEMMA IndexerStepIsPipelineStep ==
  [IndexerNext]_indexerVars => [Next]_vars \/ BootFail
<1> SUFFICES ASSUME [IndexerNext]_indexerVars PROVE [Next]_vars \/ BootFail
  OBVIOUS
<1>1. CASE Bootstrap
  BY <1>1 DEF Bootstrap
<1>2. CASE BootstrapError
  BY <1>2 DEF BootstrapError, BootFail
<1>3. CASE ConsumeDecode
  BY <1>3 DEF ConsumeDecode, Next, Consumer
<1>4. CASE Accept /\ UNCHANGED <<db, booted, gDone>>
  BY <1>4 DEF Next
<1>5. CASE CrashRestart
  BY <1>5 DEF CrashRestart, Next
<1>6. CASE PipelineOnly /\ UNCHANGED <<db, booted, gDone>>
  BY <1>6 DEF PipelineOnly, Next, Consumer
<1>7. CASE UNCHANGED indexerVars
  BY <1>7 DEF indexerVars
<1> QED
  BY <1>1, <1>2, <1>3, <1>4, <1>5, <1>6, <1>7 DEF IndexerNext

(* A failed Bootstrap preserves the pipeline's inductive invariant: it    *)
(* only counts a failure, within the bound.                               *)
LEMMA BootFailKeepsIInv == IInv /\ BootFail => IInv'
BY DEF BootFail, Fail, IInv, TypeInv, TypeOK, NoLostContainer, Delivered, Positions

(* The indexer starts where the pipeline starts.                          *)
LEMMA IndexerInitIInv == IndexerInit => IInv
BY DEF IndexerInit, Init, IInv, TypeInv, TypeOK, Positions, NoLostContainer

LEMMA IndexerIInvStep == IInv /\ [IndexerNext]_indexerVars => IInv'
BY IndexerStepIsPipelineStep, IInvStep, BootFailKeepsIInv

THEOREM IndexerIInv == IndexerSpec => []IInv
BY IndexerInitIInv, IndexerIInvStep, PTL DEF IndexerSpec

(* Crash-resume safety of the indexer: whatever crashes, failed calls and *)
(* failed or repeated Bootstraps happen, no container below the durable   *)
(* node_index checkpoint is lost.                                          *)
THEOREM IndexerCrashResumeSafety == IndexerSpec => []NoLostContainer
<1>1. IInv => NoLostContainer
  BY DEF IInv
<1> QED
  BY <1>1, IndexerIInv, PTL

(* With cfg.PerformUpdates false the indexer's node_index never moves     *)
(* back, Bootstrap and its failures included.                              *)
THEOREM IndexerCheckpointMonotone ==
  ~PerformUpdates => (IndexerSpec => CheckpointMonotone)
<1> SUFFICES ASSUME ~PerformUpdates PROVE IndexerSpec => CheckpointMonotone
  OBVIOUS
<1>1. IInv /\ [IndexerNext]_indexerVars => [nodeIdx' >= nodeIdx]_vars
  <2> SUFFICES ASSUME IInv, [IndexerNext]_indexerVars
               PROVE  [nodeIdx' >= nodeIdx]_vars
    OBVIOUS
  <2>1. CASE [Next]_vars
    BY <2>1, MonotoneStep
  <2>2. CASE BootFail
    BY <2>2 DEF BootFail, IInv, TypeInv, TypeOK, Positions
  <2> QED
    BY <2>1, <2>2, IndexerStepIsPipelineStep
<1> QED
  BY <1>1, IndexerIInv, PTL DEF IndexerSpec, CheckpointMonotone

(* With cfg.PerformUpdates false the P-chain indexer implements the       *)
(* durable queue, as the bare pipeline does: the decoder and Bootstrap    *)
(* add no step the queue does not allow.                                   *)
THEOREM IndexerRefinesDurableQueue ==
  ~PerformUpdates => (IndexerSpec => ImplementsDurableQueue)
<1> SUFFICES ASSUME ~PerformUpdates PROVE IndexerSpec => ImplementsDurableQueue
  OBVIOUS
<1>1. IndexerInit => DQ!DQInit
  BY DEF IndexerInit, Init, DQ!DQInit
<1>2. IInv /\ [IndexerNext]_indexerVars => [DQ!DQNext]_DQ!dqVars
  <2> SUFFICES ASSUME IInv, [IndexerNext]_indexerVars
               PROVE  [DQ!DQNext]_DQ!dqVars
    OBVIOUS
  <2>1. CASE [Next]_vars
    BY <2>1, RefinementStep
  <2>2. CASE BootFail
    BY <2>2 DEF BootFail, DQ!dqVars
  <2> QED
    BY <2>1, <2>2, IndexerStepIsPipelineStep
<1> QED
  BY <1>1, <1>2, IndexerIInv, PTL
     DEF IndexerSpec, ImplementsDurableQueue, DQ!DQSpec

=============================================================================
