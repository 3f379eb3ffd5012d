------------------------ MODULE IngestPipelineProofs ------------------------
(***************************************************************************)
(* Proofs, for every value of the constants, of the type invariant and of  *)
(* crash-resume safety (NoLostContainer) of the ingestion pipeline, and of *)
(* the checkpoint action property and the refinement that follow.        *)
(***************************************************************************)
EXTENDS IngestPipeline, TLAPS

(* The type invariant alone is not inductive: a draining batch must lie   *)
(* inside the accepted ledger for its inserts and its checkpoint to be    *)
(* positions.                                                             *)
TypeInv ==
  /\ TypeOK
  /\ pState = "draining" =>
        /\ batchLen \in 1 .. MaxTxRead
        /\ memIdx + batchLen <= ledger
        /\ inserted <= batchLen

(* NoLostContainer strengthened: the running producer's in-memory index   *)
(* is the durable one, the containers of the current batch inserted so    *)
(* far are delivered, and a row the consumer is about to delete has been  *)
(* decoded, and a row being decoded is still in tx_pool.                  *)
IInv ==
  /\ TypeInv
  /\ NoLostContainer
  /\ pState /= "down" => memIdx = nodeIdx
  /\ pState = "draining" =>
        \A k \in 0 .. (inserted - 1) : Delivered(memIdx + k)
  /\ cState = "decoded" => cRow \in applied
  /\ cState = "consuming" => cRow \in txPool

USE MaxLedgerAssumption, MaxTxReadAssumption, PerformUpdatesAssumption,
    MaxCrashesAssumption, MaxFailuresAssumption

-----------------------------------------------------------------------------
(* Every step of the pipeline preserves TypeInv.                          *)
LEMMA TypeStep == TypeInv /\ [Next]_vars => TypeInv'
<1> SUFFICES ASSUME TypeInv, [Next]_vars PROVE TypeInv'
  OBVIOUS
<1> USE DEF TypeInv, TypeOK, Positions
<1>1. CASE Accept
  BY <1>1 DEF Accept
<1>2. CASE NewContainer
  BY <1>2 DEF NewContainer, InsertNodeIndex
<1>3. CASE NewContainerError
  BY <1>3 DEF NewContainerError, InsertNodeIndex, Fail
<1>4. CASE ProcessNextMessageRead
  BY <1>4 DEF ProcessNextMessageRead, ContainerRange, MinOf
<1>5. CASE ProcessNextMessageReadError
  BY <1>5 DEF ProcessNextMessageReadError, Fail
<1>6. CASE UpdateTxPool
  BY <1>6 DEF UpdateTxPool
<1>7. CASE UpdateTxPoolError
  BY <1>7 DEF UpdateTxPoolError, Fail
<1>8. CASE UpdateNodeIndex
  BY <1>8 DEF UpdateNodeIndex, NextNodeIdx
<1>9. CASE UpdateNodeIndexError
  BY <1>9 DEF UpdateNodeIndexError, NextNodeIdx, Fail
<1>10. CASE \E row \in Positions : ConsumerRead(row)
  BY <1>10 DEF ConsumerRead
<1>11. CASE Consume
  BY <1>11 DEF Consume
<1>12. CASE ConsumeError
  BY <1>12 DEF ConsumeError, Fail
<1>13. CASE RemoveTxPool
  BY <1>13 DEF RemoveTxPool
<1>14. CASE RemoveTxPoolError
  BY <1>14 DEF RemoveTxPoolError, Fail
<1>15. CASE Crash
  BY <1>15 DEF Crash
<1>16. CASE UNCHANGED vars
  BY <1>16 DEF vars
<1> QED
  BY <1>1, <1>2, <1>3, <1>4, <1>5, <1>6, <1>7, <1>8, <1>9, <1>10, <1>11,
     <1>12, <1>13, <1>14, <1>15, <1>16 DEF Next, Producer, Consumer

(* TypeInv holds in every state of the pipeline.                          *)
THEOREM TypeCorrect == Spec => []TypeInv
<1>1. Init => TypeInv
  BY DEF Init, TypeInv, TypeOK, Positions
<1>2. QED
  BY <1>1, TypeStep, PTL DEF Spec

(* TypeOK, the type invariant the pipeline run checks, holds in every     *)
(* state: the checkpoint, the in-memory index and every tx_pool row stay *)
(* ledger positions, and a batch never exceeds numToFetch.               *)
THEOREM TypeOKThm == Spec => []TypeOK
<1>1. TypeInv => TypeOK
  BY DEF TypeInv
<1>. QED
  BY <1>1, TypeCorrect, PTL

-----------------------------------------------------------------------------
(* Every step of the pipeline preserves IInv.                             *)
LEMMA IInvStep == IInv /\ [Next]_vars => IInv'
<1> SUFFICES ASSUME IInv, [Next]_vars PROVE IInv'
  OBVIOUS
<1>0. TypeInv'
  BY TypeStep DEF IInv
<1> USE <1>0 DEF IInv, TypeInv, TypeOK, Positions, NoLostContainer, Delivered
<1>1. CASE Accept
  BY <1>1 DEF Accept
<1>2. CASE NewContainer
  BY <1>2 DEF NewContainer, InsertNodeIndex
<1>3. CASE NewContainerError
  BY <1>3 DEF NewContainerError, InsertNodeIndex, Fail
<1>4. CASE ProcessNextMessageRead
  BY <1>4 DEF ProcessNextMessageRead
<1>5. CASE ProcessNextMessageReadError
  BY <1>5 DEF ProcessNextMessageReadError, Fail
<1>6. CASE UpdateTxPool
  BY <1>6 DEF UpdateTxPool
<1>7. CASE UpdateTxPoolError
  BY <1>7 DEF UpdateTxPoolError, Fail
<1>8. CASE UpdateNodeIndex
  BY <1>8 DEF UpdateNodeIndex, NextNodeIdx
<1>9. CASE UpdateNodeIndexError
  <2>1. CASE nodeIdx' = NextNodeIdx
    BY <1>9, <2>1 DEF UpdateNodeIndexError, NextNodeIdx, Fail
  <2>2. CASE nodeIdx' = nodeIdx
    BY <1>9, <2>2 DEF UpdateNodeIndexError, Fail
  <2> QED
    BY <1>9, <2>1, <2>2 DEF UpdateNodeIndexError
<1>10. CASE \E row \in Positions : ConsumerRead(row)
  BY <1>10 DEF ConsumerRead
<1>11. CASE Consume
  BY <1>11 DEF Consume
<1>12. CASE ConsumeError
  BY <1>12 DEF ConsumeError, Fail
<1>13. CASE RemoveTxPool
  BY <1>13 DEF RemoveTxPool
<1>14. CASE RemoveTxPoolError
  BY <1>14 DEF RemoveTxPoolError, Fail
<1>15. CASE Crash
  BY <1>15 DEF Crash
<1>16. CASE UNCHANGED vars
  BY <1>16 DEF vars
<1> QED
  BY <1>1, <1>2, <1>3, <1>4, <1>5, <1>6, <1>7, <1>8, <1>9, <1>10, <1>11,
     <1>12, <1>13, <1>14, <1>15, <1>16 DEF Next, Producer, Consumer

(* Crash-resume safety: whatever crashes and failed calls happen, no      *)
(* container below the durable node_index checkpoint is lost.             *)
THEOREM CrashResumeSafety == Spec => []NoLostContainer
<1>1. Init => IInv
  BY DEF Init, IInv, TypeInv, TypeOK, Positions, NoLostContainer
<1>2. IInv => NoLostContainer
  BY DEF IInv
<1>3. QED
  BY <1>1, <1>2, IInvStep, PTL DEF Spec

-----------------------------------------------------------------------------
(* With cfg.PerformUpdates false, the node_index checkpoint never moves   *)
(* back: a restart re-inserts the row as a no-op and a batch moves it to  *)
(* its last container, at or after the in-memory index it started from.  *)
LEMMA MonotoneStep ==
  ~PerformUpdates /\ IInv /\ [Next]_vars => nodeIdx' >= nodeIdx
<1> SUFFICES ASSUME ~PerformUpdates, IInv, [Next]_vars PROVE nodeIdx' >= nodeIdx
  OBVIOUS
<1> USE DEF IInv, TypeInv, TypeOK, Positions
<1>1. CASE UpdateNodeIndex
  BY <1>1 DEF UpdateNodeIndex, NextNodeIdx
<1>2. CASE UpdateNodeIndexError
  BY <1>2 DEF UpdateNodeIndexError, NextNodeIdx
<1>3. CASE NewContainer \/ NewContainerError
  BY <1>3 DEF NewContainer, NewContainerError, InsertNodeIndex
<1>4. CASE ~(UpdateNodeIndex \/ UpdateNodeIndexError \/ NewContainer
             \/ NewContainerError)
  BY <1>4 DEF Next, Producer, Consumer, vars, Accept,
     ProcessNextMessageRead, ProcessNextMessageReadError, UpdateTxPool,
     UpdateTxPoolError, ConsumerRead, Consume, ConsumeError, RemoveTxPool,
     RemoveTxPoolError, Crash
<1> QED
  BY <1>1, <1>2, <1>3, <1>4

(* The durable checkpoint written by updateNodeIndex and insertNodeIndex  *)
(* never decreases when cfg.PerformUpdates is false.                      *)
THEOREM CheckpointMonotoneThm == ~PerformUpdates => (Spec => CheckpointMonotone)
<1> SUFFICES ASSUME ~PerformUpdates PROVE Spec => CheckpointMonotone
  OBVIOUS
<1>1. Init => IInv
  BY DEF Init, IInv, TypeInv, TypeOK, Positions, NoLostContainer
<1>2. IInv /\ [Next]_vars => nodeIdx' >= nodeIdx
  BY MonotoneStep
<1>3. QED
  BY <1>1, <1>2, IInvStep, PTL DEF Spec, CheckpointMonotone

-----------------------------------------------------------------------------
(* Each step of the pipeline is a step of the durable queue, or leaves     *)
(* tx_pool, the decoded containers, node_index and the ledger alone.       *)
LEMMA RefinementStep ==
  ~PerformUpdates /\ IInv /\ [Next]_vars => [DQ!DQNext]_DQ!dqVars
<1> SUFFICES ASSUME ~PerformUpdates, IInv, [Next]_vars
             PROVE [DQ!DQNext]_DQ!dqVars
  OBVIOUS
<1> DEFINE Stutter == UNCHANGED <<ledger, txPool, applied, nodeIdx>>
<1>0. Stutter => [DQ!DQNext]_DQ!dqVars
  BY DEF DQ!dqVars
<1> USE DEF IInv, TypeInv, TypeOK, Positions
<1>1. CASE Accept
  BY <1>1 DEF Accept, DQ!DQNext, DQ!DQAccept
<1>2. CASE NewContainer \/ NewContainerError
  BY <1>0, <1>2 DEF NewContainer, NewContainerError, InsertNodeIndex
<1>3. CASE ProcessNextMessageRead \/ ProcessNextMessageReadError
          \/ UpdateTxPoolError \/ ConsumeError \/ RemoveTxPoolError \/ Crash
          \/ \E row \in Positions : ConsumerRead(row)
  BY <1>0, <1>3 DEF ProcessNextMessageRead, ProcessNextMessageReadError,
     UpdateTxPoolError, ConsumeError, RemoveTxPoolError, Crash, ConsumerRead
<1>4. CASE UpdateTxPool
  <2>1. memIdx + inserted \in Positions /\ memIdx + inserted < ledger
    BY <1>4 DEF UpdateTxPool
  <2>2. DQ!Enqueue(memIdx + inserted)
    BY <1>4, <2>1 DEF UpdateTxPool, DQ!Enqueue
  <2> QED
    BY <2>1, <2>2 DEF DQ!DQNext, DQ!Positions
<1>6. ASSUME pState = "draining", inserted = batchLen,
             nodeIdx' = NextNodeIdx,
             UNCHANGED <<ledger, txPool, applied>>
      PROVE  DQ!DQNext
  <2>1. NextNodeIdx \in Positions /\ nodeIdx <= NextNodeIdx /\ NextNodeIdx < ledger
    BY <1>6 DEF NextNodeIdx
  <2>2. \A j \in 0 .. NextNodeIdx : DQ!Held(j)
    <3> SUFFICES ASSUME NEW j \in 0 .. NextNodeIdx PROVE DQ!Held(j)
      OBVIOUS
    <3>1. CASE j < nodeIdx
      BY <3>1 DEF NoLostContainer, Delivered, DQ!Held
    <3>2. CASE j >= nodeIdx
      <4>1. j - memIdx \in 0 .. (inserted - 1)
        BY <1>6, <3>2 DEF NextNodeIdx
      <4> QED
        BY <1>6, <4>1 DEF Delivered, DQ!Held
    <3> QED
      BY <3>1, <3>2
  <2>3. DQ!Advance(NextNodeIdx)
    BY <1>6, <2>1, <2>2 DEF DQ!Advance
  <2> QED
    BY <2>1, <2>3 DEF DQ!DQNext, DQ!Positions
<1>7. CASE UpdateNodeIndex
  BY <1>7, <1>6 DEF UpdateNodeIndex
<1>8. CASE UpdateNodeIndexError
  <2>1. CASE nodeIdx' = NextNodeIdx
    BY <1>8, <2>1, <1>6 DEF UpdateNodeIndexError
  <2>2. CASE nodeIdx' /= NextNodeIdx
    BY <1>8, <2>2, <1>0 DEF UpdateNodeIndexError
  <2> QED
    BY <2>1, <2>2
<1>9. CASE Consume
  <2>1. DQ!Decode(cRow)
    BY <1>9 DEF Consume, DQ!Decode
  <2> QED
    BY <1>9, <2>1 DEF DQ!DQNext, DQ!Positions
<1>10. CASE RemoveTxPool
  <2>1. DQ!Remove(cRow)
    BY <1>10 DEF RemoveTxPool, DQ!Remove
  <2> QED
    BY <1>10, <2>1 DEF DQ!DQNext, DQ!Positions
<1>11. CASE UNCHANGED vars
  BY <1>0, <1>11 DEF vars
<1> QED
  BY <1>1, <1>2, <1>3, <1>4, <1>7, <1>8, <1>9, <1>10, <1>11
     DEF Next, Producer, Consumer

(* With cfg.PerformUpdates false the pipeline implements the durable      *)
(* queue: every behaviour of producer, consumer, crashes and failed calls *)
(* is one of the queue's, with tx_pool as the queue and node_index as the *)
(* checkpoint.                                                            *)
THEOREM RefinesDurableQueue == ~PerformUpdates => (Spec => ImplementsDurableQueue)
<1> SUFFICES ASSUME ~PerformUpdates PROVE Spec => ImplementsDurableQueue
  OBVIOUS
<1>1. Init => IInv
  BY DEF Init, IInv, TypeInv, TypeOK, Positions, NoLostContainer
<1>2. Init => DQ!DQInit
  BY DEF Init, DQ!DQInit
<1>3. QED
  BY <1>1, <1>2, IInvStep, RefinementStep, PTL
     DEF Spec, ImplementsDurableQueue, DQ!DQSpec

(* What the abstract queue promises then holds of the pipeline itself,   *)
(* with tx_pool and the committed decodes for the queue and the decoded   *)
(* set: no position below node_index is lost, no step drops a delivered  *)
(* container, and node_index never moves back.                            *)
THEOREM PipelineKeepsQueuePromises ==
  ~PerformUpdates =>
    (Spec => []DQ!DQNoLoss /\ DQ!DQHeldStable /\ DQ!DQCheckpointMonotone)
<1> SUFFICES ASSUME ~PerformUpdates
             PROVE  Spec => []DQ!DQNoLoss /\ DQ!DQHeldStable /\ DQ!DQCheckpointMonotone
  OBVIOUS
<1>1. Spec => DQ!DQSpec
  BY RefinesDurableQueue DEF ImplementsDurableQueue
<1>. QED
  BY <1>1, DQ!DQNoLossThm, DQ!DQSafeSteps

=============================================================================
