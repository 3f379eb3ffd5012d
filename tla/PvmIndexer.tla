----------------------------- MODULE PvmIndexer -----------------------------
(***************************************************************************)
(* The P-chain indexer of one topic: the ingestion pipeline of             *)
(* IngestPipeline whose consumer hands each tx_pool row to the P-chain     *)
(* decoder of PvmDecoder.  consumerDB.persistConsume calls Writer.Consume  *)
(* for a "decisions" row, so the pipeline's Consume step (the decoder     *)
(* transaction committing) is the step that applies IndexBlock to the      *)
(* business tables; every other step leaves them alone.  At every start   *)
(* the daemon runs consumers.Bootstrap, which runs the writer's Bootstrap, *)
(* before it starts the producer and the consumer.                         *)
(***************************************************************************)
EXTENDS IngestPipeline, PvmDecoder

ASSUME LedgerLengthAssumption == Len(Ledger) = MaxLedger

VARIABLES
  booted,  \* this process's Bootstrap has returned without error
  gDone    \* the number of genesis txs indexed so far

indexerVars == <<vars, db, booted, gDone>>

IndexerInit == Init /\ DbInit /\ booted = FALSE /\ gDone = 0

(* runStreamProcessorManagers -> consumers.Bootstrap -> Writer.Bootstrap. *)
Bootstrap ==
  /\ ~booted
  /\ db' = BootstrapUpTo(db, Len(GenesisTxs), Len(GenesisBlocks))
  /\ booted' = TRUE
  /\ gDone' = Len(GenesisTxs)
  /\ UNCHANGED vars

(* Bootstrap fails: the daemon returns and is started again.              *)
BootstrapError ==
  /\ ~booted
  /\ Fail
  /\ \E pt \in BootstrapErrorPoints :
       /\ db' = BootstrapUpTo(db, pt[1], pt[2])
       /\ gDone' = IF pt[1] > gDone THEN pt[1] ELSE gDone
  /\ UNCHANGED <<ledger, nodeIdx, txPool, applied, pState, memIdx, batchLen,
                 inserted, cState, cRow, crashes, booted>>

(* persistConsume -> Writer.Consume commits the decode of row cRow.       *)
ConsumeDecode ==
  /\ booted
  /\ Consume
  /\ DecodeContainer(cRow)
  /\ UNCHANGED <<booted, gDone>>

(* The producer and consumer steps that do not touch the business tables; *)
(* they run once Bootstrap has returned.                                  *)
PipelineOnly ==
  \/ booted /\ Producer
  \/ booted /\ \E row \in Positions : ConsumerRead(row)
  \/ booted /\ ConsumeError
  \/ booted /\ RemoveTxPool
  \/ booted /\ RemoveTxPoolError

(* The process dies: the next start bootstraps again.                     *)
CrashRestart == Crash /\ booted' = FALSE /\ UNCHANGED <<db, gDone>>

IndexerNext ==
  \/ Bootstrap
  \/ BootstrapError
  \/ ConsumeDecode
  \/ Accept /\ UNCHANGED <<db, booted, gDone>>
  \/ CrashRestart
  \/ PipelineOnly /\ UNCHANGED <<db, booted, gDone>>

IndexerSpec == IndexerInit /\ [][IndexerNext]_indexerVars

-----------------------------------------------------------------------------
IndexerTypeOK ==
  /\ TypeOK
  /\ db \in DbType
  /\ booted \in BOOLEAN
  /\ gDone \in 0 .. Len(GenesisTxs)

(* The alias transactions whose writes have committed: the genesis ones   *)
(* Bootstrap has indexed (position 0) and the decoded ones of the ledger. *)
DecodedAliasTxs ==
  AliasTxsAt(applied) \cup
  {<<0, i>> : i \in {j \in 1 .. gDone : GenesisTxs[j].kind = "alias"}}

(* Writer.InsertMultisigAlias replaces an alias's owners inside the       *)
(* decoder transaction: the multisig_aliases rows of an alias are always  *)
(* exactly the owner rows of one indexed alias transaction, never a mix   *)
(* of two, whatever redeliveries, restarts and crashes happen.            *)
AliasRowsFromOneTx ==
  \A a \in AliasIds :
    AliasRowsOf(a) = {} \/
    \E pi \in DecodedAliasTxs : TxAt(pi).alias = a /\ AliasRowsOf(a) = RowsOfTx(TxAt(pi))

(* The decoder contract (spec 4.4, 6): decoding is idempotent under       *)
(* at-least-once redelivery and independent of the consumer's order, so   *)
(* an alias's owners are those of its latest alias transaction, in chain  *)
(* order (the genesis first), among the indexed ones.                     *)
LatestAliasTx(a) ==
  CHOOSE pi \in DecodedAliasTxs :
    /\ TxAt(pi).alias = a
    /\ \A pj \in DecodedAliasTxs :
         TxAt(pj).alias = a => (pj[1] < pi[1] \/ (pj[1] = pi[1] /\ pj[2] <= pi[2]))

AliasOwnersLatest ==
  \A a \in AliasIds :
    (\E pi \in DecodedAliasTxs : TxAt(pi).alias = a) =>
       AliasRowsOf(a) = RowsOfTx(TxAt(LatestAliasTx(a)))

=============================================================================
