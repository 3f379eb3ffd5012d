----------------------------- MODULE AvmDecoder -----------------------------
(***************************************************************************)
(* The X-chain decoder (src/services/indexes/avm/writer.go): Bootstrap     *)
(* indexes the genesis assets, Consume decodes one transaction container  *)
(* and ConsumeConsensus one vertex, each inside one database transaction  *)
(* (Bootstrap without one).                                                *)
(*                                                                         *)
(* A transaction is a record of what the writer reads: its id, the branch *)
(* of insertTxInternal's type switch, the amounts of its Outs, of the     *)
(* outputs of each of its States or Ops (in order), and the UTXOs its Ops  *)
(* spend.  avax.Writer (InsertTransaction, InsertTransactionOuts,          *)
(* ProcessStateOut) is not under src/: its effect is modelled from its    *)
(* uses here, an output row keyed by (tx, index) and the running amount.  *)
(***************************************************************************)
EXTENDS Naturals, Sequences, SequencesExt

CONSTANTS
  Genesis,         \* the CreateAssetTxs of the AVM genesis, with their alias
  Ledger,          \* the X-chain transaction containers
  Vertices,        \* the consensus containers: [id, epoch, txs]
  TxIds, UtxoIds, VertexIds, Aliases,
  Amounts,         \* output amounts
  PerformUpdates   \* cfg.PerformUpdates

AvmKinds == {"createAsset", "operation", "import", "export", "base", "unknown"}

AvmTx == [id : TxIds, kind : AvmKinds, outs : Seq(Amounts),
          states : Seq(Seq(Amounts)), utxos : SUBSET UtxoIds]

Vertex == [id : VertexIds, epoch : Nat, txs : Seq(TxIds)]

ASSUME AvmAssumption ==
  /\ Genesis \in Seq([tx : AvmTx, alias : Aliases])
  /\ Ledger \in Seq(AvmTx)
  /\ Vertices \in Seq(Vertex)
  /\ "" \notin Aliases
  /\ PerformUpdates \in BOOLEAN

VARIABLES
  db,          \* the business tables the writer touches
  applied,     \* ledger positions whose decode has committed
  bootstrapped \* Bootstrap has returned without error

avmVars == <<db, applied, bootstrapped>>

AssetRow == [id : TxIds, alias : Aliases \cup {""}, supply : Nat, genesis : BOOLEAN]

AvmDbType ==
  [transactions : SUBSET TxIds,                       \* avm_transactions
   outputs : SUBSET (TxIds \X Nat \X Amounts),        \* avm_outputs
   inputs : SUBSET (TxIds \X UtxoIds),                \* avm_output_addresses / inputs
   assets : SUBSET AssetRow,                          \* assets
   epochs : SUBSET (TxIds \X VertexIds \X Nat)]       \* transactions_epoch

AvmDbInit == [transactions |-> {}, outputs |-> {}, inputs |-> {}, assets |-> {},
              epochs |-> {}]

-----------------------------------------------------------------------------
(* A row keyed by key(row) is inserted, a duplicate ignored; with upd the *)
(* UPDATE then overwrites the row of that key (persist.InsertAssets,      *)
(* persist.InsertTransactionsEpoch).                                      *)
Upsert(rows, row, Key(_), upd) ==
  IF \E r \in rows : Key(r) = Key(row)
    THEN IF upd THEN {r \in rows : Key(r) /= Key(row)} \cup {row} ELSE rows
    ELSE rows \cup {row}

InsertAssets(d, a, upd) ==
  [d EXCEPT !.assets = Upsert(@, a, LAMBDA r : r.id, upd)]

(* Mutant: the vertex id and the transaction id are swapped.             *)
InsertTransactionsEpochSwapped(d, txId, v, upd) ==
  [d EXCEPT !.epochs = Upsert(@, <<v.id, txId, v.epoch>>, LAMBDA r : r[1], upd)]

InsertTransactionsEpoch(d, txId, v, upd) ==
  [d EXCEPT !.epochs = Upsert(@, <<txId, v.id, v.epoch>>, LAMBDA r : r[1], upd)]

(* persist.InsertOutputs, which avax.InsertTransactionOuts and            *)
(* ProcessStateOut call: the output row at index idx, keyed by the id     *)
(* computed from (tx, idx), a duplicate ignored.                           *)
InsertOutput(d, txId, idx, amt) == [d EXCEPT !.outputs = @ \cup {<<txId, idx, amt>>}]

(* persist.InsertTransactions: the row keyed by the tx id.                *)
InsertTransactions(d, txId) == [d EXCEPT !.transactions = @ \cup {txId}]

(* persist.InsertOutputsRedeeming: the input spending UTXO u.             *)
InsertOutputsRedeeming(d, txId, u) == [d EXCEPT !.inputs = @ \cup {<<txId, u>>}]

(* The loops of the writer carry the database, outputCount and the       *)
(* running amount that ProcessStateOut returns.                           *)
Acc0(d) == [d |-> d, count |-> 0, amount |-> 0]

(* for _, out := range tx.Outs { InsertTransactionOuts(outputCount, ...); *)
(* outputCount++ }                                                        *)
InsertTransactionOuts(acc, txId, outs) ==
  FoldLeft(LAMBDA a, amt : [a EXCEPT !.d = InsertOutput(a.d, txId, a.count, amt),
                                     !.count = @ + 1],
           acc, outs)

(* Mutant: outputCount is not incremented after a ProcessStateOut.       *)
ProcessStateOutsNoIncrement(acc, txId, outs) ==
  FoldLeft(LAMBDA a, amt : [a EXCEPT !.d = InsertOutput(a.d, txId, a.count, amt),
                                     !.amount = @ + amt],
           acc, outs)

(* for _, out := range outs { amount, totalout, err = ProcessStateOut(...,*)
(* outputCount, ..., amount, ...); outputCount++ }                       *)
ProcessStateOuts(acc, txId, outs) ==
  FoldLeft(LAMBDA a, amt : [a EXCEPT !.d = InsertOutput(a.d, txId, a.count, amt),
                                     !.count = @ + 1, !.amount = @ + amt],
           acc, outs)

(* avax.InsertTransaction: the transaction row, its Outs once more at     *)
(* indices 0 .. Len(outs) - 1, and its inputs.                            *)
InsertTransaction(d, tx) ==
  LET o == InsertTransactionOuts(Acc0(d), tx.id, tx.outs).d
  IN FoldSet(LAMBDA u, e : InsertOutputsRedeeming(e, tx.id, u),
             InsertTransactions(o, tx.id), tx.utxos)

(* insertCreateAssetTx: the Outs from index 0, then the outputs of every  *)
(* State from the next index, the assets row with the amount they carry  *)
(* as current_supply, then InsertTransaction.                             *)
InsertCreateAssetTx(d, tx, alias, genesis) ==
  LET a1 == InsertTransactionOuts(Acc0(d), tx.id, tx.outs)
      a2 == FoldLeft(LAMBDA a, st : ProcessStateOuts(a, tx.id, st), a1, tx.states)
      row == [id |-> tx.id, alias |-> alias, supply |-> a2.amount, genesis |-> genesis]
  IN InsertTransaction(InsertAssets(a2.d, row, PerformUpdates), tx)

(* insertOperationTx: the Outs from index 0, then the outputs of every Op *)
(* from the next index, then InsertTransaction with the Ops' UTXOs as     *)
(* inputs.                                                                *)
InsertOperationTx(d, tx) ==
  LET a1 == InsertTransactionOuts(Acc0(d), tx.id, tx.outs)
      a2 == FoldLeft(LAMBDA a, op : ProcessStateOuts(a, tx.id, op), a1, tx.states)
  IN InsertTransaction(a2.d, tx)

(* insertTxInternal's type switch; the default branch is an error.       *)
InsertTxInternal(d, tx) ==
  CASE tx.kind = "createAsset" -> InsertCreateAssetTx(d, tx, "", FALSE)
    [] tx.kind = "operation"   -> InsertOperationTx(d, tx)
    [] OTHER                   -> InsertTransaction(d, tx)

(* insertTx fails (parse error or unknown type): the transaction rolls   *)
(* back.                                                                  *)
InsertTxFails(tx) == tx.kind = "unknown"

-----------------------------------------------------------------------------
AvmInit ==
  /\ db = AvmDbInit
  /\ applied = {}
  /\ bootstrapped = FALSE

(* Writer.Consume of ledger position p: insertTx in one transaction,     *)
(* committed.  The consumer may deliver a container again.                 *)
Consume(p) ==
  /\ ~InsertTxFails(Ledger[p])
  /\ db' = InsertTxInternal(db, Ledger[p])
  /\ applied' = applied \cup {p}
  /\ UNCHANGED bootstrapped

(* Writer.ConsumeConsensus of vertex v: InsertTransactionsEpoch for each *)
(* of its transactions, in one transaction.                               *)
ConsumeConsensus(v) ==
  /\ db' = FoldLeft(LAMBDA e, t : InsertTransactionsEpoch(e, t, v, PerformUpdates),
                    db, v.txs)
  /\ UNCHANGED <<applied, bootstrapped>>

(* insertGenesis for the first k genesis assets.                         *)
InsertGenesis(d, k) ==
  FoldLeft(LAMBDA e, g : InsertCreateAssetTx(e, g.tx, g.alias, TRUE),
           d, SubSeq(Genesis, 1, k))

(* Writer.Bootstrap at every daemon start: insertGenesis writes through  *)
(* a session, not a transaction, so an error after k assets leaves them. *)
Bootstrap ==
  /\ db' = InsertGenesis(db, Len(Genesis))
  /\ bootstrapped' = TRUE
  /\ UNCHANGED applied

BootstrapError ==
  /\ \E k \in 0 .. Len(Genesis) - 1 : db' = InsertGenesis(db, k)
  /\ UNCHANGED <<applied, bootstrapped>>

AvmNext ==
  \/ Bootstrap
  \/ BootstrapError
  \/ \E p \in DOMAIN Ledger : Consume(p)
  \/ \E i \in DOMAIN Vertices : ConsumeConsensus(Vertices[i])

AvmSpec == AvmInit /\ [][AvmNext]_avmVars

-----------------------------------------------------------------------------
(* The tables' types; assets and transactions_epoch have one row per id.  *)
AvmTypeOK ==
  /\ db \in AvmDbType
  /\ \A r1, r2 \in db.assets : r1.id = r2.id => r1 = r2
  /\ \A r1, r2 \in db.epochs : r1[1] = r2[1] => r1 = r2
  /\ applied \subseteq DOMAIN Ledger
  /\ bootstrapped \in BOOLEAN

(* The outputs of a CreateAssetTx or OperationTx in the order the writer  *)
(* visits them: the Outs, then the outputs of each State or Op.          *)
AllOuts(tx) == tx.outs \o FlattenSeq(tx.states)

(* A decoded CreateAssetTx or OperationTx has exactly one output row per  *)
(* output, numbered 0, 1, ... in visiting order: the numbering of the    *)
(* Outs pass, of the States/Ops pass and of InsertTransaction's own pass  *)
(* over the Outs agree, whatever the redeliveries.                        *)
OutputsNumbered ==
  \A p \in applied :
    LET tx == Ledger[p] IN
      tx.kind \in {"createAsset", "operation"} =>
        {<<r[2], r[3]>> : r \in {r \in db.outputs : r[1] = tx.id}} =
          {<<i - 1, AllOuts(tx)[i]>> : i \in DOMAIN AllOuts(tx)}

=============================================================================
