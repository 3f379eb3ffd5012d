-------------------------- MODULE AvmDecoderProofs --------------------------
(***************************************************************************)
(* Which row wins in the keyed writes of the X-chain writer, for every    *)
(* value of the constants: after persist.InsertAssets or                   *)
(* persist.InsertTransactionsEpoch, a duplicate insert leaves the row of   *)
(* its key as it was, and with cfg.PerformUpdates the UPDATE makes the new *)
(* row the row of its key.  The writer applies them in folds over a       *)
(* transaction's states and a vertex's transactions; that induction is    *)
(* left to TLC.                                                            *)
(***************************************************************************)
EXTENDS AvmDecoder, TLAPS

(* A set of rows with at most one row per key.                            *)
AssetIdsUnique(S) == \A r1, r2 \in S : r1.id = r2.id => r1 = r2

EpochKeysUnique(S) == \A r1, r2 \in S : r1[1] = r2[1] => r1 = r2

(* After InsertAssets the row of a's id is a when the UPDATE runs or the  *)
(* id was new, and the earlier row otherwise: a redelivered CreateAssetTx *)
(* with PerformUpdates false keeps the first supply written.              *)
THEOREM InsertAssetsRowOfId ==
  ASSUME NEW d \in AvmDbType, NEW a, NEW upd \in BOOLEAN,
         AssetIdsUnique(d.assets)
  PROVE  \A r \in InsertAssets(d, a, upd).assets :
           r.id = a.id =>
             r = IF upd \/ ~\E q \in d.assets : q.id = a.id
                   THEN a
                   ELSE CHOOSE q \in d.assets : q.id = a.id
<1> DEFINE T == InsertAssets(d, a, upd).assets
<1>1. CASE (\E r \in d.assets : r.id = a.id) /\ upd
  <2>1. T = {r \in d.assets : r.id /= a.id} \cup {a}
    BY <1>1 DEF InsertAssets, Upsert, AvmDbType
  <2> QED
    BY <1>1, <2>1
<1>2. CASE (\E r \in d.assets : r.id = a.id) /\ ~upd
  <2>1. T = d.assets
    BY <1>2 DEF InsertAssets, Upsert, AvmDbType
  <2>2. PICK q0 \in d.assets : q0.id = a.id
    BY <1>2
  <2>3. (CHOOSE q \in d.assets : q.id = a.id) = q0
    BY <2>2 DEF AssetIdsUnique
  <2> QED
    BY <1>2, <2>1, <2>2, <2>3 DEF AssetIdsUnique
<1>3. CASE ~\E r \in d.assets : r.id = a.id
  <2>1. T = d.assets \cup {a}
    BY <1>3 DEF InsertAssets, Upsert, AvmDbType
  <2> QED
    BY <1>3, <2>1
<1> QED
  BY <1>1, <1>2, <1>3

(* After InsertTransactionsEpoch the row of the transaction is the       *)
(* vertex's when the UPDATE runs or the transaction was new, and the      *)
(* earlier one otherwise: with PerformUpdates false a transaction that    *)
(* appears in a later vertex keeps the epoch of the first one consumed,   *)
(* and with it the last vertex consumed wins.                             *)
THEOREM InsertTransactionsEpochRowOfTx ==
  ASSUME NEW d \in AvmDbType, NEW txId, NEW v, NEW upd \in BOOLEAN,
         EpochKeysUnique(d.epochs)
  PROVE  \A r \in InsertTransactionsEpoch(d, txId, v, upd).epochs :
           r[1] = txId =>
             r = IF upd \/ ~\E q \in d.epochs : q[1] = txId
                   THEN <<txId, v.id, v.epoch>>
                   ELSE CHOOSE q \in d.epochs : q[1] = txId
<1> DEFINE row == <<txId, v.id, v.epoch>>
           T == InsertTransactionsEpoch(d, txId, v, upd).epochs
<1>1. CASE (\E r \in d.epochs : r[1] = txId) /\ upd
  <2>1. T = {r \in d.epochs : r[1] /= txId} \cup {row}
    BY <1>1 DEF InsertTransactionsEpoch, Upsert, AvmDbType
  <2> QED
    BY <1>1, <2>1
<1>2. CASE (\E r \in d.epochs : r[1] = txId) /\ ~upd
  <2>1. T = d.epochs
    BY <1>2 DEF InsertTransactionsEpoch, Upsert, AvmDbType
  <2>2. PICK q0 \in d.epochs : q0[1] = txId
    BY <1>2
  <2>3. (CHOOSE q \in d.epochs : q[1] = txId) = q0
    BY <2>2 DEF EpochKeysUnique
  <2> QED
    BY <1>2, <2>1, <2>2, <2>3 DEF EpochKeysUnique
<1>3. CASE ~\E r \in d.epochs : r[1] = txId
  <2>1. T = d.epochs \cup {row}
    BY <1>3 DEF InsertTransactionsEpoch, Upsert, AvmDbType
  <2> QED
    BY <1>3, <2>1
<1> QED
  BY <1>1, <1>2, <1>3

=============================================================================
