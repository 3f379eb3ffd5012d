---------------------------- MODULE MCAvmDecoder ----------------------------
(***************************************************************************)
(* Two genesis assets; a CreateAssetTx with two States, an OperationTx    *)
(* with two output amounts in one Op, a BaseTx and a transaction of an    *)
(* unknown type; two vertices that both hold the OperationTx.             *)
(***************************************************************************)
EXTENDS AvmDecoder

CONSTANTS t0, t1, t2, t3, t4, t5, u1, v1, v2, al

MCTxIds == {t0, t1, t2, t3, t4, t5}
MCUtxoIds == {u1}
MCVertexIds == {v1, v2}
MCAliases == {al}
MCAmounts == {1, 2}

MkAvmTx(id, kind, outs, states, utxos) ==
  [id |-> id, kind |-> kind, outs |-> outs, states |-> states, utxos |-> utxos]

MCGenesis == << [tx |-> MkAvmTx(t0, "createAsset", <<>>, <<<<2>>>>, {}), alias |-> al],
               [tx |-> MkAvmTx(t1, "createAsset", <<1>>, <<<<2>>>>, {}), alias |-> al] >>

MCAvmLedger ==
  << MkAvmTx(t2, "createAsset", <<1>>, <<<<2>>, <<1>>>>, {}),
     MkAvmTx(t3, "operation", <<>>, <<<<1, 2>>>>, {u1}),
     MkAvmTx(t4, "base", <<2>>, <<>>, {u1}),
     MkAvmTx(t5, "unknown", <<>>, <<>>, {}) >>

MCVertices == << [id |-> v1, epoch |-> 0, txs |-> <<t2, t3>>],
                 [id |-> v2, epoch |-> 1, txs |-> <<t3, t4>>] >>

=============================================================================
