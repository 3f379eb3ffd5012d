CONSTANTS
  t0 = t0
  t1 = t1
  t2 = t2
  t3 = t3
  t4 = t4
  t5 = t5
  u1 = u1
  v1 = v1
  v2 = v2
  al = al
  TxIds <- MCTxIds
  UtxoIds <- MCUtxoIds
  VertexIds <- MCVertexIds
  Aliases <- MCAliases
  Amounts <- MCAmounts
  Genesis <- MCGenesis
  Ledger <- MCAvmLedger
  Vertices <- MCVertices
  PerformUpdates = FALSE
SPECIFICATION AvmSpec
INVARIANT AvmTypeOK
INVARIANT OutputsNumbered
