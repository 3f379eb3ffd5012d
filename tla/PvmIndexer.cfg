CONSTANTS
  g1 = g1  g2 = g2  g3 = g3  pc = pc  b0 = b0
  t1 = t1  t2 = t2  t3 = t3  t4 = t4  t5 = t5
  b1 = b1  b2 = b2  b3 = b3
  a1 = a1  o1 = o1  o2 = o2
  TxIds <- MCTxIds
  BlockIds <- MCBlockIds
  AliasIds <- MCAliasIds
  Addrs <- MCAddrs
  Ledger <- MCLedger
  GenesisTxs <- MCGenesisTxs
  GenesisBlocks <- MCGenesisBlocks
  ChainID <- pc
  MaxLedger <- MCMaxLedger
  MaxTxRead <- MCMaxTxRead
  MaxCrashes <- MCMaxCrashes
  MaxFailures <- MCMaxFailures
  PerformUpdates = FALSE
SPECIFICATION IndexerSpec
INVARIANT IndexerTypeOK
INVARIANT AliasRowsFromOneTx
PROPERTY ImplementsDurableQueue
