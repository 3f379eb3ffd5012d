CONSTANTS
  x1 = x1
  x2 = x2
  r1 = r1
  r2 = r2
  w1 = w1
  w2 = w2
  k1 = k1
  c1 = c1
  kv1 = kv1
  v1 = v1
  v2 = v2
  u1 = u1
  s1 = s1
  Addrs <- MCAddrs
  TxIds <- MCTxIds
  Owners <- MCOwners
  RewardTypes <- MCRewardTypes
  Times <- MCTimes
  ChainIds <- MCChainIds
  Blocks <- MCBlocks
  Keys <- MCKeys
  Vals <- MCVals
  OutputIds <- MCOutputIds
  Sigs <- MCSigs
  MaxTxCount <- MCMaxTxCount
  Updates <- MCAnyUpdates
SPECIFICATION PersistSpec
PROPERTY RedeliveryNoop
CHECK_DEADLOCK FALSE
