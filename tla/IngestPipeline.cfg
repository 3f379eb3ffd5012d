CONSTANTS
  MaxLedger <- MCMaxLedger
  MaxTxRead <- MCMaxTxRead
  MaxCrashes <- MCMaxCrashes
  MaxFailures <- MCMaxFailures
  PerformUpdates = FALSE
SPECIFICATION Spec
INVARIANT TypeOK
INVARIANT NoLostContainer
PROPERTY CheckpointMonotone
PROPERTY AllDecoded
PROPERTY ImplementsDurableQueue
