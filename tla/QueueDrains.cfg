CONSTANTS
  MaxLedger <- MCMaxLedger
  MaxTxRead <- MCMaxTxRead
  MaxCrashes <- MCMaxCrashes
  MaxFailures <- MCMaxFailures
  PerformUpdates = FALSE
SPECIFICATION Spec
PROPERTY QueueDrains
