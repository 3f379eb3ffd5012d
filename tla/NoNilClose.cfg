CONSTANTS
  r1 = r1
  r2 = r2
  r3 = r3
  u1 = u1
  u2 = u2
  u3 = u3
  NoRow = NoRow
  Rewards <- MCRewards
  Aborted <- MCAborted
  Utxos <- MCUtxos
  RewardUtxos <- MCRewardUtxos
  MaxCrashes <- MCMaxCrashes
  MaxFailures <- MCMaxFailures
SPECIFICATION Spec
CHECK_DEADLOCK FALSE
INVARIANT NoNilClose
