CONSTANTS
  x1 = x1
  x2 = x2
  Assets <- MCAssets
  MaxAmount <- MCMaxAmount
SPECIFICATION Spec
INVARIANT AssetInfoMapSums
