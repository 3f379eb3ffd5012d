---------------------------- MODULE MCAssetInfo ----------------------------
EXTENDS AssetInfo

CONSTANTS x1, x2

MCAssets == {x1, x2}
MCMaxAmount == 1

=============================================================================
