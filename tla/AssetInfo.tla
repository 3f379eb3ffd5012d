----------------------------- MODULE AssetInfo -----------------------------
(***************************************************************************)
(* addAssetInfoMap (src/services/indexes/avax/reader_util.go): merges a    *)
(* second map of per-asset statistics into the first, adding the fields   *)
(* of an asset present in both.  Amounts are TokenAmount decimal strings  *)
(* that addStringsFunc parses with big.Int SetString, adds and formats    *)
(* back; the strings the reader reads are canonical decimals, so the      *)
(* round trip is the sum of their values and an amount is a natural here. *)
(***************************************************************************)
EXTENDS Naturals, FiniteSetsExt

CONSTANTS
  Assets,     \* asset ids (models.StringID)
  MaxAmount   \* the largest count or amount in an input

Fields == {"TransactionCount", "UTXOCount", "Balance", "TotalReceived", "TotalSent"}

(* A models.AssetInfo, restricted to the fields addAssetInfos touches.    *)
Info == [Fields -> 0 .. MaxAmount]

(* The maps from a subset of the assets to their statistics.              *)
InfoMaps == UNION {[D -> Info] : D \in SUBSET Assets}

VARIABLES assets, assets2

vars == <<assets, assets2>>

(* addStringsFunc: the decimal sum of two amounts.                        *)
AddStrings(t, f) == t + f

(* addAssetInfos: TransactionCount += f's; UTXOCount += t.UTXOCount (the  *)
(* receiver's own count); the three amounts through addStringsFunc.       *)
AddAssetInfos(t, f) ==
  [k \in Fields |->
     CASE k = "TransactionCount" -> t[k] + f[k]
       [] k = "UTXOCount"        -> t[k] + t[k]
       [] OTHER                  -> AddStrings(t[k], f[k])]

(* One iteration of the range over assets2: add into an existing entry or *)
(* copy the new one.                                                      *)
MergeAsset(k, m) ==
  IF k \in DOMAIN m
    THEN [m EXCEPT ![k] = AddAssetInfos(m[k], assets2[k])]
    ELSE [j \in DOMAIN m \cup {k} |-> IF j = k THEN assets2[k] ELSE m[j]]

(* addAssetInfoMap(assets, assets2): every key of assets2 merged, in the  *)
(* map's (random) iteration order, into assets.                           *)
AddAssetInfoMap == FoldSet(MergeAsset, assets, DOMAIN assets2)

Init == assets \in InfoMaps /\ assets2 \in InfoMaps

Spec == Init /\ [][UNCHANGED vars]_vars

-----------------------------------------------------------------------------
(* The reference: an asset's merged statistics are the field-wise sums of *)
(* its statistics in the two maps, a missing entry counting as zero.      *)
Zero == [k \in Fields |-> 0]

InfoOf(m, a) == IF a \in DOMAIN m THEN m[a] ELSE Zero

MergedSum ==
  [a \in DOMAIN assets \cup DOMAIN assets2 |->
     [k \in Fields |-> InfoOf(assets, a)[k] + InfoOf(assets2, a)[k]]]

(* addAssetInfoMap returns, for every asset of either map, the sum of the *)
(* two maps' transaction counts, UTXO counts and amounts.                 *)
AssetInfoMapSums == AddAssetInfoMap = MergedSum

=============================================================================
