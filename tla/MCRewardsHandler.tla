------------------------- MODULE MCRewardsHandler -------------------------
(***************************************************************************)
(* Three rows of the rewards table: r1 with two reward UTXOs, r2 with one, *)
(* and r3 of an aborted block.  In the second answer of the node, r1 has  *)
(* no UTXOs and r2 has two.                                               *)
(***************************************************************************)
EXTENDS RewardsHandler

CONSTANTS r1, r2, r3, u1, u2, u3

MCRewards == {r1, r2, r3}
MCAborted == {r3}
MCUtxos == {u1, u2, u3}
MCRewardUtxos == [r \in MCRewards |->
                    CASE r = r1 -> {u1, u2} [] r = r2 -> {u3} [] OTHER -> {}]
MCRewardUtxosMissing == [r \in MCRewards |-> IF r = r2 THEN {u2, u3} ELSE {}]
MCMaxCrashes == 1
MCMaxFailures == 2

=============================================================================
