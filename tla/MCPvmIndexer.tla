---------------------------- MODULE MCPvmIndexer ----------------------------
(***************************************************************************)
(* A P-chain whose genesis has a validator and multisig alias a1 with     *)
(* owner o1, and one genesis block.  Then three blocks: one updating a1   *)
(* to owners {o1, o2} and registering a Camino validator with a reward    *)
(* owner, one updating a1 to {o2}, and one with an AdvanceTimeTx and a    *)
(* deposit.                                                               *)
(***************************************************************************)
EXTENDS PvmIndexer

CONSTANTS g1, g2, g3, t1, t2, t3, t4, t5, pc, b0, b1, b2, b3, a1, o1, o2

MCTxIds == {g1, g2, g3, t1, t2, t3, t4, t5}
MCBlockIds == {pc, b0, b1, b2, b3}
MCAliasIds == {a1}
MCAddrs == {o1, o2}

MkTx(id, kind, owners, rewardOwners) ==
  [id |-> id, kind |-> kind, alias |-> a1, owners |-> owners, auth |-> TRUE,
   rewardOwners |-> rewardOwners]

MCGenesisTxs == << MkTx(g1, "validator", {}, {}), MkTx(g2, "alias", {o1}, {}) >>

MCGenesisBlocks == << [id |-> b0, txs |-> << MkTx(g3, "plain", {}, {}) >>] >>

MCLedger ==
  << [id |-> b1, txs |-> << MkTx(t1, "alias", {o1, o2}, {}),
                            MkTx(t2, "caminoValidator", {}, {o1}) >>],
     [id |-> b2, txs |-> << MkTx(t3, "alias", {o2}, {}) >>],
     [id |-> b3, txs |-> << MkTx(t4, "advanceTime", {}, {}),
                            MkTx(t5, "deposit", {}, {o2}) >>] >>

MCMaxLedger == 3
MCMaxTxRead == 2
MCMaxCrashes == 1
MCNoCrashes == 0
MCMaxFailures == 1

=============================================================================
