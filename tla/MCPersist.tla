----------------------------- MODULE MCPersist ------------------------------
(***************************************************************************)
(* Two C-chain addresses, two rewards with two possible owners, one chain *)
(* of the block cache with two blocks, one key with two values, and       *)
(* tx_count bounded by 2, so that a duplicate account insert and a second *)
(* IncrBy both happen; one output with a row per address, one signature, *)
(* so that a spend can precede a re-insert.  Callers may pass either upd. *)
(***************************************************************************)
EXTENDS Persist

CONSTANTS x1, x2, r1, r2, w1, w2, k1, c1, kv1, v1, v2, u1, s1

MCAddrs == {x1, x2}
MCTxIds == {r1, r2}
MCOwners == {w1, w2}
MCRewardTypes == {k1}
MCTimes == {1, 2}
MCChainIds == {c1}
MCBlocks == {1, 2}
MCKeys == {kv1}
MCVals == {v1, v2}
MCOutputIds == {u1}
MCSigs == {s1}
MCMaxTxCount == 2
MCAnyUpdates == BOOLEAN

=============================================================================
