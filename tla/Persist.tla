------------------------------ MODULE Persist ------------------------------
(***************************************************************************)
(* The writers of src/db/dbmodel.go whose handling of an existing key is  *)
(* more than "insert, ignore a duplicate, optionally overwrite with the    *)
(* same values": InsertCvmAccount (an IncrBy on a duplicate),              *)
(* InsertReward (ON DUPLICATE KEY UPDATE updated_at), DeactivateReward     *)
(* (select, delete, re-insert), InsertCamLastBlockCache (an UPDATE only,   *)
(* or an INSERT only), InsertKeyValueStore, and the writers of the rows   *)
(* later steps mark: output_addresses (a redeeming signature, set when    *)
(* the output is spent), output_addresses_accumulate_in (output_processed) *)
(* and the accumulate_balances_* rows (the totals the balance manager     *)
(* adds up, modelled from the schema's use).  Their callers are not       *)
(* under src/: any call, with any arguments from small sets and any upd   *)
(* the callers may pass, can be made at any time, and again.               *)
(*                                                                         *)
(* A table is a function from its key to the columns the model keeps.     *)
(* The reward table is keyed by tx_id, the key DeactivateReward selects   *)
(* and deletes by.  Every statement can fail; a failed statement changes  *)
(* nothing and its error is returned.                                     *)
(***************************************************************************)
EXTENDS Naturals

CONSTANTS
  Addrs,        \* cvm_accounts.address
  TxIds,        \* reward.tx_id
  Owners,       \* reward.reward_owner_hash (and the owner bytes)
  RewardTypes,  \* reward.type
  Times,        \* created_at / updated_at values
  ChainIds,     \* cam_last_block_cache.chainid
  Blocks,       \* cam_last_block_cache.current_block
  Keys, Vals,   \* key_value_store.k, .v
  OutputIds,    \* output_addresses.output_id
  Sigs,         \* redeeming signatures
  Updates,      \* the values callers pass as upd (cfg.PerformUpdates)
  MaxTxCount    \* bound on a tx_count or a total, so that they stay finite

(* What the proofs assume of the constants.                              *)
PersistConstants ==
  /\ Updates \subseteq BOOLEAN
  /\ MaxTxCount \in Nat
  /\ Keys /= {}
  /\ Vals /= {}

VARIABLES
  cvmAccounts,  \* cvm_accounts: address -> tx_count
  reward,       \* reward: tx_id -> [owner, type, updated]
  camCache,     \* cam_last_block_cache: chainid -> current_block
  kvStore,      \* key_value_store: k -> v
  outAddrs,     \* output_addresses: (output_id, address) -> signature or "nil"
  accIn,        \* output_addresses_accumulate_in: (output_id, address) -> output_processed
  accOut,       \* output_addresses_accumulate_out: the keys of its rows
  balances,     \* accumulate_balances_{received,sent,transactions}: (kind, address) -> total
  call,         \* the call of the last step
  ret           \* what it returned: "ok", "duplicate" (a duplicate-key
                \* error) or "error" (any other error); "none" before any

(* The tables whose rows later steps mark.                                *)
progress == <<outAddrs, accIn, accOut, balances>>

tables == <<cvmAccounts, reward, camCache, kvStore, outAddrs, accIn, accOut, balances>>
persistVars == <<cvmAccounts, reward, camCache, kvStore, outAddrs, accIn, accOut,
                 balances, call, ret>>

(* An output_addresses key, and a signature or its absence (a nil         *)
(* RedeemingSignature).                                                   *)
OutKeys == OutputIds \X Addrs
SigOrNil == Sigs \cup {"nil"}

BalanceKinds == {"received", "sent", "transactions"}

RewardRow == [owner : Owners, type : RewardTypes, updated : Times]

Call == [op : {"cvmAccount"}, key : Addrs, val : 1 .. MaxTxCount, upd : BOOLEAN]
          \cup [op : {"reward"}, key : TxIds, val : RewardRow]
          \cup [op : {"deactivate"}, key : TxIds, val : RewardRow]
          \cup [op : {"camCache"}, key : ChainIds, val : Blocks, upd : BOOLEAN]
          \cup [op : {"kv"}, key : Keys, val : Vals]
          \cup [op : {"outputAddresses"}, key : OutKeys, val : SigOrNil, upd : BOOLEAN]
          \cup [op : {"updateOutputAddresses"}, key : OutKeys, val : SigOrNil]
          \cup [op : {"accumulateIn", "accumulateOut"}, key : OutKeys, upd : BOOLEAN]
          \cup [op : {"outputsProcessed"}, key : OutputIds]
          \cup [op : {"balance"}, key : BalanceKinds \X Addrs]
          \cup [op : {"accumulate"}, key : BalanceKinds \X Addrs]

(* The tables whose keys are in K and whose rows are in V.                *)
Table(K, V) == UNION {[D -> V] : D \in SUBSET K}

EmptyTable == [x \in {} |-> {}]

PersistInit ==
  /\ cvmAccounts = EmptyTable
  /\ reward = EmptyTable
  /\ camCache = EmptyTable
  /\ kvStore = EmptyTable
  /\ outAddrs = EmptyTable
  /\ accIn = EmptyTable
  /\ accOut = {}
  /\ balances = EmptyTable
  /\ call = [op |-> "kv", key |-> CHOOSE k \in Keys : TRUE, val |-> CHOOSE v \in Vals : TRUE]
  /\ ret = "none"

(* An INSERT of row v at key k into m; a duplicate key is ignored.       *)
InsertIgnore(m, k, v) == [x \in DOMAIN m \cup {k} |-> IF x \in DOMAIN m THEN m[x] ELSE v]

(* A DELETE of the row at key k.                                          *)
Without(m, k) == [x \in DOMAIN m \ {k} |-> m[x]]

-----------------------------------------------------------------------------
(* persist.InsertCvmAccount: the INSERT; on a duplicate without upd the  *)
(* duplicate-key error is returned, with upd tx_count is incremented by  *)
(* the call's count.                                                       *)
InsertCvmAccount(a, n, upd) ==
  /\ call' = [op |-> "cvmAccount", key |-> a, val |-> n, upd |-> upd]
  /\ \/ /\ a \notin DOMAIN cvmAccounts
        /\ cvmAccounts' = InsertIgnore(cvmAccounts, a, n)
        /\ ret' = "ok"
     \/ /\ a \in DOMAIN cvmAccounts
        /\ ~upd
        /\ ret' = "duplicate"
        /\ UNCHANGED cvmAccounts
     \/ /\ a \in DOMAIN cvmAccounts
        /\ upd
        /\ cvmAccounts[a] + n <= MaxTxCount
        /\ cvmAccounts' = [cvmAccounts EXCEPT ![a] = @ + n]
        /\ ret' = "ok"
  /\ UNCHANGED <<reward, camCache, kvStore, progress>>

(* persist.InsertReward: INSERT ... ON DUPLICATE KEY UPDATE updated_at.  *)
InsertReward(t, row) ==
  /\ call' = [op |-> "reward", key |-> t, val |-> row]
  /\ reward' = IF t \in DOMAIN reward
                 THEN [reward EXCEPT ![t].updated = row.updated]
                 ELSE InsertIgnore(reward, t, row)
  /\ ret' = "ok"
  /\ UNCHANGED <<cvmAccounts, camCache, kvStore, progress>>

(* persist.DeactivateReward of the caller's reward row (only its tx id   *)
(* and created_at are read): LoadOne of the stored owner and type, an    *)
(* error if there is none; DeleteFrom; then InsertReward of the stored   *)
(* owner and type with the caller's created_at.  The re-insert can fail  *)
(* after the delete; whether the delete then stays is the caller's       *)
(* session's business, and the model lets it stay.                      *)
DeactivateReward(t, row) ==
  /\ call' = [op |-> "deactivate", key |-> t, val |-> row]
  /\ \/ /\ t \notin DOMAIN reward
        /\ ret' = "error"
        /\ UNCHANGED reward
     \/ /\ t \in DOMAIN reward
        /\ reward' = [reward EXCEPT ![t].updated = row.updated]
        /\ ret' = "ok"
     \/ /\ t \in DOMAIN reward
        /\ reward' = Without(reward, t)
        /\ ret' = "error"
  /\ UNCHANGED <<cvmAccounts, camCache, kvStore, progress>>

(* persist.InsertCamLastBlockCache: with upd only the UPDATE of the       *)
(* chain's row (none if it has no row), without upd only the INSERT, a   *)
(* duplicate ignored.                                                      *)
InsertCamLastBlockCache(c, b, upd) ==
  /\ call' = [op |-> "camCache", key |-> c, val |-> b, upd |-> upd]
  /\ camCache' = IF upd
                   THEN [x \in DOMAIN camCache |-> IF x = c THEN b ELSE camCache[x]]
                   ELSE InsertIgnore(camCache, c, b)
  /\ ret' = "ok"
  /\ UNCHANGED <<cvmAccounts, reward, kvStore, progress>>

(* persist.InsertKeyValueStore: the INSERT, a duplicate ignored.          *)
InsertKeyValueStore(k, v) ==
  /\ call' = [op |-> "kv", key |-> k, val |-> v]
  /\ kvStore' = InsertIgnore(kvStore, k, v)
  /\ ret' = "ok"
  /\ UNCHANGED <<cvmAccounts, reward, camCache, progress>>

(* persist.InsertOutputAddresses: the INSERT, with redeeming_signature    *)
(* only when the caller has one, a duplicate ignored; with upd the        *)
(* UPDATE of the row, which sets redeeming_signature only when the caller *)
(* has one.                                                                *)
InsertOutputAddresses(k, sig, upd) ==
  /\ call' = [op |-> "outputAddresses", key |-> k, val |-> sig, upd |-> upd]
  /\ outAddrs' = IF k \in DOMAIN outAddrs /\ upd /\ sig /= "nil"
                   THEN [outAddrs EXCEPT ![k] = sig]
                   ELSE InsertIgnore(outAddrs, k, sig)
  /\ ret' = "ok"
  /\ UNCHANGED <<cvmAccounts, reward, camCache, kvStore, accIn, accOut, balances>>

(* persist.UpdateOutputAddresses: the UPDATE of redeeming_signature to    *)
(* the caller's value, of the row if there is one.                        *)
UpdateOutputAddresses(k, sig) ==
  /\ call' = [op |-> "updateOutputAddresses", key |-> k, val |-> sig]
  /\ outAddrs' = [x \in DOMAIN outAddrs |-> IF x = k THEN sig ELSE outAddrs[x]]
  /\ ret' = "ok"
  /\ UNCHANGED <<cvmAccounts, reward, camCache, kvStore, accIn, accOut, balances>>

(* persist.InsertOutputAddressAccumulateIn: the INSERT (output_processed  *)
(* takes its default, 0), a duplicate ignored; the UPDATE with upd sets   *)
(* the columns of the key only, all of them functions of the key.         *)
InsertOutputAddressAccumulateIn(k, upd) ==
  /\ call' = [op |-> "accumulateIn", key |-> k, upd |-> upd]
  /\ accIn' = InsertIgnore(accIn, k, FALSE)
  /\ ret' = "ok"
  /\ UNCHANGED <<cvmAccounts, reward, camCache, kvStore, outAddrs, accOut, balances>>

(* persist.UpdateOutputAddressAccumulateInOutputsProcessed: output_processed *)
(* set on every row of the output id.                                     *)
UpdateOutputAddressAccumulateInOutputsProcessed(o) ==
  /\ call' = [op |-> "outputsProcessed", key |-> o]
  /\ accIn' = [x \in DOMAIN accIn |-> IF x[1] = o THEN TRUE ELSE accIn[x]]
  /\ ret' = "ok"
  /\ UNCHANGED <<cvmAccounts, reward, camCache, kvStore, outAddrs, accOut, balances>>

(* persist.InsertOutputAddressAccumulateOut: as the _in writer, on a      *)
(* table whose only other column, processed, no writer here sets.          *)
InsertOutputAddressAccumulateOut(k, upd) ==
  /\ call' = [op |-> "accumulateOut", key |-> k, upd |-> upd]
  /\ accOut' = accOut \cup {k}
  /\ ret' = "ok"
  /\ UNCHANGED <<cvmAccounts, reward, camCache, kvStore, outAddrs, accIn, balances>>

(* persist.InsertAccumulateBalancesReceived, ...Sent and ...Transactions: *)
(* the INSERT of the (chain, asset, address) row without a total (the    *)
(* column default, 0), a duplicate ignored.                                *)
InsertAccumulateBalances(kind, a) ==
  /\ call' = [op |-> "balance", key |-> <<kind, a>>]
  /\ balances' = InsertIgnore(balances, <<kind, a>>, 0)
  /\ ret' = "ok"
  /\ UNCHANGED <<cvmAccounts, reward, camCache, kvStore, outAddrs, accIn, accOut>>

(* The balance manager (not under src/) adds to the total of an existing  *)
(* row.                                                                    *)
AccumulateBalance(kind, a) ==
  /\ <<kind, a>> \in DOMAIN balances
  /\ balances[<<kind, a>>] < MaxTxCount
  /\ call' = [op |-> "accumulate", key |-> <<kind, a>>]
  /\ balances' = [balances EXCEPT ![<<kind, a>>] = @ + 1]
  /\ ret' = "ok"
  /\ UNCHANGED <<cvmAccounts, reward, camCache, kvStore, outAddrs, accIn, accOut>>

(* The first statement of a call fails (a lost connection, a deadline):  *)
(* nothing is written and the error is returned.                          *)
StatementError ==
  /\ \E c \in Call : call' = c
  /\ ret' = "error"
  /\ UNCHANGED tables

PersistNext ==
  \/ \E a \in Addrs, n \in 1 .. MaxTxCount, upd \in Updates : InsertCvmAccount(a, n, upd)
  \/ \E t \in TxIds, row \in RewardRow : InsertReward(t, row)
  \/ \E t \in TxIds, row \in RewardRow : DeactivateReward(t, row)
  \/ \E c \in ChainIds, b \in Blocks, upd \in Updates : InsertCamLastBlockCache(c, b, upd)
  \/ \E k \in Keys, v \in Vals : InsertKeyValueStore(k, v)
  \/ \E k \in OutKeys, sig \in SigOrNil, upd \in Updates : InsertOutputAddresses(k, sig, upd)
  \/ \E k \in OutKeys, sig \in SigOrNil : UpdateOutputAddresses(k, sig)
  \/ \E k \in OutKeys, upd \in Updates :
       InsertOutputAddressAccumulateIn(k, upd) \/ InsertOutputAddressAccumulateOut(k, upd)
  \/ \E o \in OutputIds : UpdateOutputAddressAccumulateInOutputsProcessed(o)
  \/ \E kind \in BalanceKinds, a \in Addrs :
       InsertAccumulateBalances(kind, a) \/ AccumulateBalance(kind, a)
  \/ StatementError

PersistSpec == PersistInit /\ [][PersistNext]_persistVars

-----------------------------------------------------------------------------
PersistTypeOK ==
  /\ cvmAccounts \in Table(Addrs, 1 .. MaxTxCount)
  /\ reward \in Table(TxIds, RewardRow)
  /\ camCache \in Table(ChainIds, Blocks)
  /\ kvStore \in Table(Keys, Vals)
  /\ outAddrs \in Table(OutKeys, SigOrNil)
  /\ accIn \in Table(OutKeys, BOOLEAN)
  /\ accOut \subseteq OutKeys
  /\ balances \in Table(BalanceKinds \X Addrs, 0 .. MaxTxCount)
  /\ call \in Call
  /\ ret \in {"none", "ok", "duplicate", "error"}

(* The idempotent persistence contract (spec 4.5, 4.4): a call made      *)
(* again right after it succeeded, as a consumer does when it crashes    *)
(* between the decode's commit and the tx_pool delete, does not fail on  *)
(* the duplicate key, and when it succeeds it leaves every table as the  *)
(* first call left it.                                                    *)
RedeliveryNoop ==
  [][call' = call /\ ret = "ok" =>
       /\ ret' /= "duplicate"
       /\ (ret' = "ok" => tables' = tables)]_persistVars

(* The same contract for every other writer here: InsertReward and       *)
(* DeactivateReward (updated_at set to the caller's value), the camino     *)
(* block cache, the key-value store, the output-address and accumulate     *)
(* writers and the balance-row inserts.  Only InsertCvmAccount's IncrBy   *)
(* and the balance manager's increment, which adds by design, are left    *)
(* out.                                                                    *)
RedeliveryNoopOthers ==
  [][call' = call /\ ret = "ok" /\ call.op \notin {"cvmAccount", "accumulate"} =>
       /\ ret' /= "duplicate"
       /\ (ret' = "ok" => tables' = tables)]_persistVars

(* What a later step has recorded on a row is never undone by a writer   *)
(* called again, with or without upd, as on redelivery of the container  *)
(* that created the row: a redeeming signature stays set unless           *)
(* UpdateOutputAddresses itself replaces it, output_processed stays set,  *)
(* and an accumulated balance total never goes down.                      *)
ProgressKept ==
  [][/\ call'.op /= "updateOutputAddresses" =>
          \A k \in DOMAIN outAddrs :
            outAddrs[k] /= "nil" => k \in DOMAIN outAddrs' /\ outAddrs'[k] /= "nil"
     /\ \A k \in DOMAIN accIn : accIn[k] => k \in DOMAIN accIn' /\ accIn'[k]
     /\ \A k \in DOMAIN balances :
          k \in DOMAIN balances' /\ balances'[k] >= balances[k]]_persistVars

(* DeactivateReward only moves a reward's updated_at: when it returns    *)
(* without error the reward keeps the owner and the type it had, which   *)
(* it must read back because its caller does not pass them.              *)
DeactivateKeepsReward ==
  [][call'.op = "deactivate" /\ ret' = "ok" =>
       /\ call'.key \in DOMAIN reward
       /\ reward'[call'.key].owner = reward[call'.key].owner
       /\ reward'[call'.key].type = reward[call'.key].type]_persistVars

=============================================================================
