--------------------------- MODULE PersistProofs ----------------------------
(***************************************************************************)
(* Proofs about the special-case writers of src/db/dbmodel.go modelled in *)
(* Persist, for every value of the constants.                              *)
(***************************************************************************)
EXTENDS Persist, TLAPS

(* Inserting a row, a duplicate key ignored, keeps a table a table.      *)
LEMMA TableInsertIgnore ==
  ASSUME NEW K, NEW V, NEW m \in Table(K, V), NEW k \in K, NEW v \in V
  PROVE  InsertIgnore(m, k, v) \in Table(K, V)
<1>1. PICK D \in SUBSET K : m \in [D -> V]
  BY DEF Table
<1>2. InsertIgnore(m, k, v) \in [D \cup {k} -> V]
  BY <1>1 DEF InsertIgnore
<1>. QED
  BY <1>2 DEF Table

(* Overwriting the row of an existing key keeps a table a table.          *)
LEMMA TableExcept ==
  ASSUME NEW K, NEW V, NEW m \in Table(K, V), NEW k \in DOMAIN m, NEW v \in V
  PROVE  [m EXCEPT ![k] = v] \in Table(K, V)
<1>1. PICK D \in SUBSET K : m \in [D -> V]
  BY DEF Table
<1>2. [m EXCEPT ![k] = v] \in [D -> V]
  BY <1>1
<1>. QED
  BY <1>2 DEF Table

(* Deleting a key keeps a table a table.                                 *)
LEMMA TableWithout ==
  ASSUME NEW K, NEW V, NEW m \in Table(K, V), NEW k
  PROVE  Without(m, k) \in Table(K, V)
<1>1. PICK D \in SUBSET K : m \in [D -> V]
  BY DEF Table
<1>2. Without(m, k) \in [D \ {k} -> V]
  BY <1>1 DEF Without
<1>. QED
  BY <1>2 DEF Table

(* The keys and rows of a table are of its types.                        *)
LEMMA TableRow ==
  ASSUME NEW K, NEW V, NEW m \in Table(K, V)
  PROVE  /\ DOMAIN m \subseteq K
         /\ \A k \in DOMAIN m : m[k] \in V
BY DEF Table

(* A table is the function of its own rows.                             *)
LEMMA TableIsFcn ==
  ASSUME NEW K, NEW V, NEW m \in Table(K, V)
  PROVE  m = [x \in DOMAIN m |-> m[x]]
BY DEF Table

-----------------------------------------------------------------------------
(* Every table keeps its key and row types and every call is a call of   *)
(* one of the writers.                                               *)
THEOREM PersistTypeCorrect ==
  ASSUME PersistConstants PROVE PersistSpec => []PersistTypeOK
<1>1. PersistInit => PersistTypeOK
  <2>1. ASSUME NEW K, NEW V PROVE EmptyTable \in Table(K, V)
    <3>1. EmptyTable \in [{} -> V]
      BY DEF EmptyTable
    <3>. QED
      BY <3>1 DEF Table
  <2>2. /\ EmptyTable \in Table(Addrs, 1 .. MaxTxCount) /\ EmptyTable \in Table(TxIds, RewardRow)
        /\ EmptyTable \in Table(ChainIds, Blocks) /\ EmptyTable \in Table(Keys, Vals)
        /\ EmptyTable \in Table(OutKeys, SigOrNil) /\ EmptyTable \in Table(OutKeys, BOOLEAN)
        /\ EmptyTable \in Table(BalanceKinds \X Addrs, 0 .. MaxTxCount)
    BY <2>1
  <2>3. [op |-> "kv", key |-> CHOOSE k \in Keys : TRUE, val |-> CHOOSE v \in Vals : TRUE] \in Call
    BY DEF PersistConstants, Call
  <2>. QED
    BY <2>2, <2>3 DEF PersistInit, PersistTypeOK
<1>2. PersistTypeOK /\ [PersistNext]_persistVars => PersistTypeOK'
  <2> SUFFICES ASSUME PersistTypeOK, [PersistNext]_persistVars PROVE PersistTypeOK'
    OBVIOUS
  <2> USE DEF progress
  <2>1. ASSUME NEW a \in Addrs, NEW n \in 1 .. MaxTxCount, NEW upd \in Updates,
               InsertCvmAccount(a, n, upd)
        PROVE  PersistTypeOK'
    <3>1. cvmAccounts' \in Table(Addrs, 1 .. MaxTxCount)
      <4>1. CASE a \notin DOMAIN cvmAccounts /\ cvmAccounts' = InsertIgnore(cvmAccounts, a, n)
        BY <4>1, TableInsertIgnore DEF PersistTypeOK
      <4>2. CASE a \in DOMAIN cvmAccounts /\ UNCHANGED cvmAccounts
        BY <4>2 DEF PersistTypeOK
      <4>3. CASE /\ a \in DOMAIN cvmAccounts /\ cvmAccounts[a] + n <= MaxTxCount
                 /\ cvmAccounts' = [cvmAccounts EXCEPT ![a] = @ + n]
        <5>1. cvmAccounts[a] \in 1 .. MaxTxCount
          BY <4>3, TableRow DEF PersistTypeOK
        <5>2. cvmAccounts[a] + n \in 1 .. MaxTxCount
          BY <4>3, <5>1
        <5>. QED
          BY <4>3, <5>2, TableExcept DEF PersistTypeOK
      <4>. QED
        BY <2>1, <4>1, <4>2, <4>3 DEF InsertCvmAccount
    <3>2. call' \in Call /\ ret' \in {"none", "ok", "duplicate", "error"}
      BY <2>1 DEF InsertCvmAccount, Call, PersistConstants
    <3>. QED
      BY <2>1, <3>1, <3>2 DEF InsertCvmAccount, PersistTypeOK
  <2>2. ASSUME NEW t \in TxIds, NEW row \in RewardRow, InsertReward(t, row)
        PROVE  PersistTypeOK'
    <3>1. reward' \in Table(TxIds, RewardRow)
      <4>1. CASE t \in DOMAIN reward
        <5>1. reward[t] \in RewardRow
          BY <4>1, TableRow DEF PersistTypeOK
        <5>2. [reward[t] EXCEPT !.updated = row.updated] \in RewardRow
          BY <5>1 DEF RewardRow
        <5>. QED
          BY <2>2, <4>1, <5>2, TableExcept DEF InsertReward, PersistTypeOK
      <4>2. CASE t \notin DOMAIN reward
        BY <2>2, <4>2, TableInsertIgnore DEF InsertReward, PersistTypeOK
      <4>. QED
        BY <4>1, <4>2
    <3>. QED
      BY <2>2, <3>1 DEF InsertReward, PersistTypeOK, Call
  <2>3. ASSUME NEW t \in TxIds, NEW row \in RewardRow, DeactivateReward(t, row)
        PROVE  PersistTypeOK'
    <3>1. reward' \in Table(TxIds, RewardRow)
      <4>1. CASE t \in DOMAIN reward /\ reward' = [reward EXCEPT ![t].updated = row.updated]
        <5>1. reward[t] \in RewardRow
          BY <4>1, TableRow DEF PersistTypeOK
        <5>2. [reward[t] EXCEPT !.updated = row.updated] \in RewardRow
          BY <5>1 DEF RewardRow
        <5>. QED
          BY <4>1, <5>2, TableExcept DEF PersistTypeOK
      <4>2. CASE reward' = Without(reward, t)
        BY <4>2, TableWithout DEF PersistTypeOK
      <4>3. CASE UNCHANGED reward
        BY <4>3 DEF PersistTypeOK
      <4>. QED
        BY <2>3, <4>1, <4>2, <4>3 DEF DeactivateReward
    <3>. QED
      BY <2>3, <3>1 DEF DeactivateReward, PersistTypeOK, Call
  <2>4. ASSUME NEW c \in ChainIds, NEW b \in Blocks, NEW upd \in Updates,
               InsertCamLastBlockCache(c, b, upd)
        PROVE  PersistTypeOK'
    <3>1. camCache' \in Table(ChainIds, Blocks)
      <4>1. CASE upd
        <5>1. PICK D \in SUBSET ChainIds : camCache \in [D -> Blocks]
          BY DEF PersistTypeOK, Table
        <5>2. camCache' \in [D -> Blocks]
          BY <2>4, <4>1, <5>1 DEF InsertCamLastBlockCache
        <5>. QED
          BY <5>2 DEF Table
      <4>2. CASE ~upd
        BY <2>4, <4>2, TableInsertIgnore DEF InsertCamLastBlockCache, PersistTypeOK
      <4>. QED
        BY <4>1, <4>2
    <3>. QED
      BY <2>4, <3>1 DEF InsertCamLastBlockCache, PersistTypeOK, Call, PersistConstants
  <2>5. ASSUME NEW k \in Keys, NEW v \in Vals, InsertKeyValueStore(k, v)
        PROVE  PersistTypeOK'
    BY <2>5, TableInsertIgnore DEF InsertKeyValueStore, PersistTypeOK, Call
  <2>6. CASE StatementError
    BY <2>6 DEF StatementError, PersistTypeOK, tables
  <2>7. CASE UNCHANGED persistVars
    BY <2>7 DEF persistVars, PersistTypeOK
  <2>8. ASSUME NEW k \in OutKeys, NEW sig \in SigOrNil, NEW upd \in Updates,
               InsertOutputAddresses(k, sig, upd)
        PROVE  PersistTypeOK'
    <3>1. outAddrs' \in Table(OutKeys, SigOrNil)
      <4>1. CASE k \in DOMAIN outAddrs /\ upd /\ sig /= "nil"
        BY <2>8, <4>1, TableExcept DEF InsertOutputAddresses, PersistTypeOK
      <4>2. CASE ~(k \in DOMAIN outAddrs /\ upd /\ sig /= "nil")
        BY <2>8, <4>2, TableInsertIgnore DEF InsertOutputAddresses, PersistTypeOK
      <4>. QED
        BY <4>1, <4>2
    <3>. QED
      BY <2>8, <3>1 DEF InsertOutputAddresses, PersistTypeOK, Call, PersistConstants
  <2>9. ASSUME NEW k \in OutKeys, NEW sig \in SigOrNil, UpdateOutputAddresses(k, sig)
        PROVE  PersistTypeOK'
    <3>1. PICK D \in SUBSET OutKeys : outAddrs \in [D -> SigOrNil]
      BY DEF PersistTypeOK, Table
    <3>2. outAddrs' \in [D -> SigOrNil]
      BY <2>9, <3>1 DEF UpdateOutputAddresses
    <3>3. outAddrs' \in Table(OutKeys, SigOrNil)
      BY <3>2 DEF Table
    <3>. QED
      BY <2>9, <3>3 DEF UpdateOutputAddresses, PersistTypeOK, Call
  <2>10. ASSUME NEW k \in OutKeys, NEW upd \in Updates,
                InsertOutputAddressAccumulateIn(k, upd)
         PROVE  PersistTypeOK'
    BY <2>10, TableInsertIgnore
       DEF InsertOutputAddressAccumulateIn, PersistTypeOK, Call, PersistConstants
  <2>11. ASSUME NEW k \in OutKeys, NEW upd \in Updates,
                InsertOutputAddressAccumulateOut(k, upd)
         PROVE  PersistTypeOK'
    BY <2>11 DEF InsertOutputAddressAccumulateOut, PersistTypeOK, Call, PersistConstants
  <2>12. ASSUME NEW o \in OutputIds, UpdateOutputAddressAccumulateInOutputsProcessed(o)
         PROVE  PersistTypeOK'
    <3>1. PICK D \in SUBSET OutKeys : accIn \in [D -> BOOLEAN]
      BY DEF PersistTypeOK, Table
    <3>2. accIn' \in [D -> BOOLEAN]
      BY <2>12, <3>1 DEF UpdateOutputAddressAccumulateInOutputsProcessed
    <3>3. accIn' \in Table(OutKeys, BOOLEAN)
      BY <3>2 DEF Table
    <3>. QED
      BY <2>12, <3>3 DEF UpdateOutputAddressAccumulateInOutputsProcessed, PersistTypeOK, Call
  <2>13. ASSUME NEW kind \in BalanceKinds, NEW a \in Addrs, InsertAccumulateBalances(kind, a)
         PROVE  PersistTypeOK'
    <3>1. <<kind, a>> \in BalanceKinds \X Addrs /\ 0 \in 0 .. MaxTxCount
      BY DEF PersistConstants
    <3>. QED
      BY <2>13, <3>1, TableInsertIgnore DEF InsertAccumulateBalances, PersistTypeOK, Call
  <2>14. ASSUME NEW kind \in BalanceKinds, NEW a \in Addrs, AccumulateBalance(kind, a)
         PROVE  PersistTypeOK'
    <3>1. balances[<<kind, a>>] \in 0 .. MaxTxCount
      BY <2>14, TableRow DEF AccumulateBalance, PersistTypeOK
    <3>2. balances[<<kind, a>>] + 1 \in 0 .. MaxTxCount
      BY <2>14, <3>1 DEF AccumulateBalance, PersistConstants
    <3>3. balances' \in Table(BalanceKinds \X Addrs, 0 .. MaxTxCount)
      BY <2>14, <3>2, TableExcept DEF AccumulateBalance, PersistTypeOK
    <3>. QED
      BY <2>14, <3>3 DEF AccumulateBalance, PersistTypeOK, Call
  <2>. QED
    BY <2>1, <2>2, <2>3, <2>4, <2>5, <2>6, <2>7, <2>8, <2>9, <2>10, <2>11,
       <2>12, <2>13, <2>14 DEF PersistNext
<1>. QED
  BY <1>1, <1>2, PTL DEF PersistSpec

(* DeactivateReward, which its callers give only the tx id and the time, *)
(* keeps the owner and type of the stored reward whenever it succeeds.   *)
THEOREM DeactivateKeepsRewardThm ==
  ASSUME PersistConstants PROVE PersistSpec => DeactivateKeepsReward
<1>. DEFINE Keeps == call'.op = "deactivate" /\ ret' = "ok" =>
                       /\ call'.key \in DOMAIN reward
                       /\ reward'[call'.key].owner = reward[call'.key].owner
                       /\ reward'[call'.key].type = reward[call'.key].type
<1>1. PersistTypeOK /\ [PersistNext]_persistVars => [Keeps]_persistVars
  <2> SUFFICES ASSUME PersistTypeOK, [PersistNext]_persistVars
               PROVE  [Keeps]_persistVars
    OBVIOUS
  <2>1. CASE UNCHANGED persistVars
    BY <2>1
  <2>2. ASSUME NEW t \in TxIds, NEW row \in RewardRow, DeactivateReward(t, row)
        PROVE  Keeps
    <3> SUFFICES ASSUME ret' = "ok" PROVE Keeps
      OBVIOUS
    <3>1. t \in DOMAIN reward /\ reward' = [reward EXCEPT ![t].updated = row.updated]
      BY <2>2 DEF DeactivateReward
    <3>2. reward[t] \in RewardRow
      BY <3>1, TableRow DEF PersistTypeOK
    <3>. QED
      BY <2>2, <3>1, <3>2 DEF DeactivateReward, RewardRow
  <2>3. CASE StatementError
    BY <2>3 DEF StatementError
  <2>4. CASE \/ \E a \in Addrs, n \in 1 .. MaxTxCount, upd \in Updates : InsertCvmAccount(a, n, upd)
             \/ \E t \in TxIds, row \in RewardRow : InsertReward(t, row)
             \/ \E c \in ChainIds, b \in Blocks, upd \in Updates : InsertCamLastBlockCache(c, b, upd)
             \/ \E k \in Keys, v \in Vals : InsertKeyValueStore(k, v)
    <3>1. call'.op /= "deactivate"
      BY <2>4 DEF InsertCvmAccount, InsertReward, InsertCamLastBlockCache, InsertKeyValueStore
    <3>. QED
      BY <3>1
  <2>5. ASSUME NEW k \in OutKeys, NEW sig \in SigOrNil, NEW upd \in Updates,
               InsertOutputAddresses(k, sig, upd)
        PROVE  Keeps
    BY <2>5 DEF InsertOutputAddresses
  <2>6. ASSUME NEW k \in OutKeys, NEW sig \in SigOrNil, UpdateOutputAddresses(k, sig)
        PROVE  Keeps
    BY <2>6 DEF UpdateOutputAddresses
  <2>7. ASSUME NEW k \in OutKeys, NEW upd \in Updates,
               InsertOutputAddressAccumulateIn(k, upd)
        PROVE  Keeps
    BY <2>7 DEF InsertOutputAddressAccumulateIn
  <2>8. ASSUME NEW k \in OutKeys, NEW upd \in Updates,
               InsertOutputAddressAccumulateOut(k, upd)
        PROVE  Keeps
    BY <2>8 DEF InsertOutputAddressAccumulateOut
  <2>9. ASSUME NEW o \in OutputIds, UpdateOutputAddressAccumulateInOutputsProcessed(o)
        PROVE  Keeps
    BY <2>9 DEF UpdateOutputAddressAccumulateInOutputsProcessed
  <2>10. ASSUME NEW kind \in BalanceKinds, NEW a \in Addrs, InsertAccumulateBalances(kind, a)
         PROVE  Keeps
    BY <2>10 DEF InsertAccumulateBalances
  <2>11. ASSUME NEW kind \in BalanceKinds, NEW a \in Addrs, AccumulateBalance(kind, a)
         PROVE  Keeps
    BY <2>11 DEF AccumulateBalance
  <2>. QED
    BY <2>1, <2>2, <2>3, <2>4, <2>5, <2>6, <2>7, <2>8, <2>9, <2>10, <2>11
       DEF PersistNext
<1>. QED
  BY <1>1, PersistTypeCorrect, PTL DEF PersistSpec, DeactivateKeepsReward


(* No writer called again, with or without upd, undoes what a later step *)
(* recorded: InsertOutputAddresses keeps a redeeming signature, the       *)
(* accumulate_in writers keep output_processed, and the balance rows only *)
(* grow, whatever the interleaving of writers and failed statements.      *)
THEOREM ProgressKeptThm ==
  ASSUME PersistConstants PROVE PersistSpec => ProgressKept
<1>. DEFINE
       OA == call'.op /= "updateOutputAddresses" =>
               \A k \in DOMAIN outAddrs :
                 outAddrs[k] /= "nil" => k \in DOMAIN outAddrs' /\ outAddrs'[k] /= "nil"
       AI == \A k \in DOMAIN accIn : accIn[k] => k \in DOMAIN accIn' /\ accIn'[k]
       BA == \A k \in DOMAIN balances :
               k \in DOMAIN balances' /\ balances'[k] >= balances[k]
<1>1. PersistTypeOK /\ [PersistNext]_persistVars => OA /\ AI /\ BA
  <2> SUFFICES ASSUME PersistTypeOK, [PersistNext]_persistVars PROVE OA /\ AI /\ BA
    OBVIOUS
  <2> USE DEF progress
  <2>1. UNCHANGED outAddrs => OA
    OBVIOUS
  <2>2. UNCHANGED accIn => AI
    OBVIOUS
  <2>0. \A j \in DOMAIN balances : balances[j] \in 0 .. MaxTxCount
    BY TableRow DEF PersistTypeOK
  <2>3. UNCHANGED balances => BA
    BY <2>0
  <2>4. CASE UNCHANGED progress
    BY <2>1, <2>2, <2>3, <2>4
  <2>5. ASSUME NEW k \in OutKeys, NEW sig \in SigOrNil, NEW upd \in Updates,
               InsertOutputAddresses(k, sig, upd)
        PROVE  OA
    <3>1. CASE k \in DOMAIN outAddrs /\ upd /\ sig /= "nil"
      BY <2>5, <3>1 DEF InsertOutputAddresses
    <3>2. CASE ~(k \in DOMAIN outAddrs /\ upd /\ sig /= "nil")
      BY <2>5, <3>2 DEF InsertOutputAddresses, InsertIgnore
    <3>. QED
      BY <3>1, <3>2
  <2>6. ASSUME NEW k \in OutKeys, NEW sig \in SigOrNil, UpdateOutputAddresses(k, sig)
        PROVE  OA
    BY <2>6 DEF UpdateOutputAddresses
  <2>7. ASSUME NEW k \in OutKeys, NEW upd \in Updates, InsertOutputAddressAccumulateIn(k, upd)
        PROVE  AI
    BY <2>7 DEF InsertOutputAddressAccumulateIn, InsertIgnore
  <2>8. ASSUME NEW o \in OutputIds, UpdateOutputAddressAccumulateInOutputsProcessed(o)
        PROVE  AI
    BY <2>8 DEF UpdateOutputAddressAccumulateInOutputsProcessed
  <2>9. ASSUME NEW kind \in BalanceKinds, NEW a \in Addrs, InsertAccumulateBalances(kind, a)
        PROVE  BA
    BY <2>9, <2>0 DEF InsertAccumulateBalances, InsertIgnore
  <2>10. ASSUME NEW kind \in BalanceKinds, NEW a \in Addrs, AccumulateBalance(kind, a)
         PROVE  BA
    BY <2>10, <2>0 DEF AccumulateBalance
  <2>11. CASE \E k \in OutKeys, sig \in SigOrNil, upd \in Updates : InsertOutputAddresses(k, sig, upd)
    BY <2>11, <2>2, <2>3, <2>5 DEF InsertOutputAddresses
  <2>12. CASE \E k \in OutKeys, sig \in SigOrNil : UpdateOutputAddresses(k, sig)
    BY <2>12, <2>2, <2>3, <2>6 DEF UpdateOutputAddresses
  <2>13. CASE \E k \in OutKeys, upd \in Updates :
                InsertOutputAddressAccumulateIn(k, upd) \/ InsertOutputAddressAccumulateOut(k, upd)
    BY <2>13, <2>1, <2>2, <2>3, <2>7
       DEF InsertOutputAddressAccumulateIn, InsertOutputAddressAccumulateOut
  <2>14. CASE \E o \in OutputIds : UpdateOutputAddressAccumulateInOutputsProcessed(o)
    BY <2>14, <2>1, <2>3, <2>8 DEF UpdateOutputAddressAccumulateInOutputsProcessed
  <2>15. CASE \E kind \in BalanceKinds, a \in Addrs :
                InsertAccumulateBalances(kind, a) \/ AccumulateBalance(kind, a)
    BY <2>15, <2>1, <2>2, <2>9, <2>10 DEF InsertAccumulateBalances, AccumulateBalance
  <2>16. CASE \/ \E a \in Addrs, n \in 1 .. MaxTxCount, upd \in Updates : InsertCvmAccount(a, n, upd)
              \/ \E t \in TxIds, row \in RewardRow : InsertReward(t, row)
              \/ \E t \in TxIds, row \in RewardRow : DeactivateReward(t, row)
              \/ \E c \in ChainIds, b \in Blocks, upd \in Updates : InsertCamLastBlockCache(c, b, upd)
              \/ \E k \in Keys, v \in Vals : InsertKeyValueStore(k, v)
              \/ StatementError
    <3>1. UNCHANGED progress
      BY <2>16 DEF InsertCvmAccount, InsertReward, DeactivateReward, InsertCamLastBlockCache,
                   InsertKeyValueStore, StatementError, tables
    <3>. QED
      BY <3>1, <2>4
  <2>17. CASE UNCHANGED persistVars
    BY <2>17, <2>4 DEF persistVars, tables
  <2>. QED
    BY <2>11, <2>12, <2>13, <2>14, <2>15, <2>16, <2>17 DEF PersistNext
<1>. QED
  BY <1>1, PersistTypeCorrect, PTL DEF PersistSpec, ProgressKept


-----------------------------------------------------------------------------
(* After a call that returned ok, the tables show its effect: the row of *)
(* its key exists and holds what the call wrote, where the call writes   *)
(* unconditionally.  This is what makes the same call, made again, a     *)
(* no-op.                                                                  *)
LastCallDone ==
  ret = "ok" =>
    /\ call.op \in {"reward", "deactivate"} =>
         call.key \in DOMAIN reward /\ reward[call.key].updated = call.val.updated
    /\ call.op = "camCache" =>
         /\ call.upd => (call.key \in DOMAIN camCache => camCache[call.key] = call.val)
         /\ ~call.upd => call.key \in DOMAIN camCache
    /\ call.op = "kv" => call.key \in DOMAIN kvStore
    /\ call.op = "outputAddresses" =>
         /\ call.key \in DOMAIN outAddrs
         /\ call.upd /\ call.val /= "nil" => outAddrs[call.key] = call.val
    /\ call.op = "updateOutputAddresses" =>
         (call.key \in DOMAIN outAddrs => outAddrs[call.key] = call.val)
    /\ call.op = "accumulateIn" => call.key \in DOMAIN accIn
    /\ call.op = "accumulateOut" => call.key \in accOut
    /\ call.op = "outputsProcessed" => \A x \in DOMAIN accIn : x[1] = call.key => accIn[x]
    /\ call.op = "balance" => call.key \in DOMAIN balances

(* Every step leaves the tables showing the effect of the call it made.  *)
LEMMA LastCallStep ==
  ASSUME PersistTypeOK, LastCallDone, [PersistNext]_persistVars
  PROVE  LastCallDone'
<1> USE DEF progress
<1>1. ASSUME NEW a \in Addrs, NEW n \in 1 .. MaxTxCount, NEW upd \in Updates,
             InsertCvmAccount(a, n, upd)
      PROVE  LastCallDone'
  BY <1>1 DEF InsertCvmAccount, LastCallDone
<1>2. ASSUME NEW t \in TxIds, NEW row \in RewardRow, InsertReward(t, row)
      PROVE  LastCallDone'
  <2>1. CASE t \in DOMAIN reward
    <3>1. reward[t] \in RewardRow
      BY <2>1, TableRow DEF PersistTypeOK
    <3>. QED
      BY <1>2, <2>1, <3>1 DEF InsertReward, LastCallDone, RewardRow
  <2>2. CASE t \notin DOMAIN reward
    BY <1>2, <2>2 DEF InsertReward, LastCallDone, InsertIgnore
  <2>. QED
    BY <2>1, <2>2
<1>3. ASSUME NEW t \in TxIds, NEW row \in RewardRow, DeactivateReward(t, row)
      PROVE  LastCallDone'
  <2>1. CASE t \in DOMAIN reward /\ reward' = [reward EXCEPT ![t].updated = row.updated]
    <3>1. reward[t] \in RewardRow
      BY <2>1, TableRow DEF PersistTypeOK
    <3>. QED
      BY <1>3, <2>1, <3>1 DEF DeactivateReward, LastCallDone, RewardRow
  <2>2. CASE ret' = "error"
    BY <2>2 DEF LastCallDone
  <2>. QED
    BY <1>3, <2>1, <2>2 DEF DeactivateReward
<1>4. ASSUME NEW c \in ChainIds, NEW b \in Blocks, NEW upd \in Updates,
             InsertCamLastBlockCache(c, b, upd)
      PROVE  LastCallDone'
  BY <1>4 DEF InsertCamLastBlockCache, LastCallDone, InsertIgnore
<1>5. ASSUME NEW k \in Keys, NEW v \in Vals, InsertKeyValueStore(k, v)
      PROVE  LastCallDone'
  BY <1>5 DEF InsertKeyValueStore, LastCallDone, InsertIgnore
<1>6. ASSUME NEW k \in OutKeys, NEW sig \in SigOrNil, NEW upd \in Updates,
             InsertOutputAddresses(k, sig, upd)
      PROVE  LastCallDone'
  BY <1>6 DEF InsertOutputAddresses, LastCallDone, InsertIgnore
<1>7. ASSUME NEW k \in OutKeys, NEW sig \in SigOrNil, UpdateOutputAddresses(k, sig)
      PROVE  LastCallDone'
  BY <1>7 DEF UpdateOutputAddresses, LastCallDone
<1>8. ASSUME NEW k \in OutKeys, NEW upd \in Updates, InsertOutputAddressAccumulateIn(k, upd)
      PROVE  LastCallDone'
  BY <1>8 DEF InsertOutputAddressAccumulateIn, LastCallDone, InsertIgnore
<1>9. ASSUME NEW k \in OutKeys, NEW upd \in Updates, InsertOutputAddressAccumulateOut(k, upd)
      PROVE  LastCallDone'
  BY <1>9 DEF InsertOutputAddressAccumulateOut, LastCallDone
<1>10. ASSUME NEW o \in OutputIds, UpdateOutputAddressAccumulateInOutputsProcessed(o)
       PROVE  LastCallDone'
  BY <1>10 DEF UpdateOutputAddressAccumulateInOutputsProcessed, LastCallDone
<1>11. ASSUME NEW kind \in BalanceKinds, NEW a \in Addrs, InsertAccumulateBalances(kind, a)
       PROVE  LastCallDone'
  BY <1>11 DEF InsertAccumulateBalances, LastCallDone, InsertIgnore
<1>12. ASSUME NEW kind \in BalanceKinds, NEW a \in Addrs, AccumulateBalance(kind, a)
       PROVE  LastCallDone'
  BY <1>12 DEF AccumulateBalance, LastCallDone
<1>13. CASE StatementError
  BY <1>13 DEF StatementError, LastCallDone
<1>14. CASE UNCHANGED persistVars
  BY <1>14 DEF persistVars, LastCallDone, tables
<1>. QED
  BY <1>1, <1>2, <1>3, <1>4, <1>5, <1>6, <1>7, <1>8, <1>9, <1>10, <1>11, <1>12,
     <1>13, <1>14 DEF PersistNext


(* The idempotent persistence contract (spec 4.5) holds for every writer *)
(* but InsertCvmAccount: made again right after it returned ok, as on a  *)
(* redelivery, a call never fails on the duplicate key and, when it      *)
(* returns ok, leaves every table as it was.  (InsertCvmAccount breaks   *)
(* it, which the cvm_account_redelivery run shows; the balance manager's *)
(* increment adds by design.)                                             *)
THEOREM RedeliveryNoopOthersThm ==
  ASSUME PersistConstants PROVE PersistSpec => RedeliveryNoopOthers
<1>. DEFINE Same == call' = call /\ ret = "ok" /\ call.op \notin {"cvmAccount", "accumulate"}
            Noop == /\ ret' /= "duplicate"
                    /\ (ret' = "ok" => tables' = tables)
<1>1. PersistTypeOK /\ LastCallDone /\ [PersistNext]_persistVars => (Same => Noop)
  <2> SUFFICES ASSUME PersistTypeOK, LastCallDone, [PersistNext]_persistVars, Same
               PROVE  Noop
    OBVIOUS
  <2> USE DEF progress, tables
  <2>0. /\ reward = [x \in DOMAIN reward |-> reward[x]]
        /\ camCache = [x \in DOMAIN camCache |-> camCache[x]]
        /\ kvStore = [x \in DOMAIN kvStore |-> kvStore[x]]
        /\ outAddrs = [x \in DOMAIN outAddrs |-> outAddrs[x]]
        /\ accIn = [x \in DOMAIN accIn |-> accIn[x]]
        /\ balances = [x \in DOMAIN balances |-> balances[x]]
    BY TableIsFcn DEF PersistTypeOK
  <2>1. ASSUME NEW a \in Addrs, NEW n \in 1 .. MaxTxCount, NEW upd \in Updates,
               InsertCvmAccount(a, n, upd)
        PROVE  Noop
    BY <2>1 DEF InsertCvmAccount
  <2>2. ASSUME NEW t \in TxIds, NEW row \in RewardRow,
               InsertReward(t, row) \/ DeactivateReward(t, row)
        PROVE  Noop
    <3>1. t \in DOMAIN reward /\ reward[t].updated = row.updated
      BY <2>2 DEF InsertReward, DeactivateReward, LastCallDone
    <3>2. reward[t] \in RewardRow
      BY <3>1, TableRow DEF PersistTypeOK
    <3>3. [reward EXCEPT ![t].updated = row.updated] = reward
      BY <2>0, <3>1, <3>2 DEF RewardRow
    <3>. QED
      BY <2>2, <3>1, <3>3 DEF InsertReward, DeactivateReward
  <2>3. ASSUME NEW c \in ChainIds, NEW b \in Blocks, NEW upd \in Updates,
               InsertCamLastBlockCache(c, b, upd)
        PROVE  Noop
    BY <2>0, <2>3 DEF InsertCamLastBlockCache, LastCallDone, InsertIgnore
  <2>4. ASSUME NEW k \in Keys, NEW v \in Vals, InsertKeyValueStore(k, v)
        PROVE  Noop
    BY <2>0, <2>4 DEF InsertKeyValueStore, LastCallDone, InsertIgnore
  <2>5. ASSUME NEW k \in OutKeys, NEW sig \in SigOrNil, NEW upd \in Updates,
               InsertOutputAddresses(k, sig, upd)
        PROVE  Noop
    BY <2>0, <2>5 DEF InsertOutputAddresses, LastCallDone, InsertIgnore
  <2>6. ASSUME NEW k \in OutKeys, NEW sig \in SigOrNil, UpdateOutputAddresses(k, sig)
        PROVE  Noop
    BY <2>0, <2>6 DEF UpdateOutputAddresses, LastCallDone
  <2>7. ASSUME NEW k \in OutKeys, NEW upd \in Updates, InsertOutputAddressAccumulateIn(k, upd)
        PROVE  Noop
    <3>1. k \in DOMAIN accIn
      BY <2>7 DEF InsertOutputAddressAccumulateIn, LastCallDone
    <3>2. InsertIgnore(accIn, k, FALSE) = [x \in DOMAIN accIn |-> accIn[x]]
      BY <3>1 DEF InsertIgnore
    <3>. QED
      BY <2>0, <2>7, <3>2 DEF InsertOutputAddressAccumulateIn
  <2>8. ASSUME NEW k \in OutKeys, NEW upd \in Updates, InsertOutputAddressAccumulateOut(k, upd)
        PROVE  Noop
    BY <2>8 DEF InsertOutputAddressAccumulateOut, LastCallDone
  <2>9. ASSUME NEW o \in OutputIds, UpdateOutputAddressAccumulateInOutputsProcessed(o)
        PROVE  Noop
    <3>1. \A x \in DOMAIN accIn : x[1] = o => accIn[x]
      BY <2>9 DEF UpdateOutputAddressAccumulateInOutputsProcessed, LastCallDone
    <3>2. [x \in DOMAIN accIn |-> IF x[1] = o THEN TRUE ELSE accIn[x]]
            = [x \in DOMAIN accIn |-> accIn[x]]
      BY <3>1, Zenon
    <3>. QED
      BY <2>0, <2>9, <3>2 DEF UpdateOutputAddressAccumulateInOutputsProcessed
  <2>10. ASSUME NEW kind \in BalanceKinds, NEW a \in Addrs, InsertAccumulateBalances(kind, a)
         PROVE  Noop
    BY <2>0, <2>10 DEF InsertAccumulateBalances, LastCallDone, InsertIgnore
  <2>11. ASSUME NEW kind \in BalanceKinds, NEW a \in Addrs, AccumulateBalance(kind, a)
         PROVE  Noop
    BY <2>11 DEF AccumulateBalance
  <2>12. CASE StatementError
    BY <2>12 DEF StatementError
  <2>13. CASE UNCHANGED persistVars
    BY <2>13 DEF persistVars
  <2>. QED
    BY <2>1, <2>2, <2>3, <2>4, <2>5, <2>6, <2>7, <2>8, <2>9, <2>10, <2>11, <2>12, <2>13
       DEF PersistNext
<1>2. PersistInit => LastCallDone
  BY DEF PersistInit, LastCallDone
<1>3. PersistTypeOK /\ LastCallDone /\ [PersistNext]_persistVars => LastCallDone'
  BY LastCallStep
<1>. QED
  BY <1>1, <1>2, <1>3, PersistTypeCorrect, PTL DEF PersistSpec, RedeliveryNoopOthers

=============================================================================
