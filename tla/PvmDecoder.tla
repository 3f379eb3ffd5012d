----------------------------- MODULE PvmDecoder -----------------------------
(***************************************************************************)
(* The P-chain decoder (src/services/indexes/pvm/writer.go) and the        *)
(* persist writes it makes (src/db/dbmodel.go): Writer.Consume decodes one *)
(* container, a block, inside one database transaction; indexBlock writes  *)
(* the pvm_blocks row and indexTransaction the rows of each transaction.   *)
(*                                                                         *)
(* The business tables are one record db.  A transaction of the ledger is  *)
(* a record with the fields the decoder reads: its id, its kind (the       *)
(* branch of the type switch it takes), the multisig alias it names (the   *)
(* alias id after ComputeAliasID for a new alias), the alias owners, its   *)
(* Auth (FALSE for a nil Auth) and the addresses of its RewardsOwner (the  *)
(* empty set for a nil RewardsOwner).  Identifiers, times and amounts are  *)
(* left out: every row the decoder writes is keyed by content, so they    *)
(* are the same on every decode of the same container.                     *)
(***************************************************************************)
EXTENDS Naturals, Sequences, SequencesExt

CONSTANTS
  Ledger,      \* the accepted P-chain blocks in order: [id, txs : Seq(Tx)]
  TxIds,       \* transaction ids
  BlockIds,    \* block ids
  AliasIds,    \* multisig alias ids
  Addrs,       \* short addresses (alias owners, reward owners)
  GenesisTxs,  \* the genesis txs Bootstrap indexes under the chain id:
               \* validators, chains, address-state, consortium-member and
               \* multisig alias txs, in that order, duplicates dropped
  GenesisBlocks, \* the Camino genesis blocks
  ChainID      \* the P-chain id, the block id of the genesis txs

(* The branches of indexTransaction's type switch the model tells apart.  *)
(* "validator": AddValidatorTx and the primary-network permissionless     *)
(* validator and delegator txs; "caminoValidator": CaminoAddValidatorTx;  *)
(* "deposit": DepositTx; "alias": MultisigAliasTx; "advanceTime":         *)
(* AdvanceTimeTx; "plain": every other known type; "unknown": the default *)
(* branch.                                                                *)
TxKinds == {"validator", "caminoValidator", "deposit", "alias",
            "advanceTime", "plain", "unknown"}

Tx == [id : TxIds, kind : TxKinds, alias : AliasIds, owners : SUBSET Addrs,
       auth : BOOLEAN, rewardOwners : SUBSET Addrs]

Block == [id : BlockIds, txs : Seq(Tx)]

ASSUME LedgerAssumption ==
  /\ Ledger \in Seq(Block)
  /\ GenesisTxs \in Seq(Tx)
  /\ GenesisBlocks \in Seq(Block)
  /\ ChainID \in BlockIds

VARIABLE db

(* A multisig_aliases row: the pvm writer's db.MultisigAlias.             *)
AliasRow == [alias : AliasIds, owner : Addrs, txid : TxIds]

(* The multisig_aliases rows an alias transaction writes, one per owner.  *)
RowsOfTx(tx) ==
  {[alias |-> tx.alias, owner |-> o, txid |-> tx.id] : o \in tx.owners}

DbType ==
  [blocks : SUBSET BlockIds,            \* pvm_blocks
   txBlock : SUBSET (TxIds \X BlockIds), \* transactions_block
   transactions : SUBSET TxIds,         \* transactions (avax writer)
   validators : SUBSET TxIds,           \* transactions_validator
   rewards : SUBSET TxIds,              \* reward
   rewardOwners : SUBSET (Addrs \X TxIds), \* reward_owner (address, hash)
   aliasRows : SUBSET AliasRow,         \* multisig_aliases
   addressChain : SUBSET (Addrs \cup AliasIds),  \* address_chain of this chain
   addressBech32 : SUBSET (Addrs \cup AliasIds)] \* addresses_bech32

DbInit ==
  db = [blocks |-> {}, txBlock |-> {}, transactions |-> {}, validators |-> {},
        rewards |-> {}, rewardOwners |-> {}, aliasRows |-> {}, addressChain |-> {},
        addressBech32 |-> {}]

-----------------------------------------------------------------------------
(* The persist writes (src/db/dbmodel.go).  Each inserts and ignores a    *)
(* duplicate key; with upd the separate UPDATE rewrites the same values,  *)
(* since every column is a function of the container.                     *)
InsertPvmBlocks(d, blkId) == [d EXCEPT !.blocks = @ \cup {blkId}]

InsertTransactionsBlock(d, txId, blkId) ==
  [d EXCEPT !.txBlock = @ \cup {<<txId, blkId>>}]

InsertTransactionsValidator(d, txId) ==
  [d EXCEPT !.validators = @ \cup {txId}]

(* INSERT ... ON DUPLICATE KEY UPDATE updated_at.                         *)
PersistInsertReward(d, txId) == [d EXCEPT !.rewards = @ \cup {txId}]

InsertRewardOwner(d, addr, hash) ==
  [d EXCEPT !.rewardOwners = @ \cup {<<addr, hash>>}]

(* QueryMultisigAlias: LoadOne of the alias's rows; ErrNotFound if none.  *)
QueryMultisigAliasFound(d, a) == \E r \in d.aliasRows : r.alias = a

DeleteMultisigAlias(d, a) ==
  [d EXCEPT !.aliasRows = {r \in @ : r.alias /= a}]

PersistInsertMultisigAlias(d, row) ==
  [d EXCEPT !.aliasRows = @ \cup {row}]

(* Keyed by (address, chain id); the chain id is the writer's.             *)
InsertAddressChain(d, addr) == [d EXCEPT !.addressChain = @ \cup {addr}]

(* Keyed by the address; the bech32 form is a function of it.             *)
InsertAddressBech32(d, addr) == [d EXCEPT !.addressBech32 = @ \cup {addr}]

(* The transactions row avax.InsertTransaction writes, keyed by tx id.    *)
PersistInsertTransactions(d, txId) == [d EXCEPT !.transactions = @ \cup {txId}]

-----------------------------------------------------------------------------
(* The writer's helpers (src/services/indexes/pvm/writer.go).             *)

(* persistMultisigAliasAddresses: InsertAddressChain, then                *)
(* InsertAddressBech32 of one address.                                    *)
PersistMultisigAliasAddresses(d, addr) ==
  InsertAddressBech32(InsertAddressChain(d, addr), addr)

InsertTransactionValidator(d, tx) == InsertTransactionsValidator(d, tx.id)

(* insertReward: InsertReward, then InsertRewardOwner for each address of *)
(* the owner.  The owner hash is a function of the owner; the transaction *)
(* id stands for it.                                                      *)
InsertReward(d, tx) ==
  LET AddOwner(addr, e) == InsertRewardOwner(e, addr, tx.id)
  IN FoldSet(AddOwner, PersistInsertReward(d, tx.id), tx.rewardOwners)

(* Mutant: an existing alias is not deleted before its owners are added.  *)
InsertMultisigAliasNoDelete(d, tx) ==
  LET AddOwner(o, e) ==
        PersistMultisigAliasAddresses(
          PersistInsertMultisigAlias(e, [alias |-> tx.alias, owner |-> o, txid |-> tx.id]), o)
  IN FoldSet(AddOwner, PersistMultisigAliasAddresses(d, tx.alias), tx.owners)

(* Writer.InsertMultisigAlias: if the alias exists or Auth is nil,        *)
(* DeleteMultisigAlias; persistMultisigAliasAddresses for the alias; then *)
(* per owner the row (a duplicate ignored) and the owner's addresses.     *)
InsertMultisigAlias(d, tx) ==
  LET a == tx.alias
      d1 == IF ~tx.auth \/ QueryMultisigAliasFound(d, a)
              THEN DeleteMultisigAlias(d, a)
              ELSE d
      AddOwner(o, e) ==
        PersistMultisigAliasAddresses(
          PersistInsertMultisigAlias(e, [alias |-> a, owner |-> o, txid |-> tx.id]), o)
  IN FoldSet(AddOwner, PersistMultisigAliasAddresses(d1, a), tx.owners)

(* The writes of the type switch of indexTransaction for one branch.      *)
KindWrites(d, tx) ==
  CASE tx.kind = "validator"       -> InsertTransactionValidator(d, tx)
    [] tx.kind = "caminoValidator" ->
         IF tx.rewardOwners = {} THEN InsertTransactionValidator(d, tx)
         ELSE InsertReward(InsertTransactionValidator(d, tx), tx)
    [] tx.kind = "deposit"         ->
         IF tx.rewardOwners = {} THEN d ELSE InsertReward(d, tx)
    [] tx.kind = "alias"           -> InsertMultisigAlias(d, tx)
    [] OTHER                       -> d

(* Mutant: InsertTransactionBlock gets the block id and the tx id swapped. *)
InsertTransactionBlockSwapped(d, txId, blkId) ==
  InsertTransactionsBlock(d, blkId, txId)

(* Writer.InsertTransactionBlock.                                         *)
InsertTransactionBlock(d, txId, blkId) ==
  InsertTransactionsBlock(d, txId, blkId)

(* indexTransaction: AdvanceTimeTx returns before any write; every other  *)
(* known type makes its branch's writes, then InsertTransactionBlock and  *)
(* avax.InsertTransaction (insert-or-ignore keyed by the tx id).          *)
IndexTransaction(blkId, d, tx) ==
  IF tx.kind = "advanceTime" THEN d
  ELSE LET k == InsertTransactionBlock(KindWrites(d, tx), tx.id, blkId)
       IN PersistInsertTransactions(k, tx.id)

(* The unknown-type branch returns an error: the whole block is rolled    *)
(* back, on every attempt.                                                *)
DecodeFails(blk) == \E i \in DOMAIN blk.txs : blk.txs[i].kind = "unknown"

(* indexCommonBlock: the pvm_blocks row of the block.                    *)
IndexCommonBlock(d, blkId) == InsertPvmBlocks(d, blkId)

(* indexBlock: indexCommonBlock, then indexTransaction for each           *)
(* transaction of the block in order; an error of one is collected and    *)
(* the others still run, but the error rolls the whole transaction back.  *)
IndexBlock(d, blk) ==
  FoldLeft(LAMBDA e, tx : IndexTransaction(blk.id, e, tx),
           IndexCommonBlock(d, blk.id),
           blk.txs)

(* Writer.Consume of the container at ledger position p (0-based).        *)
DecodeContainer(p) ==
  /\ ~DecodeFails(Ledger[p + 1])
  /\ db' = IndexBlock(db, Ledger[p + 1])

(* Writer.Bootstrap up to an error: indexTransaction(ChainID, tx, true)  *)
(* for the first k genesis txs, then for the first j genesis blocks       *)
(* indexCommonBlock and indexTransaction of their txs.  It writes through *)
(* a plain session, so what precedes an error stays.  The genesis UTXOs   *)
(* (avax ProcessStateOut, not under src/) are left out.                   *)
BootstrapUpTo(d, k, j) ==
  FoldLeft(LAMBDA e, blk : IndexBlock(e, blk),
           FoldLeft(LAMBDA e, tx : IndexTransaction(ChainID, e, tx), d,
                    SubSeq(GenesisTxs, 1, k)),
           SubSeq(GenesisBlocks, 1, j))

(* The points at which Bootstrap can fail: before genesis tx k + 1, or    *)
(* after all txs before genesis block j + 1.                              *)
BootstrapErrorPoints ==
  {<<k, 0>> : k \in 0 .. Len(GenesisTxs) - 1} \cup
  {<<Len(GenesisTxs), j>> : j \in 0 .. Len(GenesisBlocks) - 1}

-----------------------------------------------------------------------------
(* The alias transactions of the ledger, with their position.             *)
AliasTxsAt(P) ==
  UNION {{<<p, i>> : i \in {j \in DOMAIN Ledger[p].txs :
                                 Ledger[p].txs[j].kind = "alias"}} :
         p \in {q \in DOMAIN Ledger : q - 1 \in P}}

(* A position <<0, i>> is the i-th genesis tx.                           *)
TxAt(pi) == IF pi[1] = 0 THEN GenesisTxs[pi[2]] ELSE Ledger[pi[1]].txs[pi[2]]

AliasRowsOf(a) == {r \in db.aliasRows : r.alias = a}

=============================================================================
