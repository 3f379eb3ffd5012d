--------------------------- MODULE RewardsHandler ---------------------------
(***************************************************************************)
(* The rewards handler (src/services/rewards/rewards_handler.go) and the   *)
(* daemon code that starts and closes it (runStreamProcessorManagers in    *)
(* src/cmds/magelland/magelland.go).                                       *)
(*                                                                         *)
(* The daemon goroutine ("main") calls Handler.Start, which spawns         *)
(* runTicker and returns; runTicker creates doneCh in its own goroutine,  *)
(* then once a tick selects the unprocessed rows of the rewards table and *)
(* handles them in the order the query returns them: an aborted block's  *)
(* row is only marked processed; any other row has its reward UTXOs       *)
(* fetched from the node, written with ProcessStateOut, and is then       *)
(* marked.  The daemon's deferred Handler.Close closes doneCh, which stops *)
(* the loop.                                                               *)
(*                                                                         *)
(* Rows of the rewards table are ids; what GetRewardUTXOs answers for a    *)
(* row is the constant RewardUtxos; an output written by ProcessStateOut   *)
(* is an element of Utxos (an insert keyed by the output id).             *)
(***************************************************************************)
EXTENDS Naturals

CONSTANTS
  Rewards,      \* rows of the rewards table
  Aborted,      \* the rows whose block is an abort block
  Utxos,        \* reward UTXOs (outputs table rows)
  RewardUtxos,  \* GetRewardUTXOs: the UTXOs the node returns for a row
  MaxCrashes,   \* bound on daemon crashes and restarts
  MaxFailures,  \* bound on failed database and node calls
  NoRow         \* no row (cur between rows)

ASSUME RewardsAssumption ==
  /\ Aborted \subseteq Rewards
  /\ RewardUtxos \in [Rewards -> SUBSET Utxos]
  /\ MaxCrashes \in Nat
  /\ MaxFailures \in Nat
  /\ NoRow \notin Rewards

VARIABLES
  main,       \* the daemon goroutine: "init", "started", "closed", "exited", "panicked"
  hState,     \* runTicker: "none", "spawned", "loop", "tick", "marking", "stopped"
  doneCh,     \* Handler.doneCh: "nil", "open", "closed"
  rows,       \* rows present in the rewards table
  processed,  \* rows with processed = 1
  outs,       \* outputs written by ProcessStateOut
  pending,    \* rows of the current tick's result not handled yet
  cur,        \* the row whose UTXOs were written and which is being marked
  crashes,
  failures

vars == <<main, hState, doneCh, rows, processed, outs, pending, cur,
          crashes, failures>>

TypeOK ==
  /\ main \in {"init", "started", "closed", "exited", "panicked"}
  /\ hState \in {"none", "spawned", "loop", "tick", "marking", "stopped"}
  /\ doneCh \in {"nil", "open", "closed"}
  /\ rows \subseteq Rewards
  /\ processed \subseteq rows
  /\ outs \subseteq Utxos
  /\ pending \subseteq rows \ processed
  /\ cur \in Rewards \cup {NoRow}
  /\ crashes \in 0 .. MaxCrashes
  /\ failures \in 0 .. MaxFailures

Init ==
  /\ main = "init"
  /\ hState = "none"
  /\ doneCh = "nil"
  /\ rows \in SUBSET Rewards
  /\ processed = {}
  /\ outs = {}
  /\ pending = {}
  /\ cur = NoRow
  /\ crashes = 0
  /\ failures = 0

Fail == failures < MaxFailures /\ failures' = failures + 1

(* A failed call ends processRewards: runTicker logs it and waits for the *)
(* next tick.                                                             *)
EndTick == hState' = "loop" /\ pending' = {} /\ cur' = NoRow

-----------------------------------------------------------------------------
(* Handler.Start: sc.Database(), then go runTicker.                       *)
Start ==
  /\ main = "init"
  /\ main' = "started"
  /\ hState' = "spawned"
  /\ UNCHANGED <<doneCh, rows, processed, outs, pending, cur, crashes, failures>>

(* sc.Database() fails: the daemon returns before deferring rh.Close.    *)
StartError ==
  /\ main = "init"
  /\ Fail
  /\ main' = "exited"
  /\ UNCHANGED <<hState, doneCh, rows, processed, outs, pending, cur, crashes>>

(* Handler.Close: close(r.doneCh).  Closing a nil channel panics.         *)
HandlerClose ==
  IF doneCh = "nil"
    THEN main' = "panicked" /\ UNCHANGED doneCh
    ELSE main' = "closed" /\ doneCh' = "closed"

(* The daemon returns, on a consumers.Bootstrap or IndexerFactories       *)
(* error or after the exit signal, and runs its deferred rh.Close.        *)
DaemonReturn ==
  /\ main = "started"
  /\ HandlerClose
  /\ UNCHANGED <<hState, rows, processed, outs, pending, cur, crashes, failures>>

(* runTicker's set-up: the ticker, r.doneCh = make(...), the client, the  *)
(* persist and the writer.                                                *)
RunTickerInit ==
  /\ hState = "spawned"
  /\ hState' = "loop"
  /\ doneCh' = "open"
  /\ UNCHANGED <<main, rows, processed, outs, pending, cur, crashes, failures>>

(* The select receives from the closed doneCh: runTicker returns.         *)
Stop ==
  /\ hState = "loop"
  /\ doneCh = "closed"
  /\ hState' = "stopped"
  /\ UNCHANGED <<main, doneCh, rows, processed, outs, pending, cur, crashes, failures>>

(* A row is written to the rewards table (by code outside src/).         *)
Arrive(r) ==
  /\ r \in Rewards \ rows
  /\ rows' = rows \cup {r}
  /\ UNCHANGED <<main, hState, doneCh, processed, outs, pending, cur, crashes, failures>>

(* Mutant: the query's processed = 0 condition is lost.                  *)
ProcessRewardsSelectAll ==
  /\ hState = "loop"
  /\ hState' = "tick"
  /\ pending' = rows
  /\ UNCHANGED <<main, doneCh, rows, processed, outs, cur, crashes, failures>>

(* processRewards' query on a tick: the rows with processed = 0.  The     *)
(* query has no ORDER BY, so the loop may take them in any order; an      *)
(* empty result returns at once (TickDone).                               *)
ProcessRewardsSelect ==
  /\ hState = "loop"
  /\ hState' = "tick"
  /\ pending' = rows \ processed
  /\ UNCHANGED <<main, doneCh, rows, processed, outs, cur, crashes, failures>>

ProcessRewardsSelectError ==
  /\ hState = "loop"
  /\ Fail
  /\ UNCHANGED <<main, hState, doneCh, rows, processed, outs, pending, cur, crashes>>

(* markRewardProcessed: UpdateRewardsProcessed sets processed = 1.        *)
MarkRewardProcessed(r) == processed' = processed \cup {r}

(* Mutant: the abort-block test is lost and any row of the tick is        *)
(* marked processed at once.                                               *)
ProcessAbortAnyRow(r) ==
  /\ hState = "tick"
  /\ r \in pending
  /\ MarkRewardProcessed(r)
  /\ pending' = pending \ {r}
  /\ UNCHANGED <<main, hState, doneCh, rows, outs, cur, crashes, failures>>

(* An abort block's row is marked processed and the loop continues.       *)
ProcessAbort(r) ==
  /\ hState = "tick"
  /\ r \in pending \cap Aborted
  /\ MarkRewardProcessed(r)
  /\ pending' = pending \ {r}
  /\ UNCHANGED <<main, hState, doneCh, rows, outs, cur, crashes, failures>>

(* ids.FromString or GetRewardUTXOs fails: processRewards returns.        *)
GetRewardUTXOsError(r) ==
  /\ hState = "tick"
  /\ r \in pending \ Aborted
  /\ Fail
  /\ EndTick
  /\ UNCHANGED <<main, doneCh, rows, processed, outs, crashes>>

(* The node returns no UTXOs: processRewards returns "no rewards" and the *)
(* rest of the tick's rows wait for the next tick.                        *)
NoRewards(r) ==
  /\ hState = "tick"
  /\ r \in pending \ Aborted
  /\ RewardUtxos[r] = {}
  /\ EndTick
  /\ UNCHANGED <<main, doneCh, rows, processed, outs, crashes, failures>>

(* processRewardUtxos succeeds: every UTXO is written by ProcessStateOut, *)
(* then markRewardProcessed follows.                                      *)
ProcessRewardUtxos(r) ==
  /\ hState = "tick"
  /\ r \in pending \ Aborted
  /\ RewardUtxos[r] /= {}
  /\ outs' = outs \cup RewardUtxos[r]
  /\ cur' = r
  /\ hState' = "marking"
  /\ UNCHANGED <<main, doneCh, rows, processed, pending, crashes, failures>>

(* Mutant: the error of processRewardUtxos is ignored and the row is      *)
(* marked anyway.                                                         *)
ProcessRewardUtxosErrorIgnored(r) ==
  /\ hState = "tick"
  /\ r \in pending \ Aborted
  /\ RewardUtxos[r] /= {}
  /\ Fail
  /\ \E written \in SUBSET RewardUtxos[r] : outs' = outs \cup written
  /\ cur' = r
  /\ hState' = "marking"
  /\ pending' = pending
  /\ UNCHANGED <<main, doneCh, rows, processed, crashes>>

(* processRewardUtxos fails: Unmarshal, a ProcessStateOut or the Commit.  *)
(* ProcessStateOut writes through sess, not through the dbTx begun above, *)
(* so the outputs written before the failure stay.                        *)
ProcessRewardUtxosError(r) ==
  /\ hState = "tick"
  /\ r \in pending \ Aborted
  /\ RewardUtxos[r] /= {}
  /\ Fail
  /\ \E written \in SUBSET RewardUtxos[r] : outs' = outs \cup written
  /\ EndTick
  /\ UNCHANGED <<main, doneCh, rows, processed, crashes>>

(* markRewardProcessed after the UTXOs were written.                      *)
Mark ==
  /\ hState = "marking"
  /\ MarkRewardProcessed(cur)
  /\ pending' = pending \ {cur}
  /\ cur' = NoRow
  /\ hState' = "tick"
  /\ UNCHANGED <<main, doneCh, rows, outs, crashes, failures>>

MarkError ==
  /\ hState \in {"tick", "marking"}
  /\ \/ hState = "marking"
     \/ \E r \in pending \cap Aborted : TRUE
  /\ Fail
  /\ EndTick
  /\ UNCHANGED <<main, doneCh, rows, processed, outs, crashes>>

(* Every row of the result handled: processRewards returns nil.          *)
TickDone ==
  /\ hState = "tick"
  /\ pending = {}
  /\ hState' = "loop"
  /\ UNCHANGED <<main, doneCh, rows, processed, outs, pending, cur, crashes, failures>>

(* The daemon process dies and is restarted: memory is lost, the          *)
(* database kept.                                                          *)
Crash ==
  /\ crashes < MaxCrashes
  /\ crashes' = crashes + 1
  /\ main' = "init"
  /\ hState' = "none"
  /\ doneCh' = "nil"
  /\ pending' = {}
  /\ cur' = NoRow
  /\ UNCHANGED <<rows, processed, outs, failures>>

-----------------------------------------------------------------------------
HandlerStep ==
  \/ RunTickerInit
  \/ Stop
  \/ ProcessRewardsSelect
  \/ ProcessRewardsSelectError
  \/ \E r \in Rewards :
       \/ ProcessAbort(r)
       \/ GetRewardUTXOsError(r)
       \/ NoRewards(r)
       \/ ProcessRewardUtxos(r)
       \/ ProcessRewardUtxosError(r)
  \/ Mark
  \/ MarkError
  \/ TickDone

Next ==
  \/ Start
  \/ StartError
  \/ DaemonReturn
  \/ HandlerStep
  \/ \E r \in Rewards : Arrive(r)
  \/ Crash

(* The daemon's Start and runTicker's loop are program control; the       *)
(* ticker fires every 24 hours.  The exit signal and crashes are not      *)
(* scheduled.                                                             *)
Spec == Init /\ [][Next]_vars /\ WF_vars(Start) /\ WF_vars(HandlerStep)

-----------------------------------------------------------------------------
(* The handler implements the rewards ledger: with the daemon, ticks,    *)
(* crashes and failed calls hidden, every step that changes the rewards   *)
(* table or the outputs is an arrival, a write of some of a row's reward  *)
(* outputs while the row is unprocessed, or the settle of a row that is  *)
(* aborted or has all its outputs.                                        *)
RL == INSTANCE RewardsLedger

ImplementsRewardsLedger == RL!RLSpec

(* A row is marked processed only after every reward UTXO the node       *)
(* returns for it has been written by ProcessStateOut: no failure of      *)
(* processRewardUtxos and no crash between the writes and                 *)
(* markRewardProcessed leaves a processed reward without its outputs.     *)
MarkedImpliesWritten ==
  \A r \in processed \ Aborted : RewardUtxos[r] \subseteq outs

(* processRewardUtxos begins a database transaction for the UTXOs of one  *)
(* reward: their outputs are meant to be written all or none.             *)
RewardUtxosAtomic ==
  \A r \in Rewards : RewardUtxos[r] \cap outs = {} \/ RewardUtxos[r] \subseteq outs

(* Handler.Close never closes a nil doneCh (which panics the daemon).     *)
NoNilClose == main /= "panicked"

(* Every reward row with UTXOs is eventually marked processed, unless the *)
(* daemon has returned.                                                    *)
EveryRewardProcessed ==
  \A r \in Rewards \ Aborted :
    RewardUtxos[r] /= {} =>
      (r \in rows ~> (r \in processed \/ main \in {"closed", "exited", "panicked"}))

=============================================================================
