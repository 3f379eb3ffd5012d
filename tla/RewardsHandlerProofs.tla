----------------------- MODULE RewardsHandlerProofs -----------------------
(***************************************************************************)
(* Proofs, for every set of rows, UTXOs and node answers, that the        *)
(* rewards handler keeps its type and marks a reward processed only after *)
(* all its UTXOs are written.                                             *)
(***************************************************************************)
EXTENDS RewardsHandler, TLAPS

(* MarkedImpliesWritten strengthened: while markRewardProcessed is in     *)
(* flight, the row being marked is an unhandled non-abort row of the tick *)
(* whose UTXOs are all written.                                          *)
IInv ==
  /\ TypeOK
  /\ MarkedImpliesWritten
  /\ hState = "marking" =>
        /\ cur \in pending \ Aborted
        /\ RewardUtxos[cur] \subseteq outs

USE RewardsAssumption

-----------------------------------------------------------------------------
(* Every step of the handler and the daemon preserves IInv.               *)
LEMMA IInvStep == IInv /\ [Next]_vars => IInv'
<1> SUFFICES ASSUME IInv, [Next]_vars PROVE IInv'
  OBVIOUS
<1> USE DEF IInv, TypeOK, MarkedImpliesWritten
<1>1. CASE Start
  BY <1>1 DEF Start
<1>2. CASE StartError
  BY <1>2 DEF StartError, Fail
<1>3. CASE DaemonReturn
  BY <1>3 DEF DaemonReturn, HandlerClose
<1>4. CASE RunTickerInit
  BY <1>4 DEF RunTickerInit
<1>5. CASE Stop
  BY <1>5 DEF Stop
<1>6. CASE ProcessRewardsSelect
  BY <1>6 DEF ProcessRewardsSelect
<1>7. CASE ProcessRewardsSelectError
  BY <1>7 DEF ProcessRewardsSelectError, Fail
<1>8. ASSUME NEW r \in Rewards, ProcessAbort(r) PROVE IInv'
  BY <1>8 DEF ProcessAbort, MarkRewardProcessed
<1>9. ASSUME NEW r \in Rewards, GetRewardUTXOsError(r) PROVE IInv'
  BY <1>9 DEF GetRewardUTXOsError, Fail, EndTick
<1>10. ASSUME NEW r \in Rewards, NoRewards(r) PROVE IInv'
  BY <1>10 DEF NoRewards, EndTick
<1>11. ASSUME NEW r \in Rewards, ProcessRewardUtxos(r) PROVE IInv'
  BY <1>11 DEF ProcessRewardUtxos
<1>12. ASSUME NEW r \in Rewards, ProcessRewardUtxosError(r) PROVE IInv'
  BY <1>12 DEF ProcessRewardUtxosError, Fail, EndTick
<1>13. CASE Mark
  BY <1>13 DEF Mark, MarkRewardProcessed
<1>14. CASE MarkError
  BY <1>14 DEF MarkError, Fail, EndTick
<1>15. CASE TickDone
  BY <1>15 DEF TickDone
<1>16. ASSUME NEW r \in Rewards, Arrive(r) PROVE IInv'
  BY <1>16 DEF Arrive
<1>17. CASE Crash
  BY <1>17 DEF Crash
<1>18. CASE UNCHANGED vars
  BY <1>18 DEF vars
<1> QED
  BY <1>1, <1>2, <1>3, <1>4, <1>5, <1>6, <1>7, <1>8, <1>9, <1>10, <1>11,
     <1>12, <1>13, <1>14, <1>15, <1>16, <1>17, <1>18 DEF Next, HandlerStep

(* The handler's state keeps its type: in particular the rows a tick has  *)
(* left to handle are unprocessed rows of the table.                      *)
THEOREM RewardsTypeCorrect == Spec => []TypeOK
<1>1. Init => IInv
  BY DEF Init, IInv, TypeOK, MarkedImpliesWritten
<1>2. IInv => TypeOK
  BY DEF IInv
<1>3. QED
  BY <1>1, <1>2, IInvStep, PTL DEF Spec

(* processRewards marks a non-abort reward processed only after           *)
(* processRewardUtxos has written all its UTXOs, whatever calls fail and  *)
(* whenever the daemon crashes.                                           *)
THEOREM MarkedImpliesWrittenThm == Spec => []MarkedImpliesWritten
<1>1. Init => IInv
  BY DEF Init, IInv, TypeOK, MarkedImpliesWritten
<1>2. IInv => MarkedImpliesWritten
  BY DEF IInv
<1>3. QED
  BY <1>1, <1>2, IInvStep, PTL DEF Spec

-----------------------------------------------------------------------------
(* Every step of the handler and the daemon is a step of the rewards      *)
(* ledger, or leaves the rewards table and the outputs alone.            *)
LEMMA RLStep == IInv /\ [Next]_vars => [RL!RLNext]_RL!rlVars
<1> SUFFICES ASSUME IInv, [Next]_vars PROVE [RL!RLNext]_RL!rlVars
  OBVIOUS
<1> USE DEF IInv, TypeOK
<1>. DEFINE Stutter == UNCHANGED <<rows, processed, outs>>
<1>1. Stutter => [RL!RLNext]_RL!rlVars
  BY DEF RL!rlVars
<1>2. ASSUME NEW r \in Rewards, ProcessAbort(r) PROVE RL!Settle(r)
  BY <1>2 DEF ProcessAbort, MarkRewardProcessed, RL!Settle
<1>3. ASSUME NEW r \in Rewards, ProcessRewardUtxos(r)
      PROVE  RL!WriteOutputs(r, RewardUtxos[r])
  BY <1>3 DEF ProcessRewardUtxos, RL!WriteOutputs
<1>4. ASSUME NEW r \in Rewards, ProcessRewardUtxosError(r)
      PROVE  \E W \in SUBSET RewardUtxos[r] : RL!WriteOutputs(r, W)
  BY <1>4 DEF ProcessRewardUtxosError, EndTick, Fail, RL!WriteOutputs
<1>5. ASSUME Mark PROVE RL!Settle(cur)
  BY <1>5 DEF Mark, MarkRewardProcessed, RL!Settle
<1>6. ASSUME NEW r \in Rewards, Arrive(r) PROVE RL!RLArrive(r)
  BY <1>6 DEF Arrive, RL!RLArrive
<1>7. ASSUME NEW r \in Rewards,
             GetRewardUTXOsError(r) \/ NoRewards(r)
      PROVE  Stutter
  BY <1>7 DEF GetRewardUTXOsError, NoRewards
<1>8. CASE Start \/ StartError \/ DaemonReturn \/ RunTickerInit \/ Stop
           \/ ProcessRewardsSelect \/ ProcessRewardsSelectError \/ MarkError
           \/ TickDone \/ Crash \/ UNCHANGED vars
  BY <1>8 DEF Start, StartError, DaemonReturn, RunTickerInit, Stop, ProcessRewardsSelect,
              ProcessRewardsSelectError, MarkError, TickDone, Crash, vars, RL!rlVars
<1>9. ASSUME NEW r \in Rewards,
             \/ ProcessAbort(r)
             \/ GetRewardUTXOsError(r) \/ NoRewards(r)
             \/ ProcessRewardUtxos(r) \/ ProcessRewardUtxosError(r)
             \/ Arrive(r)
      PROVE  [RL!RLNext]_RL!rlVars
  <2>1. RL!Settle(r) \/ RL!RLArrive(r)
        \/ (\E W \in SUBSET RewardUtxos[r] : RL!WriteOutputs(r, W)) \/ Stutter
    BY <1>2, <1>3, <1>4, <1>6, <1>7, <1>9
  <2>. QED
    BY <2>1, <1>1 DEF RL!RLNext
<1>10. CASE Mark
  <2>1. cur \in Rewards
    BY <1>10 DEF Mark
  <2>. QED
    BY <1>5, <1>10, <2>1 DEF RL!RLNext
<1> QED
  BY <1>1, <1>8, <1>9, <1>10 DEF Next, HandlerStep

(* The handler, the daemon that starts and closes it, crashes and failed  *)
(* calls together implement the rewards ledger: rows are settled once,    *)
(* only when aborted or with all their outputs written, outputs are only  *)
(* written for unsettled rows, and nothing is unmarked or unwritten.      *)
THEOREM RefinesRewardsLedger == Spec => ImplementsRewardsLedger
<1>1. Init => IInv
  BY DEF Init, IInv, TypeOK, MarkedImpliesWritten
<1>2. Init => RL!RLInit
  BY DEF Init, RL!RLInit
<1>. QED
  BY <1>1, <1>2, IInvStep, RLStep, PTL DEF Spec, ImplementsRewardsLedger, RL!RLSpec

=============================================================================
