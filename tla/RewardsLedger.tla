--------------------------- MODULE RewardsLedger ---------------------------
(***************************************************************************)
(* What the rewards handler promises of the rewards and outputs tables,   *)
(* with no daemon, ticks, crashes or failed calls: rows arrive; the       *)
(* outputs of a row's reward UTXOs are written, some or all of them, as  *)
(* long as the row is not processed; a row is settled (processed = 1)    *)
(* once, and only when its block was aborted or every one of its reward  *)
(* UTXOs is written.  Nothing is ever unmarked or unwritten.              *)
(***************************************************************************)
EXTENDS TLAPS

CONSTANTS Rewards, Aborted, Utxos, RewardUtxos

VARIABLES rows, processed, outs

rlVars == <<rows, processed, outs>>

RLInit ==
  /\ rows \in SUBSET Rewards
  /\ processed = {}
  /\ outs = {}

RLArrive(r) ==
  /\ r \in Rewards \ rows
  /\ rows' = rows \cup {r}
  /\ UNCHANGED <<processed, outs>>

(* Outputs of some of r's UTXOs are written while r is unsettled.         *)
WriteOutputs(r, W) ==
  /\ r \in rows \ processed
  /\ W \subseteq RewardUtxos[r]
  /\ outs' = outs \cup W
  /\ UNCHANGED <<rows, processed>>

(* r is settled: aborted, or all its outputs are there.                  *)
Settle(r) ==
  /\ r \in rows \ processed
  /\ r \in Aborted \/ RewardUtxos[r] \subseteq outs
  /\ processed' = processed \cup {r}
  /\ UNCHANGED <<rows, outs>>

RLNext ==
  \E r \in Rewards :
    \/ RLArrive(r)
    \/ Settle(r)
    \/ \E W \in SUBSET RewardUtxos[r] : WriteOutputs(r, W)

RLSpec == RLInit /\ [][RLNext]_rlVars

-----------------------------------------------------------------------------
(* A settled row that was not aborted has all its outputs written, in    *)
(* every state: outputs are never taken back after the settle.            *)
RLSettledWritten == \A r \in processed \ Aborted : RewardUtxos[r] \subseteq outs

THEOREM RLSettledWrittenThm == RLSpec => []RLSettledWritten
<1>1. RLInit => RLSettledWritten
  BY DEF RLInit, RLSettledWritten
<1>2. RLSettledWritten /\ [RLNext]_rlVars => RLSettledWritten'
  <2> SUFFICES ASSUME RLSettledWritten, [RLNext]_rlVars PROVE RLSettledWritten'
    OBVIOUS
  <2> USE DEF RLSettledWritten
  <2>1. ASSUME NEW r \in Rewards, RLArrive(r) PROVE RLSettledWritten'
    BY <2>1 DEF RLArrive
  <2>2. ASSUME NEW r \in Rewards, Settle(r) PROVE RLSettledWritten'
    BY <2>2 DEF Settle
  <2>3. ASSUME NEW r \in Rewards, NEW W \in SUBSET RewardUtxos[r], WriteOutputs(r, W)
        PROVE  RLSettledWritten'
    BY <2>3 DEF WriteOutputs
  <2>4. CASE UNCHANGED rlVars
    BY <2>4 DEF rlVars
  <2>. QED
    BY <2>1, <2>2, <2>3, <2>4 DEF RLNext
<1>. QED
  BY <1>1, <1>2, PTL DEF RLSpec

=============================================================================
