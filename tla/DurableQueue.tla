---------------------------- MODULE DurableQueue ----------------------------
(***************************************************************************)
(* What the checkpoint store, the producer, the durable queue and the      *)
(* consumer of one topic promise together (spec 4.1-4.4, 5, 7), with no    *)
(* workers, batches, crashes or failed calls: the ledger grows; an         *)
(* accepted container is enqueued, any number of times, as one entry; the *)
(* checkpoint moves forward, and only over containers already enqueued or *)
(* decoded; a queued entry is decoded, again if it is delivered again; an *)
(* entry leaves the queue only once it is decoded.                         *)
(***************************************************************************)
EXTENDS Naturals, TLAPS

CONSTANT MaxLedger  \* containers the ledger accepts in a behaviour

VARIABLES
  ledger,      \* containers accepted: positions 0 .. ledger - 1
  queue,       \* the positions with an entry in the queue
  decoded,     \* the positions whose decode has committed
  checkpoint   \* the checkpoint's index

dqVars == <<ledger, queue, decoded, checkpoint>>

Positions == 0 .. (MaxLedger - 1)

(* Enqueued or decoded: the container cannot be lost any more.           *)
Held(i) == i \in queue \cup decoded

DQInit ==
  /\ ledger = 0
  /\ queue = {}
  /\ decoded = {}
  /\ checkpoint = 0

DQAccept ==
  /\ ledger < MaxLedger
  /\ ledger' = ledger + 1
  /\ UNCHANGED <<queue, decoded, checkpoint>>

(* enqueue: idempotent; only a container the ledger has accepted.         *)
Enqueue(i) ==
  /\ i < ledger
  /\ queue' = queue \cup {i}
  /\ UNCHANGED <<ledger, decoded, checkpoint>>

(* advance: forward, to the last container of a durable batch, never past *)
(* a container that is not held.                                          *)
Advance(k) ==
  /\ checkpoint <= k
  /\ k < ledger
  /\ \A j \in 0 .. k : Held(j)
  /\ checkpoint' = k
  /\ UNCHANGED <<ledger, queue, decoded>>

(* consume: the decode of a queued entry commits.                         *)
Decode(i) ==
  /\ i \in queue
  /\ decoded' = decoded \cup {i}
  /\ UNCHANGED <<ledger, queue, checkpoint>>

(* remove: never before the decode has committed.                         *)
Remove(i) ==
  /\ i \in decoded
  /\ queue' = queue \ {i}
  /\ UNCHANGED <<ledger, decoded, checkpoint>>

DQNext ==
  \/ DQAccept
  \/ \E i \in Positions : Enqueue(i) \/ Decode(i) \/ Remove(i)
  \/ \E k \in Positions : Advance(k)

DQSpec == DQInit /\ [][DQNext]_dqVars


-----------------------------------------------------------------------------
(* The crash-resume promise (spec 4.3, 5): a restart resumes from the     *)
(* checkpoint, so every position before it must be queued or decoded.    *)
DQNoLoss == \A j \in Positions : j < checkpoint => Held(j)

(* No entry is silently dropped (spec 7): a step never makes a queued or  *)
(* decoded position unheld; remove only takes decoded entries away.       *)
DQHeldStable == [][\A i \in Positions : Held(i) => Held(i)']_dqVars

(* The checkpoint only moves forward (spec 3, 4.1).                      *)
DQCheckpointMonotone == [][checkpoint' >= checkpoint]_dqVars

DQTypeOK ==
  /\ ledger \in Nat
  /\ checkpoint \in Nat

(* Every step keeps the counters natural numbers.                         *)
LEMMA DQTypeStep == DQTypeOK /\ [DQNext]_dqVars => DQTypeOK'
BY DEF DQTypeOK, DQNext, DQAccept, Enqueue, Advance, Decode, Remove, dqVars, Positions

(* The promises of the abstract queue follow from its steps alone: a     *)
(* position below the checkpoint is queued or decoded in every state.    *)
THEOREM DQNoLossThm == DQSpec => []DQNoLoss
<1>1. DQInit => DQNoLoss
  BY DEF DQInit, DQNoLoss, Positions
<1>2. DQTypeOK /\ DQNoLoss /\ [DQNext]_dqVars => DQNoLoss'
  <2> SUFFICES ASSUME DQTypeOK, DQNoLoss, [DQNext]_dqVars PROVE DQNoLoss'
    OBVIOUS
  <2> USE DEF DQNoLoss, Held
  <2>1. CASE DQAccept
    BY <2>1 DEF DQAccept
  <2>2. ASSUME NEW i \in Positions, Enqueue(i) \/ Decode(i) \/ Remove(i)
        PROVE  DQNoLoss'
    BY <2>2 DEF Enqueue, Decode, Remove
  <2>3. ASSUME NEW k \in Positions, Advance(k) PROVE DQNoLoss'
    BY <2>3 DEF Advance, Positions, DQTypeOK
  <2>4. CASE UNCHANGED dqVars
    BY <2>4 DEF dqVars
  <2>. QED
    BY <2>1, <2>2, <2>3, <2>4 DEF DQNext
<1>3. DQInit => DQTypeOK
  BY DEF DQInit, DQTypeOK
<1>. QED
  BY <1>1, <1>2, <1>3, DQTypeStep, PTL DEF DQSpec

(* The abstract queue drops nothing and never moves its checkpoint back. *)
THEOREM DQSafeSteps == DQSpec => DQHeldStable /\ DQCheckpointMonotone
<1>1. [DQNext]_dqVars => [\A i \in Positions : Held(i) => Held(i)']_dqVars
  BY DEF DQNext, DQAccept, Enqueue, Advance, Decode, Remove, dqVars, Held
<1>2. DQTypeOK /\ [DQNext]_dqVars => [checkpoint' >= checkpoint]_dqVars
  BY DEF DQNext, DQAccept, Enqueue, Advance, Decode, Remove, dqVars, DQTypeOK, Positions
<1>3. DQInit => DQTypeOK
  BY DEF DQInit, DQTypeOK
<1>. QED
  BY <1>1, <1>2, <1>3, DQTypeStep, PTL DEF DQSpec, DQHeldStable, DQCheckpointMonotone

=============================================================================
