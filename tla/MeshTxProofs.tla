----------------------------- MODULE MeshTxProofs -----------------------------
(* Proofs about MeshTx, for a queue of any length and any repeat counts.   *)
EXTENDS MeshTx, TLAPS

-----------------------------------------------------------------------------
(* Types.                                                                  *)

\* What do_coded_broadcast does to the queue.
LEMMA BroadcastTyped ==
  ASSUME TxTypeOK, NEW frame \in Nat, DoCodedBroadcast(frame)
  PROVE  /\ queue' \in Seq(Nat)
         /\ Len(queue') <= TxQueueSize
         /\ pumpQueued' \in BOOLEAN
<1>1. queue \in Seq(Nat) /\ Len(queue) <= TxQueueSize
  BY DEF TxTypeOK
<1>2. CASE Len(queue) < TxQueueSize
  <2>1. queue' = Append(queue, frame)
    BY <1>2 DEF DoCodedBroadcast
  <2>2. queue' \in Seq(Nat) /\ Len(queue') = Len(queue) + 1
    BY <1>1, <2>1
  <2> QED BY <1>1, <1>2, <2>2, TxQueueAssumption DEF DoCodedBroadcast, TxTypeOK
<1>3. CASE ~(Len(queue) < TxQueueSize)
  <2>1. queue' = queue
    BY <1>3 DEF DoCodedBroadcast
  <2> QED BY <1>1, <2>1 DEF DoCodedBroadcast, TxTypeOK
<1> QED BY <1>2, <1>3

LEMMA TxTypeInit == TxInit => TxTypeOK
<1> SUFFICES ASSUME TxInit PROVE TxTypeOK
  OBVIOUS
<1>1. <<>> \in Seq(Nat) /\ Len(<<>>) = 0
  OBVIOUS
<1>2. queue \in Seq(Nat) /\ Len(queue) <= TxQueueSize
  <2>1. queue = <<>>
    BY DEF TxInit
  <2> QED BY <1>1, <2>1, TxQueueAssumption
<1>3. wq \in {"free", "pump", "stop"}
  BY DEF TxInit
<1> QED BY <1>2, <1>3 DEF TxInit, TxTypeOK

LEMMA TxTypeStep == TxTypeOK /\ [TxNext]_txVars => TxTypeOK'
<1> SUFFICES ASSUME TxTypeOK, [TxNext]_txVars PROVE TxTypeOK'
  OBVIOUS
<1> USE DEF pumpVars, repeatVars, relayVars
<1>1. ASSUME NEW count \in RepeatCounts, BroadcastWithRepeat(count) PROVE TxTypeOK'
  <2>1. frames' \in Nat /\ frames' = frames + 1
    BY <1>1 DEF BroadcastWithRepeat, TxTypeOK
  <2>2. /\ queue' \in Seq(Nat) /\ Len(queue') <= TxQueueSize
        /\ pumpQueued' \in BOOLEAN
    BY <1>1, <2>1, BroadcastTyped DEF BroadcastWithRepeat
  <2>3. repeatBuf' \in Nat /\ repeatLeft' \in Nat /\ repeatDue' \in BOOLEAN
    <3>1. CASE count > 1
      <4>1. count \in Nat
        BY RepeatAssumption
      <4>2. repeatBuf' = frames' /\ repeatLeft' = count - 1 /\ repeatDue' = TRUE
        BY <1>1, <3>1 DEF BroadcastWithRepeat
      <4> QED BY <2>1, <3>1, <4>1, <4>2
    <3>2. CASE ~(count > 1)
      BY <1>1, <3>2 DEF BroadcastWithRepeat, TxTypeOK
    <3> QED BY <3>1, <3>2
  <2> QED BY <1>1, <2>1, <2>2, <2>3 DEF BroadcastWithRepeat, TxTypeOK
<1>2. CASE RepeatWork
  <2>1. CASE repeatLeft > 0
    <3>1. /\ queue' \in Seq(Nat) /\ Len(queue') <= TxQueueSize
          /\ pumpQueued' \in BOOLEAN
      BY <1>2, <2>1, BroadcastTyped DEF RepeatWork, TxTypeOK
    <3> QED BY <1>2, <2>1, <3>1 DEF RepeatWork, TxTypeOK
  <2>2. CASE ~(repeatLeft > 0)
    BY <1>2, <2>2 DEF RepeatWork, TxTypeOK
  <2> QED BY <2>1, <2>2
<1>3. CASE RelayMessage
  BY <1>3 DEF RelayMessage, TxTypeOK
<1>4. CASE RelayWork
  <2>1. /\ queue' \in Seq(Nat) /\ Len(queue') <= TxQueueSize
        /\ pumpQueued' \in BOOLEAN
    BY <1>4, BroadcastTyped DEF RelayWork, TxTypeOK
  <2> QED BY <1>4, <2>1 DEF RelayWork, TxTypeOK
<1>5. CASE PumpBegins
  <2>1. queue' = queue \/ (queue # <<>> /\ queue' = Tail(queue))
    BY <1>5 DEF PumpBegins
  <2>2. queue' \in Seq(Nat) /\ Len(queue') <= TxQueueSize
    BY <2>1, TxQueueAssumption DEF TxTypeOK
  <2>3. wq' \in {"free", "pump", "stop"} /\ scanning' \in BOOLEAN
    BY <1>5 DEF PumpBegins, StartScanner, TxTypeOK
  <2> QED BY <1>5, <2>2, <2>3 DEF PumpBegins, TxTypeOK
<1>6. CASE PumpStartsBroadcast
  BY <1>6 DEF PumpStartsBroadcast, TxTypeOK
<1>7. CASE PumpFails
  BY <1>7 DEF PumpFails, StartScanner, TxTypeOK
<1>8. CASE StopBegins
  BY <1>8 DEF StopBegins, TxTypeOK
<1>9. CASE StopEnds
  BY <1>9 DEF StopEnds, TxTypeOK
<1>10. CASE UNCHANGED txVars
  BY <1>10 DEF txVars, TxTypeOK
<1> QED BY <1>1, <1>2, <1>3, <1>4, <1>5, <1>6, <1>7, <1>8, <1>9, <1>10
        DEF TxNext, Pump, StopAdv

\* The queue never overruns its slots and every variable keeps its range.
THEOREM TxTypeCorrect == TxSpec => []TxTypeOK
<1>1. TxInit => TxTypeOK
  BY TxTypeInit
<1>2. TxTypeOK /\ [TxNext]_txVars => TxTypeOK'
  BY TxTypeStep
<1> QED BY <1>1, <1>2, PTL DEF TxSpec

-----------------------------------------------------------------------------
(* The pump.  NoLostWakeup is not inductive: a frame queued while          *)
(* is_broadcasting is set submits nothing, and a pump that finds it set    *)
(* gives up, so it leans on a broadcast always being about to end, which   *)
(* is OneOnAir.                                                            *)

PumpInv == NoLostWakeup /\ OneOnAir

LEMMA PumpInvInit == TxInit => PumpInv
  BY DEF TxInit, PumpInv, NoLostWakeup, OneOnAir

\* Queueing a frame keeps the pump coming, whether or not it fits.
LEMMA BroadcastPumps ==
  ASSUME PumpInv, NEW frame, DoCodedBroadcast(frame),
         UNCHANGED <<wq, onAir, stopDue, scanning>>
  PROVE  PumpInv'
<1>1. OneOnAir'
  BY DEF PumpInv, OneOnAir, Ending
<1>2. NoLostWakeup'
  <2>1. CASE queue' = queue
    BY <2>1 DEF PumpInv, NoLostWakeup, PumpComing, Ending, DoCodedBroadcast
  <2>2. CASE queue' # queue
    <3>1. pumpQueued' \/ onAir
      BY <2>2 DEF DoCodedBroadcast
    <3> QED BY <3>1 DEF PumpInv, NoLostWakeup, OneOnAir, PumpComing, Ending
  <2> QED BY <2>1, <2>2
<1> QED BY <1>1, <1>2 DEF PumpInv

LEMMA PumpInvStep == PumpInv /\ [TxNext]_txVars => PumpInv'
<1> SUFFICES ASSUME PumpInv, [TxNext]_txVars PROVE PumpInv'
  OBVIOUS
<1> USE DEF pumpVars, repeatVars, relayVars
<1>1. ASSUME NEW count \in RepeatCounts, BroadcastWithRepeat(count) PROVE PumpInv'
  BY <1>1, BroadcastPumps DEF BroadcastWithRepeat
<1>2. CASE RepeatWork
  <2>1. CASE repeatLeft > 0
    BY <1>2, <2>1, BroadcastPumps DEF RepeatWork
  <2>2. CASE ~(repeatLeft > 0)
    BY <1>2, <2>2 DEF RepeatWork, PumpInv, NoLostWakeup, OneOnAir, PumpComing, Ending
  <2> QED BY <2>1, <2>2
<1>3. CASE RelayMessage
  BY <1>3 DEF RelayMessage, PumpInv, NoLostWakeup, OneOnAir, PumpComing, Ending
<1>4. CASE RelayWork
  BY <1>4, BroadcastPumps DEF RelayWork
<1>5. CASE PumpBegins
  BY <1>5 DEF PumpBegins, StartScanner, PumpInv, NoLostWakeup, OneOnAir, PumpComing, Ending
<1>6. CASE PumpStartsBroadcast
  BY <1>6 DEF PumpStartsBroadcast, PumpInv, NoLostWakeup, OneOnAir, PumpComing, Ending
<1>7. CASE PumpFails
  BY <1>7 DEF PumpFails, StartScanner, PumpInv, NoLostWakeup, OneOnAir, PumpComing, Ending
<1>8. CASE StopBegins
  BY <1>8 DEF StopBegins, PumpInv, NoLostWakeup, OneOnAir, PumpComing, Ending
<1>9. CASE StopEnds
  BY <1>9 DEF StopEnds, PumpInv, NoLostWakeup, OneOnAir, PumpComing, Ending
<1>10. CASE UNCHANGED txVars
  BY <1>10 DEF txVars, PumpInv, NoLostWakeup, OneOnAir, PumpComing, Ending
<1> QED BY <1>1, <1>2, <1>3, <1>4, <1>5, <1>6, <1>7, <1>8, <1>9, <1>10
        DEF TxNext, Pump, StopAdv

LEMMA PumpInvHolds == TxSpec => []PumpInv
<1>1. TxInit => PumpInv
  BY PumpInvInit
<1>2. PumpInv /\ [TxNext]_txVars => PumpInv'
  BY PumpInvStep
<1> QED BY <1>1, <1>2, PTL DEF TxSpec

\* No frame is left in the queue without a work item that will pump it.
THEOREM TxNoLostWakeup == TxSpec => []NoLostWakeup
<1>1. PumpInv => NoLostWakeup
  BY DEF PumpInv
<1> QED BY <1>1, PumpInvHolds, PTL

\* Broadcasts never overlap and always end.
THEOREM TxOneOnAir == TxSpec => []OneOnAir
<1>1. PumpInv => OneOnAir
  BY DEF PumpInv
<1> QED BY <1>1, PumpInvHolds, PTL
=============================================================================
