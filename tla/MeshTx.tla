-------------------------------- MODULE MeshTx --------------------------------
(***************************************************************************)
(* The transmitting half of one emitter's mesh, emitter/src/mesh.c: frames *)
(* of this emitter and frames to relay pass through one queue, and a pump  *)
(* on the system work queue puts them on the air one at a time, stopping   *)
(* the scanner meanwhile.                                                  *)
(*                                                                         *)
(* The work queue is one thread, but a handler gives up the processor      *)
(* while it waits for the controller, and frames go on arriving from the   *)
(* Bluetooth thread: wq says which handler is waiting.  A frame is its     *)
(* number, in the order frames were made or received.                      *)
(***************************************************************************)
EXTENDS Naturals, Sequences

CONSTANTS
  TxQueueSize,   \* MESH_TX_QUEUE_SIZE
  RepeatCounts,  \* the repeat counts frames are broadcast with
  MaxFrames      \* bound on the frames made and received (TLC only)

ASSUME TxQueueAssumption == TxQueueSize \in Nat \ {0}
ASSUME RepeatAssumption == RepeatCounts \subseteq Nat

VARIABLES
  frames,      \* history: how many frames were made or received
  queue,       \* tx_queue, oldest first
  pumpQueued,  \* tx_pump_work is submitted
  wq,          \* "free", or waiting inside "pump" or "stop"
  onAir,       \* is_broadcasting
  stopDue,     \* stop_adv_work is scheduled
  scanning,    \* the scanner runs
  repeatBuf,   \* repeat_buf
  repeatLeft,  \* repeat_remaining
  repeatDue,   \* repeat_work is scheduled
  relayBuf,    \* relay_buf_pending
  relayDue     \* relay_work is scheduled

pumpVars == <<queue, pumpQueued, wq, onAir, stopDue, scanning>>
repeatVars == <<repeatBuf, repeatLeft, repeatDue>>
relayVars == <<relayBuf, relayDue>>
txVars == <<frames, pumpVars, repeatVars, relayVars>>

TxTypeOK ==
  /\ frames \in Nat
  /\ queue \in Seq(Nat) /\ Len(queue) <= TxQueueSize
  /\ pumpQueued \in BOOLEAN
  /\ wq \in {"free", "pump", "stop"}
  /\ onAir \in BOOLEAN
  /\ stopDue \in BOOLEAN
  /\ scanning \in BOOLEAN
  /\ repeatBuf \in Nat
  /\ repeatLeft \in Nat
  /\ repeatDue \in BOOLEAN
  /\ relayBuf \in Nat
  /\ relayDue \in BOOLEAN

\* mesh_init, and the scanner started by bt_ready.
TxInit ==
  /\ frames = 0
  /\ queue = <<>>
  /\ pumpQueued = FALSE
  /\ wq = "free"
  /\ onAir = FALSE
  /\ stopDue = FALSE
  /\ scanning = TRUE
  /\ repeatBuf = 0
  /\ repeatLeft = 0
  /\ repeatDue = FALSE
  /\ relayBuf = 0
  /\ relayDue = FALSE

-----------------------------------------------------------------------------
(* Frames to send.                                                         *)

\* Mutant: one frame more than the queue has slots.
DoCodedBroadcastOver(frame) ==
  /\ queue' = IF Len(queue) <= TxQueueSize THEN Append(queue, frame) ELSE queue
  /\ pumpQueued' = (pumpQueued \/ (Len(queue) <= TxQueueSize /\ ~onAir))

\* do_coded_broadcast: a frame that finds the queue full is dropped; the
\* pump is submitted unless the end of a broadcast will do it.
DoCodedBroadcast(frame) ==
  /\ queue' = IF Len(queue) < TxQueueSize THEN Append(queue, frame) ELSE queue
  /\ pumpQueued' = (pumpQueued \/ (Len(queue) < TxQueueSize /\ ~onAir))

\* A frame of this emitter, from any thread.  A second repeated frame takes
\* the buffer and the remaining repeats of the first.
BroadcastWithRepeat(count) ==
  /\ frames < MaxFrames
  /\ frames' = frames + 1
  /\ DoCodedBroadcast(frames')
  /\ IF count > 1
     THEN repeatBuf' = frames' /\ repeatLeft' = count - 1 /\ repeatDue' = TRUE
     ELSE UNCHANGED repeatVars
  /\ UNCHANGED <<wq, onAir, stopDue, scanning, relayVars>>

RepeatWork ==
  /\ repeatDue /\ wq = "free"
  /\ IF repeatLeft > 0
     THEN DoCodedBroadcast(repeatBuf) /\ repeatLeft' = repeatLeft - 1
     ELSE UNCHANGED <<queue, pumpQueued, repeatLeft>>
  /\ repeatDue' = (repeatLeft > 1)
  /\ UNCHANGED <<frames, wq, onAir, stopDue, scanning, repeatBuf, relayVars>>

\* relay_message: the frame waits out a random delay in the one relay
\* buffer, and the delay of the frame that was there starts again.
RelayMessage ==
  /\ frames < MaxFrames
  /\ frames' = frames + 1
  /\ relayBuf' = frames'
  /\ relayDue' = TRUE
  /\ UNCHANGED <<pumpVars, repeatVars>>

RelayWork ==
  /\ relayDue /\ wq = "free"
  /\ DoCodedBroadcast(relayBuf)
  /\ relayDue' = FALSE
  /\ UNCHANGED <<frames, wq, onAir, stopDue, scanning, repeatVars, relayBuf>>

-----------------------------------------------------------------------------
(* The pump.                                                               *)

\* mesh_start_scanner: starting a running scanner is no error.
StartScanner == scanning' = TRUE

\* Mutant: is_broadcasting is not looked at.
PumpBeginsAnyway ==
  /\ pumpQueued /\ wq = "free"
  /\ pumpQueued' = FALSE
  /\ \/ /\ queue = <<>>
        /\ StartScanner
        /\ UNCHANGED <<queue, wq>>
     \/ /\ queue # <<>>
        /\ queue' = Tail(queue)
        /\ scanning' = FALSE
        /\ wq' = "pump"
  /\ UNCHANGED <<frames, onAir, stopDue, repeatVars, relayVars>>

\* tx_pump_handler up to its first wait: nothing while a broadcast is on the
\* air, the scanner back on when nothing is left, or else the next frame.
PumpBegins ==
  /\ pumpQueued /\ wq = "free"
  /\ pumpQueued' = FALSE
  /\ \/ /\ onAir
        /\ UNCHANGED <<queue, wq, scanning>>
     \/ /\ ~onAir /\ queue = <<>>
        /\ StartScanner
        /\ UNCHANGED <<queue, wq>>
     \/ /\ ~onAir /\ queue # <<>>
        /\ queue' = Tail(queue)
        /\ scanning' = FALSE
        /\ wq' = "pump"
  /\ UNCHANGED <<frames, onAir, stopDue, repeatVars, relayVars>>

PumpStartsBroadcast ==
  /\ wq = "pump"
  /\ onAir' = TRUE
  /\ stopDue' = TRUE
  /\ wq' = "free"
  /\ UNCHANGED <<frames, queue, pumpQueued, scanning, repeatVars, relayVars>>

\* The controller refused the data or the start: the frame is lost and the
\* pump tries the next one.
PumpFails ==
  /\ wq = "pump"
  /\ StartScanner
  /\ pumpQueued' = TRUE
  /\ wq' = "free"
  /\ UNCHANGED <<frames, queue, onAir, stopDue, repeatVars, relayVars>>

Pump == PumpBegins \/ PumpStartsBroadcast \/ PumpFails

\* stop_adv_handler waits for the controller, then clears is_broadcasting.
StopBegins ==
  /\ stopDue /\ wq = "free"
  /\ stopDue' = FALSE
  /\ wq' = "stop"
  /\ UNCHANGED <<frames, queue, pumpQueued, onAir, scanning, repeatVars, relayVars>>

\* Mutant: the pump is left to the next do_coded_broadcast.
StopEndsQuietly ==
  /\ wq = "stop"
  /\ onAir' = FALSE
  /\ wq' = "free"
  /\ UNCHANGED <<frames, queue, pumpQueued, stopDue, scanning, repeatVars, relayVars>>

\* Mutant: is_broadcasting is not cleared.
StopEndsBusy ==
  /\ wq = "stop"
  /\ pumpQueued' = TRUE
  /\ wq' = "free"
  /\ UNCHANGED <<frames, queue, onAir, stopDue, scanning, repeatVars, relayVars>>

StopEnds ==
  /\ wq = "stop"
  /\ onAir' = FALSE
  /\ pumpQueued' = TRUE
  /\ wq' = "free"
  /\ UNCHANGED <<frames, queue, stopDue, scanning, repeatVars, relayVars>>

StopAdv == StopBegins \/ StopEnds

-----------------------------------------------------------------------------
TxNext ==
  \/ \E count \in RepeatCounts : BroadcastWithRepeat(count)
  \/ RepeatWork
  \/ RelayMessage
  \/ RelayWork
  \/ Pump
  \/ StopAdv

\* The work queue runs what is submitted or due.
TxFairness == WF_txVars(Pump) /\ WF_txVars(StopAdv)

TxSpec == TxInit /\ [][TxNext]_txVars /\ TxFairness
-----------------------------------------------------------------------------
(* Properties.                                                             *)

\* A broadcast on the air will be ended by stop_adv_work.
Ending == stopDue \/ wq = "stop"

\* The pump will look at the queue again.
PumpComing == pumpQueued \/ wq = "pump" \/ Ending

\* A queued frame is never forgotten: although do_coded_broadcast leaves the
\* pump alone while a broadcast is on the air, and frames arrive between any
\* two waits of the handlers, some work item that will pump is on its way.
NoLostWakeup == queue # <<>> => PumpComing

\* mesh.c:25: "Without queueing, overlapping broadcasts fail with -EBUSY and
\* are lost"; with it the pump never starts one while another is on the air,
\* and one that is on the air always ends.
OneOnAir == onAir => Ending /\ wq # "pump"

\* Every frame leaves the queue: no sequence of arrivals and refusals of the
\* controller stalls the pump.
EveryFrameLeaves ==
  \A f \in 1 .. MaxFrames :
    (\E i \in DOMAIN queue : queue[i] = f) ~> (\A i \in DOMAIN queue : queue[i] # f)
=============================================================================
