------------------------------ MODULE BleLink ------------------------------
(***************************************************************************)
(* The BLE connection between one emitter and its vest, as the two         *)
(* programs use it: unacknowledged writes one way (vest_write in           *)
(* emitter/src/ble_vest.c), notifications the other (vest_ble_notify_hit   *)
(* in reciever/src/vest_ble.c).  BLE keeps the order and loses nothing     *)
(* while the link lives; a message is lost when no buffer is free (both    *)
(* programs ignore the error) and when the link ends with it in flight.    *)
(***************************************************************************)
EXTENDS Naturals, Sequences

CONSTANTS
  LinkCap,     \* buffers in each direction
  Players,     \* the player ids that appear in messages
  PacketIds    \* the values of the 16-bit packet id of a hit

ASSUME LinkCapAssumption == LinkCap \in Nat

\* struct vest_hit_payload; serial is a history field, the number of the hit
\* the vest registered, which no program reads.
Hits == [id : PacketIds, shooter : Players, serial : Nat]

VestCommands ==
       [cmd : {"HIT_ACK"}, id : PacketIds]
  \cup [cmd : {"FRIENDLY_LIST"}, ids : SUBSET Players]
  \cup [cmd : {"FRIENDLY_FIRE"}, on : BOOLEAN]
  \cup [cmd : {"DEATH", "RESPAWN", "UNPAIR"}]

VARIABLES
  link,        \* "down", "up" (no GATT discovery yet), "ready", "closing"
  toVest,      \* writes in flight
  toEmitter    \* notifications in flight

linkVars == <<link, toVest, toEmitter>>

LinkTypeOK ==
  /\ link \in {"down", "up", "ready", "closing"}
  /\ toVest \in Seq(VestCommands)
  /\ toEmitter \in Seq(Hits)
  /\ Len(toVest) <= LinkCap /\ Len(toEmitter) <= LinkCap

LinkInit == link = "down" /\ toVest = <<>> /\ toEmitter = <<>>

\* What is queued after msgs are written: those no buffer is free for are lost.
Queued(queue, msgs) ==
  LET all == queue \o msgs
  IN  SubSeq(all, 1, IF Len(all) <= LinkCap THEN Len(all) ELSE LinkCap)

\* Writes fail before GATT discovery has found the command handle, and once
\* the emitter has asked for the link to end.
SendToVest(msgs) ==
  toVest' = IF link = "ready" THEN Queued(toVest, msgs) ELSE toVest

\* bt_gatt_notify sends to a peer that has subscribed.
SendToEmitter(msgs) ==
  toEmitter' = IF link \in {"ready", "closing"} THEN Queued(toEmitter, msgs) ELSE toEmitter

\* The link ends.  What the other side's host had already received is still
\* delivered, before its disconnected callback; the rest is lost.
LinkDrop ==
  /\ link # "down"
  /\ link' = "down"
  /\ \E n \in 0 .. Len(toVest) : toVest' = SubSeq(toVest, 1, n)
  /\ \E n \in 0 .. Len(toEmitter) : toEmitter' = SubSeq(toEmitter, 1, n)
=============================================================================
