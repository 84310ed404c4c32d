------------------------------ MODULE IrFrame ------------------------------
(***************************************************************************)
(* The infrared link, common/src/ir_protocol.c: how an emitter puts a hit  *)
(* or its pairing identity on the carrier, what the edge interrupt of a    *)
(* vest makes of the pulses and what its main loop reports.                *)
(*                                                                         *)
(* Times are in tenths of a millisecond.  One step is one pulse with the   *)
(* space after it; the main loop of the vest looks at what was received    *)
(* whenever it gets to it.  A fault moves, hides or adds one pulse, or     *)
(* leaves the receiver no time between two bursts.                         *)
(***************************************************************************)
EXTENDS Naturals, Sequences

CONSTANTS
  Packets,      \* what emitters send: a kind and three bytes
  Shifts,       \* by how much the end of a pulse may be late
  Early,        \* by how much it may be early
  Pauses,       \* how long an emitter may be silent, up to Polled
  MaxSent,      \* bound on the bursts sent (TLC only)
  MaxFaults     \* bound on the faults (TLC only)

Byte == 0 .. 255
Bit == 0 .. 1
HitLen == 4            \* IR_HIT_PACKET_LEN
PairingLen == 5        \* IR_PAIRING_PACKET_LEN
Preamble == 254        \* IR_PAIRING_PREAMBLE
BufMax == PairingLen   \* IR_RX_BUF_MAX

ASSUME PacketAssumption ==
  Packets \subseteq [kind : {"hit", "pairing"}, data : [1 .. 3 -> Byte]]
ASSUME TimeAssumption ==
  Shifts \subseteq 1 .. 9 /\ Early \subseteq 1 .. 9 /\ Pauses \subseteq Nat
ASSUME BoundAssumption == MaxSent \in Nat /\ MaxFaults \in Nat

VARIABLES
  pos,      \* sender: the pulse that is next, 0 when it is silent
  gap,      \* receiver: time since the last falling edge
  state,    \* rx_state
  bits,     \* rx_bytes and bit_count
  sent,     \* history: the packets sent; a held trigger sends one
  reports,  \* history: the packets the callbacks were given as valid
  clean,    \* history: the last packet came out of silence and unharmed
  faults    \* history: pulses harmed and bursts begun too soon

receiver == <<state, bits>>
irVars == <<pos, gap, receiver, sent, reports, clean, faults>>

IrTypeOK ==
  /\ pos \in 0 .. 8 * PairingLen + 1
  /\ gap \in Nat
  /\ state \in {"IDLE", "MARK", "SPACE"}
  /\ bits \in Seq(Bit) /\ Len(bits) <= 8 * BufMax
  /\ sent \in Seq(Packets)
  /\ reports \in Seq([kind : {"hit", "pairing"}, data : Seq(Byte)])
  /\ clean \in BOOLEAN
  /\ faults \in 0 .. MaxFaults

-----------------------------------------------------------------------------
(* Frames.                                                                 *)

\* Bit j of a byte, counted from 1, and the byte that has given bits.
Weight == <<1, 2, 4, 8, 16, 32, 64, 128>>
BitOf(byte, j) == (byte \div Weight[j]) % 2
ByteOf(b) == b[1] + 2 * b[2] + 4 * b[3] + 8 * b[4]
               + 16 * b[5] + 32 * b[6] + 64 * b[7] + 128 * b[8]

Xor(a, b) == ByteOf([j \in 1 .. 8 |-> (BitOf(a, j) + BitOf(b, j)) % 2])

\* crc8_calc, of the three bytes before the checksum of a hit or the four
\* before that of a pairing frame.
CrcShift == [crc \in Byte |-> IF crc >= 128 THEN Xor((2 * crc) % 256, 7) ELSE 2 * crc]
CrcShift2 == [crc \in Byte |-> CrcShift[CrcShift[crc]]]
CrcByte(crc, byte) == CrcShift2[CrcShift2[CrcShift2[CrcShift2[Xor(crc, byte)]]]]

Crc8(data) ==
  LET crc3 == CrcByte(CrcByte(CrcByte(0, data[1]), data[2]), data[3])
  IN  IF Len(data) = 3 THEN crc3 ELSE CrcByte(crc3, data[4])

\* The buffers of ir_tx_send and ir_tx_send_pairing.
FrameOf(packet) ==
  LET body == IF packet.kind = "hit" THEN packet.data ELSE <<Preamble>> \o packet.data
  IN  Append(body, Crc8(body))

\* tx_raw sends each byte from its low bit.
BitsOf(bytes) ==
  [i \in 1 .. 8 * Len(bytes) |-> BitOf(bytes[((i - 1) \div 8) + 1], ((i - 1) % 8) + 1)]

Wire == [packet \in Packets |-> BitsOf(FrameOf(packet))]

\* The bytes rx_store_bit has put together.
BytesOf(bs) ==
  [k \in 1 .. Len(bs) \div 8 |-> ByteOf([j \in 1 .. 8 |-> bs[8 * (k - 1) + j]])]

-----------------------------------------------------------------------------
(* The edge interrupt, ir_triggered.                                       *)

\* Mutant: one bit more than the buffer has.
StoreBitOver(bs, value) ==
  IF Len(bs) > 8 * BufMax THEN bs ELSE Append(bs, value)

\* rx_store_bit: bits that find the buffer full are dropped.
StoreBit(bs, value) ==
  IF Len(bs) >= 8 * BufMax THEN bs ELSE Append(bs, value)

\* Mutant: a new frame goes on with the bits of the one before.
RiseStale(rx, delta) ==
  IF rx.state = "SPACE" /\ delta \in 5 .. 49
  THEN [state |-> "MARK", bits |-> StoreBit(rx.bits, IF delta >= 22 THEN 1 ELSE 0)]
  ELSE [rx EXCEPT !.state = IF rx.state = "SPACE" THEN "IDLE" ELSE "MARK"]

\* A rising edge, delta after the edge before.
Rise(rx, delta) ==
  CASE rx.state = "IDLE" -> [state |-> "MARK", bits |-> <<>>]
    [] rx.state = "SPACE" /\ delta \in 5 .. 21 ->
         [state |-> "MARK", bits |-> StoreBit(rx.bits, 0)]
    [] rx.state = "SPACE" /\ delta \in 22 .. 49 ->
         [state |-> "MARK", bits |-> StoreBit(rx.bits, 1)]
    [] rx.state = "SPACE" /\ delta \notin 5 .. 49 -> [rx EXCEPT !.state = "IDLE"]
    [] OTHER -> rx

\* A falling edge, delta after the edge before.
Fall(rx, delta) ==
  IF rx.state = "MARK"
  THEN [rx EXCEPT !.state = IF delta \in 5 .. 24 THEN "SPACE" ELSE "IDLE"]
  ELSE rx

\* The receiver sees a pulse of a width after a space.
Pulse(rx, space, width) == Fall(Rise(rx, space), width)

Now == [state |-> state, bits |-> bits]
Sees(rx) == state' = rx.state /\ bits' = rx.bits

-----------------------------------------------------------------------------
(* The sender, tx_raw.                                                     *)

MarkTime == 10
SpaceTime(value) == IF value = 1 THEN 30 ELSE 10

LastSent == sent[Len(sent)]
Frame == Wire[LastSent]
AtStop == pos = Len(Frame) + 1

\* The main loop polls every 10 ms: after 20 ms of silence it has polled.
Polled == 201
Passes(time) == gap' = time /\ (time >= Polled => state # "SPACE")

IrInit ==
  /\ pos = 0 /\ gap = Polled
  /\ state = "IDLE" /\ bits = <<>>
  /\ sent = <<>> /\ reports = <<>>
  /\ clean = FALSE /\ faults = 0

\* ir_tx_work_handler or pairing_tx_work_handler starts a burst.  One that
\* comes too soon after the last for the vest to have polled is a disturbance
\* of its own.
Begin(packet) ==
  /\ pos = 0 /\ Len(sent) < MaxSent
  /\ sent' = Append(sent, packet)
  /\ pos' = 1
  /\ clean' = (gap >= Polled)
  /\ \/ gap >= Polled /\ UNCHANGED faults
     \/ gap < Polled /\ faults < MaxFaults /\ faults' = faults + 1
  /\ UNCHANGED <<gap, receiver, reports>>

\* The pulse is over and its space begins, late by some time.
Advance(late) ==
  IF AtStop THEN pos' = 0 /\ gap' = 0
            ELSE pos' = pos + 1 /\ gap' = SpaceTime(Frame[pos]) - late

SendPulse ==
  /\ pos > 0
  /\ Sees(Pulse(Now, gap, MarkTime))
  /\ Advance(0)
  /\ UNCHANGED <<sent, reports, clean, faults>>

\* The queue has more to send: the first pulse of the next frame joins the
\* trailing one of this frame, which the receiver sees as one pulse.  With
\* the trigger held, pairing_tx_work_handler sends the same frame again.
Chain(packet) ==
  /\ pos > 0 /\ AtStop
  /\ LET held == packet.kind = "pairing" /\ packet = LastSent IN
     /\ held \/ Len(sent) < MaxSent
     /\ sent' = IF held THEN sent ELSE Append(sent, packet)
     /\ clean' = (clean /\ held)
  /\ Sees(Pulse(Now, gap, 2 * MarkTime))
  /\ pos' = 2 /\ gap' = SpaceTime(Wire[packet][1])
  /\ UNCHANGED <<reports, faults>>

Harmed ==
  /\ faults < MaxFaults
  /\ faults' = faults + 1
  /\ clean' = FALSE
  /\ UNCHANGED <<sent, reports>>

\* A pulse ends late, at the cost of its space.
LatePulse ==
  /\ pos > 0
  /\ \E late \in Shifts :
       Sees(Pulse(Now, gap, MarkTime + late)) /\ Advance(late)
  /\ Harmed

\* A pulse ends early, and its space is longer.
EarlyPulse ==
  /\ pos > 0
  /\ \E early \in Early :
       /\ Sees(Pulse(Now, gap, MarkTime - early))
       /\ IF AtStop THEN pos' = 0 /\ gap' = 0
                    ELSE pos' = pos + 1 /\ gap' = SpaceTime(Frame[pos]) + early
  /\ Harmed

\* A pulse is not seen, and the spaces around it are one.
LostPulse ==
  /\ pos > 0
  /\ IF AtStop THEN pos' = 0 /\ UNCHANGED gap
               ELSE pos' = pos + 1 /\ Passes(gap + MarkTime + SpaceTime(Frame[pos]))
  /\ UNCHANGED receiver
  /\ Harmed

\* A pulse of something else, in the space of a 1 or while all is silent.
Noise ==
  /\ gap >= SpaceTime(1)
  /\ Sees(Pulse(Now, IF pos = 0 THEN gap ELSE gap - 2 * MarkTime, MarkTime))
  /\ gap' = IF pos = 0 THEN 0 ELSE MarkTime
  /\ UNCHANGED pos
  /\ Harmed

\* The emitter is silent for a while.
Quiet ==
  /\ pos = 0
  /\ \E pause \in Pauses : pause >= gap /\ Passes(pause)
  /\ UNCHANGED <<pos, receiver, sent, reports, clean, faults>>

-----------------------------------------------------------------------------
(* The main loop, ir_rx_loop.                                              *)

\* The silence that ends a frame is longer than this.
EndOfFrame == 100

\* Mutant: the checksum of a hit is not looked at.
ReportedUnchecked(bs) ==
  LET buf == BytesOf(bs) IN
  IF Len(bs) = 8 * HitLen
  THEN <<[kind |-> "hit", data |-> SubSeq(buf, 1, 3)]>> ELSE <<>>

\* What is reported of a frame: at most one packet.
Reported(bs) ==
  LET buf == BytesOf(bs) IN
  CASE Len(bs) = 8 * HitLen /\ buf[4] = Crc8(SubSeq(buf, 1, 3)) ->
         <<[kind |-> "hit", data |-> SubSeq(buf, 1, 3)]>>
    [] Len(bs) = 8 * PairingLen /\ buf[1] = Preamble /\ buf[5] = Crc8(SubSeq(buf, 1, 4)) ->
         <<[kind |-> "pairing", data |-> SubSeq(buf, 2, 4)]>>
    [] OTHER -> <<>>

Poll ==
  /\ state = "SPACE" /\ gap > EndOfFrame
  /\ reports' = reports \o Reported(bits)
  /\ state' = "IDLE" /\ bits' = <<>>
  /\ UNCHANGED <<pos, gap, sent, clean, faults>>

-----------------------------------------------------------------------------
IrNext ==
  \/ \E packet \in Packets : Begin(packet) \/ Chain(packet)
  \/ SendPulse \/ LatePulse \/ EarlyPulse \/ LostPulse
  \/ Noise \/ Quiet
  \/ Poll

IrSpec == IrInit /\ [][IrNext]_irVars
-----------------------------------------------------------------------------
(* Properties.                                                             *)

\* Whatever harms one pulse and whatever of a frame is left over from the one
\* before, the vest is never told of a hit or a pairing nobody sent, of one
\* twice or of two in the wrong order: a pairing frame that has lost its first
\* byte is as long as a hit.
HeardInOrder ==
  \E burst \in [DOMAIN reports -> DOMAIN sent] :
    /\ \A i \in DOMAIN reports : reports[i] = sent[burst[i]]
    /\ \A i, j \in DOMAIN reports : i < j => burst[i] < burst[j]

\* The receiver always recovers: whatever came before, a packet that begins in
\* silence and is not harmed is reported, and nothing after it, also when a
\* held trigger repeats it without a pause.
NextFrameHeard ==
  clean /\ pos = 0 /\ gap >= Polled =>
    reports # <<>> /\ reports[Len(reports)] = LastSent

\* emitter main.c:399, of a trigger that is still held: "The vest has already
\* extracted the pairing identity (our MAC LSBs) from the IR frame it received
\* before connecting"; "The user is free to keep holding the trigger".  So the
\* frame it has received whole is reported while the next is on the air, whose
\* last bit comes long after the next poll.
HeardWhileHeld ==
  clean /\ pos = Len(Frame) /\ Len(bits) = 8 * BufMax =>
    reports # <<>> /\ reports[Len(reports)] = LastSent
=============================================================================
