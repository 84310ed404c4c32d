--------------------------- MODULE IrFrameProofs ---------------------------
(* Proofs about IrFrame, for any packets, disturbances and silences.       *)
EXTENDS IrFrame, SequenceTheorems, TLAPS

-----------------------------------------------------------------------------
(* The inductive invariant.                                                *)

\* The receiver is between two edges of a frame or waits for the first one;
\* silence that is long enough for a poll has ended the frame.
Listening ==
  /\ state \in {"IDLE", "SPACE"}
  /\ gap >= Polled => state = "IDLE"

\* The sender is somewhere in the frame of the last packet it has begun.
Sending == pos > 0 => sent # <<>> /\ pos <= Len(Frame) + 1

\* The receiver has the whole frame of the last packet.
HasFrame == bits = Frame

\* An unharmed packet that began in silence: the receiver has the bits whose
\* spaces have ended, then the frame, then has reported it.  It also has the
\* whole frame while a held pairing trigger repeats it: its buffer is full.
HearsClean ==
  clean =>
    /\ sent # <<>>
    /\ pos = 1 => state = "IDLE"
    /\ pos > 1 => /\ state = "SPACE" /\ gap = SpaceTime(Frame[pos - 1])
                  /\ \/ bits = SubSeq(Frame, 1, pos - 2)
                     \/ HasFrame /\ Len(Frame) = 8 * BufMax
    /\ pos = 0 => \/ state = "SPACE" /\ HasFrame
                  \/ state = "IDLE" /\ reports # <<>> /\ reports[Len(reports)] = LastSent

HearingInv == Listening /\ Sending /\ HearsClean

\* Nothing disturbs the link, and no player who shoots has the number that
\* begins a pairing frame: the first byte of a hit is its player.
Undisturbed ==
  /\ MaxFaults = 0
  /\ \A packet \in Packets : packet.kind = "hit" => packet.data[1] # Preamble

\* Every report is of one of the first n bursts, of each once and in order.
HeardUpTo(n) ==
  \E burst \in [DOMAIN reports -> 1 .. n] :
    /\ \A i \in DOMAIN reports : reports[i] = sent[burst[i]]
    /\ \A i, j \in DOMAIN reports : i < j => burst[i] < burst[j]

\* The receiver's buffer when other frames have joined that of packet: a pairing
\* frame has filled it, a hit has more in it than its own bits, or will have
\* with the next pulse.
Overrun(packet) ==
  \/ packet.kind = "pairing" /\ bits = Wire[packet]
  \/ /\ packet.kind = "hit"
     /\ Len(bits) >= 8 * HitLen
     /\ Len(bits) = 8 * HitLen => pos = 2
     /\ \A j \in 1 .. 8 : bits[j] = Wire[packet][j]

\* A frame of which nothing has been reported yet, with others joined to it.
Joined ==
  /\ state = "SPACE"
  /\ pos = 0 \/ (pos > 1 /\ gap \in {SpaceTime(0), SpaceTime(1)})
  /\ \E first \in 1 .. Len(sent) : HeardUpTo(first - 1) /\ Overrun(sent[first])

\* What has been heard while a frame is on its way, and while there is none.
InOrderInv ==
  IF pos = 0 /\ state = "IDLE"
  THEN HeardUpTo(Len(sent))
  ELSE IF clean THEN HeardUpTo(Len(sent) - 1) ELSE Joined

-----------------------------------------------------------------------------
(* Bits and bytes.                                                         *)

LEMMA BitTyped == ASSUME NEW b \in Byte, NEW j \in 1 .. 8 PROVE BitOf(b, j) \in Bit
<1>1. Weight[j] \in Nat \ {0}
  BY DEF Weight
<1>2. b \div Weight[j] \in Nat
  BY <1>1 DEF Byte
<1> QED BY <1>2 DEF BitOf, Bit

LEMMA ByteTyped ==
  ASSUME NEW b, \A j \in 1 .. 8 : b[j] \in Bit
  PROVE  ByteOf(b) \in Byte
<1>1. /\ b[1] \in Bit /\ b[2] \in Bit /\ b[3] \in Bit /\ b[4] \in Bit
      /\ b[5] \in Bit /\ b[6] \in Bit /\ b[7] \in Bit /\ b[8] \in Bit
  OBVIOUS
<1> QED BY <1>1 DEF ByteOf, Byte, Bit

\* The bits of a byte, put together again, are the byte.
LEMMA ByteOfBits ==
  ASSUME NEW b \in Byte PROVE ByteOf([j \in 1 .. 8 |-> BitOf(b, j)]) = b
<1> DEFINE v == [j \in 1 .. 8 |-> BitOf(b, j)]
<1>1. /\ v[1] = b % 2 /\ v[2] = (b \div 2) % 2
      /\ v[3] = (b \div 4) % 2 /\ v[4] = (b \div 8) % 2
      /\ v[5] = (b \div 16) % 2 /\ v[6] = (b \div 32) % 2
      /\ v[7] = (b \div 64) % 2 /\ v[8] = (b \div 128) % 2
  <2>1. /\ Weight[1] = 1 /\ Weight[2] = 2 /\ Weight[3] = 4 /\ Weight[4] = 8
        /\ Weight[5] = 16 /\ Weight[6] = 32 /\ Weight[7] = 64 /\ Weight[8] = 128
    BY DEF Weight
  <2>2. b \div 1 = b
    BY DEF Byte
  <2>3. \A j \in 1 .. 8 : v[j] = (b \div Weight[j]) % 2
    BY DEF BitOf
  <2> QED BY <2>1, <2>2, <2>3
<1>2. b = (b % 2) + 2 * ((b \div 2) % 2) + 4 * ((b \div 4) % 2) + 8 * ((b \div 8) % 2)
            + 16 * ((b \div 16) % 2) + 32 * ((b \div 32) % 2)
            + 64 * ((b \div 64) % 2) + 128 * ((b \div 128) % 2)
  BY DEF Byte
<1> QED BY <1>1, <1>2 DEF ByteOf

LEMMA XorTyped == ASSUME NEW a \in Byte, NEW b \in Byte PROVE Xor(a, b) \in Byte
<1> DEFINE v == [j \in 1 .. 8 |-> (BitOf(a, j) + BitOf(b, j)) % 2]
<1>1. ASSUME NEW j \in 1 .. 8 PROVE v[j] \in Bit
  <2>1. BitOf(a, j) \in Nat /\ BitOf(b, j) \in Nat
    BY BitTyped DEF Bit
  <2> QED BY <2>1 DEF Bit
<1> HIDE DEF v
<1>2. ByteOf(v) \in Byte
  BY <1>1, ByteTyped
<1> QED BY <1>2 DEF Xor, v

LEMMA CrcByteTyped ==
  ASSUME NEW crc \in Byte, NEW byte \in Byte PROVE CrcByte(crc, byte) \in Byte
<1>1. ASSUME NEW c \in Byte PROVE CrcShift[c] \in Byte
  <2>1. 7 \in Byte /\ (2 * c) % 256 \in Byte
    BY DEF Byte
  <2>2. Xor((2 * c) % 256, 7) \in Byte
    BY ONLY <2>1, XorTyped
  <2>3. c < 128 => 2 * c \in Byte
    BY DEF Byte
  <2>4. c >= 128 \/ c < 128
    BY DEF Byte
  <2> QED BY <2>2, <2>3, <2>4 DEF CrcShift
<1>2. ASSUME NEW c \in Byte PROVE CrcShift2[c] \in Byte
  BY <1>1 DEF CrcShift2
<1> QED BY <1>2, XorTyped DEF CrcByte

LEMMA CrcTyped ==
  ASSUME NEW data \in Seq(Byte), Len(data) \in 3 .. 4
  PROVE  Crc8(data) \in Byte
<1>1. 0 \in Byte
  BY DEF Byte
<1>2. /\ data[1] \in Byte /\ data[2] \in Byte /\ data[3] \in Byte
      /\ Len(data) # 3 => data[4] \in Byte
  BY ElementOfSeq
<1> DEFINE crc3 == CrcByte(CrcByte(CrcByte(0, data[1]), data[2]), data[3])
<1>3. crc3 \in Byte
  BY <1>1, CrcByteTyped
<1> QED BY <1>2, <1>3, CrcByteTyped DEF Crc8

-----------------------------------------------------------------------------
(* Frames.                                                                 *)

LEMMA ThreeBytes ==
  ASSUME NEW data \in [1 .. 3 -> Byte] PROVE data \in Seq(Byte) /\ Len(data) = 3
<1>1. data \in Seq(Byte)
  BY SeqDef
<1> QED BY <1>1, LenProperties

LEMMA Prefixed ==
  ASSUME NEW b \in Byte, NEW d \in Seq(Byte), Len(d) = 3
  PROVE  /\ <<b>> \o d \in Seq(Byte) /\ Len(<<b>> \o d) = 4
         /\ (<<b>> \o d)[1] = b /\ SubSeq(<<b>> \o d, 2, 4) = d
<1>1. <<b>> \in Seq(Byte) /\ Len(<<b>>) = 1 /\ <<b>>[1] = b
  OBVIOUS
<1>2. /\ <<b>> \o d \in Seq(Byte)
      /\ Len(<<b>> \o d) = Len(<<b>>) + Len(d)
      /\ \A i \in 1 .. Len(<<b>>) + Len(d) :
           (<<b>> \o d)[i] = IF i <= Len(<<b>>) THEN <<b>>[i] ELSE d[i - Len(<<b>>)]
  BY ONLY <1>1, d \in Seq(Byte), ConcatProperties
<1>3. SubSeq(<<b>> \o d, 2, 4) = SubSeq(d, 1, 3)
  <2> DEFINE p == <<b>>
  <2>1. p \in Seq(Byte) /\ Len(p) = 1
    BY <1>1
  <2> HIDE DEF p
  <2>2. 2 \in Len(p) + 1 .. Len(p) + Len(d) /\ 4 \in Len(p) + 1 .. Len(p) + Len(d)
    BY <2>1
  <2>3. SubSeq(p \o d, 2, 4) = SubSeq(d, 2 - Len(p), 4 - Len(p))
    BY ONLY <2>1, <2>2, d \in Seq(Byte), SubSeqOfConcat2
  <2>4. 2 - Len(p) = 1 /\ 4 - Len(p) = 3
    BY <2>1
  <2> QED BY <2>3, <2>4 DEF p
<1>4. SubSeq(d, 1, 3) = d
  BY SubSeqFull
<1> QED BY <1>1, <1>2, <1>3, <1>4

LEMMA FrameTyped ==
  ASSUME NEW packet \in Packets
  PROVE  /\ FrameOf(packet) \in Seq(Byte)
         /\ Len(FrameOf(packet)) = IF packet.kind = "hit" THEN HitLen ELSE PairingLen
<1> DEFINE body == IF packet.kind = "hit" THEN packet.data ELSE <<Preamble>> \o packet.data
<1>1. packet.kind \in {"hit", "pairing"} /\ packet.data \in [1 .. 3 -> Byte]
  BY PacketAssumption
<1>2. packet.data \in Seq(Byte) /\ Len(packet.data) = 3
  BY <1>1, ThreeBytes
<1>3. Preamble \in Byte
  BY DEF Preamble, Byte
<1>4. body \in Seq(Byte) /\ Len(body) = IF packet.kind = "hit" THEN 3 ELSE 4
  <2>1. /\ <<Preamble>> \o packet.data \in Seq(Byte)
        /\ Len(<<Preamble>> \o packet.data) = 4
    BY <1>2, <1>3, Prefixed
  <2>2. CASE packet.kind = "hit"
    BY <1>2, <2>2
  <2>3. CASE packet.kind # "hit"
    BY <2>1, <2>3
  <2> QED BY <2>2, <2>3
<1>5. FrameOf(packet) = Append(body, Crc8(body))
  BY DEF FrameOf
<1> HIDE DEF body
<1>6. Crc8(body) \in Byte
  BY <1>4, CrcTyped
<1> QED BY <1>1, <1>4, <1>5, <1>6, AppendProperties DEF HitLen, PairingLen

LEMMA DivMod ==
  ASSUME NEW q \in Nat, NEW r \in 0 .. 7, NEW n, n = 8 * q + r
  PROVE  n \div 8 = q /\ n % 8 = r
OBVIOUS

LEMMA BitPlace ==
  ASSUME NEW k \in Nat \ {0}, NEW j \in 1 .. 8
  PROVE  /\ ((8 * (k - 1) + j - 1) \div 8) + 1 = k
         /\ ((8 * (k - 1) + j - 1) % 8) + 1 = j
<1>1. k - 1 \in Nat /\ j - 1 \in 0 .. 7 /\ 8 * (k - 1) + j - 1 = 8 * (k - 1) + (j - 1)
  OBVIOUS
<1>2. (8 * (k - 1) + j - 1) \div 8 = k - 1 /\ (8 * (k - 1) + j - 1) % 8 = j - 1
  BY ONLY <1>1, DivMod
<1> QED BY <1>2

LEMMA BitsTyped ==
  ASSUME NEW bytes \in Seq(Byte)
  PROVE  BitsOf(bytes) \in Seq(Bit) /\ Len(BitsOf(bytes)) = 8 * Len(bytes)
<1>1. Len(bytes) \in Nat /\ bytes \in [1 .. Len(bytes) -> Byte] /\ 8 * Len(bytes) \in Nat
  BY LenProperties
<1>2. ASSUME NEW i \in 1 .. 8 * Len(bytes)
      PROVE  BitOf(bytes[((i - 1) \div 8) + 1], ((i - 1) % 8) + 1) \in Bit
  <2>1. ((i - 1) \div 8) + 1 \in 1 .. Len(bytes) /\ ((i - 1) % 8) + 1 \in 1 .. 8
    BY <1>1
  <2> QED BY <1>1, <2>1, BitTyped
<1>3. BitsOf(bytes) \in [1 .. 8 * Len(bytes) -> Bit]
  BY <1>2 DEF BitsOf
<1>4. BitsOf(bytes) \in Seq(Bit)
  BY <1>1, <1>3, SeqDef
<1> QED BY <1>1, <1>3, <1>4, LenProperties

\* The bytes rx_store_bit puts together from the bits tx_raw has sent.
LEMMA BytesOfBits ==
  ASSUME NEW bytes \in Seq(Byte)
  PROVE  BytesOf(BitsOf(bytes)) = bytes
<1> DEFINE bs == BitsOf(bytes)
           byteAt(k) == [j \in 1 .. 8 |-> bs[8 * (k - 1) + j]]
<1>1. Len(bytes) \in Nat /\ bytes = [k \in 1 .. Len(bytes) |-> bytes[k]]
  BY LenProperties
<1>2. Len(bs) \div 8 = Len(bytes)
  <2>1. Len(bs) = 8 * Len(bytes) + 0 /\ 0 \in 0 .. 7
    BY <1>1, BitsTyped
  <2> QED BY ONLY <1>1, <2>1, DivMod
<1>3. ASSUME NEW k \in 1 .. Len(bytes) PROVE ByteOf(byteAt(k)) = bytes[k]
  <2>1. ASSUME NEW j \in 1 .. 8 PROVE bs[8 * (k - 1) + j] = BitOf(bytes[k], j)
    <3> DEFINE i == 8 * (k - 1) + j
    <3>1. i \in 1 .. 8 * Len(bytes)
      BY <1>1
    <3>2. ((i - 1) \div 8) + 1 = k /\ ((i - 1) % 8) + 1 = j
      <4>1. k \in Nat \ {0}
        BY <1>1
      <4> QED BY ONLY <4>1, j \in 1 .. 8, BitPlace
    <3> QED BY <3>1, <3>2 DEF BitsOf
  <2>2. byteAt(k) = [j \in 1 .. 8 |-> BitOf(bytes[k], j)]
    BY <2>1
  <2>3. bytes[k] \in Byte
    OBVIOUS
  <2> HIDE DEF byteAt
  <2> QED BY <2>2, <2>3, ByteOfBits
<1> HIDE DEF bs
<1>4. BytesOf(bs) = [k \in 1 .. Len(bytes) |-> ByteOf(byteAt(k))]
  BY <1>2 DEF BytesOf
<1> HIDE DEF byteAt
<1> QED BY <1>1, <1>3, <1>4 DEF bs

\* What is on the wire for a packet: 32 bits for a hit, 40 for a pairing.
LEMMA WireTyped ==
  ASSUME NEW packet \in Packets
  PROVE  /\ Wire[packet] \in Seq(Bit)
         /\ packet.kind = "hit" => Len(Wire[packet]) = 8 * HitLen
         /\ packet.kind = "pairing" => Len(Wire[packet]) = 8 * PairingLen
<1>1. Wire[packet] = BitsOf(FrameOf(packet))
  BY DEF Wire
<1> QED BY <1>1, FrameTyped, BitsTyped

LEMMA Appended ==
  ASSUME NEW s \in Seq(Byte), NEW c \in Byte, Len(s) > 0
  PROVE  /\ Append(s, c)[Len(s) + 1] = c
         /\ SubSeq(Append(s, c), 1, Len(s)) = s
         /\ Len(Append(s, c)) = Len(s) + 1
         /\ Append(s, c)[1] = s[1]
         /\ Len(s) >= 2 => SubSeq(Append(s, c), 2, Len(s)) = SubSeq(s, 2, Len(s))
<1>1. Len(s) \in Nat /\ <<c>> \in Seq(Byte) /\ Len(<<c>>) = 1
  BY LenProperties
<1>2. Append(s, c) = s \o <<c>>
  BY AppendIsConcat
<1>3. SubSeq(Append(s, c), 1, Len(s)) = s
  BY <1>1, <1>2, SubSeqOfConcat1, SubSeqFull
<1>4. Len(s) >= 2 => SubSeq(Append(s, c), 2, Len(s)) = SubSeq(s, 2, Len(s))
  BY <1>1, <1>2, SubSeqOfConcat1
<1> QED BY <1>1, <1>3, <1>4, AppendProperties

\* Encoding and decoding agree: the bits of a packet, received whole, are
\* reported as that packet, for every player, weapon, team and address.
LEMMA RoundTrip ==
  ASSUME NEW packet \in Packets
  PROVE  Reported(Wire[packet]) = <<packet>>
<1> DEFINE f == FrameOf(packet)
           bs == Wire[packet]
<1>1. BytesOf(bs) = f /\ Len(bs) = 8 * Len(f) /\ f \in Seq(Byte)
  BY FrameTyped, BytesOfBits, BitsTyped DEF Wire
<1>2. /\ packet = [kind |-> packet.kind, data |-> packet.data]
      /\ packet.kind \in {"hit", "pairing"} /\ packet.data \in [1 .. 3 -> Byte]
  BY PacketAssumption
<1>3. packet.data \in Seq(Byte) /\ Len(packet.data) = 3
  BY <1>2, ThreeBytes
<1>4. CASE packet.kind = "hit"
  <2>1. f = Append(packet.data, Crc8(packet.data))
    BY <1>4 DEF FrameOf
  <2>2. f[4] = Crc8(packet.data) /\ SubSeq(f, 1, 3) = packet.data /\ Len(f) = 4
    BY <1>3, <2>1, CrcTyped, Appended
  <2> HIDE DEF f, bs
  <2>3. Reported(bs) = <<[kind |-> "hit", data |-> packet.data]>>
    <3>1. Len(bs) = 8 * HitLen /\ Len(bs) # 8 * PairingLen
      BY <1>1, <2>2 DEF HitLen, PairingLen
    <3> QED BY ONLY <1>1, <2>2, <3>1 DEF Reported
  <2> QED BY <1>2, <1>4, <2>3 DEF bs
<1>5. CASE packet.kind = "pairing"
  <2> DEFINE body == <<Preamble>> \o packet.data
  <2>0. body \in Seq(Byte) /\ Len(body) = 4 /\ body[1] = Preamble
        /\ SubSeq(body, 2, 4) = packet.data
    <3>1. Preamble \in Byte
      BY DEF Preamble, Byte
    <3> QED BY <1>3, <3>1, Prefixed
  <2>1. f = Append(body, Crc8(body))
    BY <1>5 DEF FrameOf
  <2> HIDE DEF body
  <2>2. /\ f[1] = Preamble /\ f[5] = Crc8(body) /\ SubSeq(f, 1, 4) = body
        /\ SubSeq(f, 2, 4) = packet.data /\ Len(f) = 5
    <3>1. /\ f[5] = Crc8(body) /\ SubSeq(f, 1, 4) = body /\ Len(f) = 5
          /\ f[1] = body[1] /\ SubSeq(f, 2, 4) = SubSeq(body, 2, 4)
      BY <2>0, <2>1, CrcTyped, Appended
    <3> QED BY <2>0, <3>1
  <2> HIDE DEF f, bs
  <2>3. Reported(bs) = <<[kind |-> "pairing", data |-> packet.data]>>
    <3>1. Len(bs) # 8 * HitLen /\ Len(bs) = 8 * PairingLen
      BY <1>1, <2>2 DEF HitLen, PairingLen
    <3> QED BY ONLY <1>1, <2>2, <3>1 DEF Reported
  <2> QED BY <1>2, <1>5, <2>3 DEF bs
<1> QED BY <1>2, <1>4, <1>5

\* The frame that is being sent.
LEMMA FrameFacts ==
  ASSUME IrTypeOK, sent # <<>>
  PROVE  /\ LastSent \in Packets
         /\ Frame \in Seq(Bit)
         /\ Len(Frame) \in {8 * HitLen, 8 * PairingLen}
         /\ LastSent.kind = "pairing" => Len(Frame) = 8 * BufMax
         /\ Reported(Frame) = <<LastSent>>
<1>1. sent \in Seq(Packets) /\ Len(sent) \in 1 .. Len(sent)
  BY LenProperties, EmptySeq DEF IrTypeOK
<1>2. LastSent \in Packets
  BY <1>1, ElementOfSeq DEF LastSent
<1>3. LastSent.kind \in {"hit", "pairing"}
  BY <1>2, PacketAssumption
<1> QED BY <1>2, <1>3, WireTyped, RoundTrip DEF Frame, BufMax

-----------------------------------------------------------------------------
(* The receiver.                                                           *)

\* The space before a rising edge tells the bit.
LEMMA RisesWith0 ==
  ASSUME NEW rx, rx.state = "SPACE", NEW space \in 5 .. 21
  PROVE  Rise(rx, space) = [state |-> "MARK", bits |-> StoreBit(rx.bits, 0)]
<1>1. space \notin 22 .. 49 /\ space \in 5 .. 49 /\ rx.state # "IDLE"
  OBVIOUS
<1> QED BY <1>1 DEF Rise

LEMMA RisesWith1 ==
  ASSUME NEW rx, rx.state = "SPACE", NEW space \in 22 .. 49
  PROVE  Rise(rx, space) = [state |-> "MARK", bits |-> StoreBit(rx.bits, 1)]
<1>1. space \notin 5 .. 21 /\ space \in 5 .. 49 /\ rx.state # "IDLE"
  OBVIOUS
<1> QED BY <1>1 DEF Rise

\* After a pulse the receiver has seen its falling edge: it is not in a mark.
LEMMA PulseTyped ==
  ASSUME NEW rx, NEW space, NEW width,
         rx.state \in {"IDLE", "SPACE"}, rx = [state |-> rx.state, bits |-> rx.bits],
         rx.bits \in Seq(Bit), Len(rx.bits) <= 8 * BufMax
  PROVE  LET after == Pulse(rx, space, width) IN
         /\ after.state \in {"IDLE", "SPACE"}
         /\ after.bits \in Seq(Bit) /\ Len(after.bits) <= 8 * BufMax
<1> DEFINE risen == Rise(rx, space)
<1>1. 0 \in Bit /\ 1 \in Bit /\ <<>> \in Seq(Bit) /\ Len(<<>>) = 0
  BY DEF Bit
<1>2. ASSUME NEW v \in Bit
      PROVE  StoreBit(rx.bits, v) \in Seq(Bit) /\ Len(StoreBit(rx.bits, v)) <= 8 * BufMax
  <2>1. Len(rx.bits) \in Nat
    BY LenProperties
  <2>2. Append(rx.bits, v) \in Seq(Bit) /\ Len(Append(rx.bits, v)) = Len(rx.bits) + 1
    BY AppendProperties
  <2> QED BY <2>1, <2>2 DEF StoreBit, BufMax, PairingLen
<1>3. /\ risen.state \in {"IDLE", "MARK"}
      /\ risen.bits \in Seq(Bit) /\ Len(risen.bits) <= 8 * BufMax
      /\ risen = [state |-> risen.state, bits |-> risen.bits]
  <2>1. CASE rx.state = "IDLE"
    <3>1. risen = [state |-> "MARK", bits |-> <<>>]
      BY <2>1 DEF Rise
    <3> HIDE DEF risen
    <3> QED BY <1>1, <3>1 DEF BufMax, PairingLen
  <2>2. CASE rx.state = "SPACE" /\ space \in 5 .. 21
    <3>1. risen = [state |-> "MARK", bits |-> StoreBit(rx.bits, 0)]
      BY <2>2, RisesWith0
    <3> HIDE DEF risen
    <3> QED BY <1>1, <1>2, <3>1
  <2>3. CASE rx.state = "SPACE" /\ space \in 22 .. 49
    <3>1. risen = [state |-> "MARK", bits |-> StoreBit(rx.bits, 1)]
      BY <2>3, RisesWith1
    <3> HIDE DEF risen
    <3> QED BY <1>1, <1>2, <3>1
  <2>4. CASE rx.state = "SPACE" /\ space \notin 5 .. 21 /\ space \notin 22 .. 49
    <3>1. space \notin 5 .. 49
      BY <2>4
    <3>2. risen = [rx EXCEPT !.state = "IDLE"]
      BY <2>4, <3>1 DEF Rise
    <3> HIDE DEF risen
    <3> QED BY <3>2
  <2> QED BY <2>1, <2>2, <2>3, <2>4
<1> HIDE DEF risen
<1>4. Pulse(rx, space, width) = Fall(risen, width)
  BY DEF Pulse, risen
<1> QED BY <1>3, <1>4 DEF Fall

\* The first pulse of a frame, and one of its data bits, as they should be.
LEMMA PulseFirst ==
  ASSUME NEW rx, NEW space, rx.state = "IDLE"
  PROVE  Pulse(rx, space, MarkTime) = [state |-> "SPACE", bits |-> <<>>]
BY DEF Pulse, Rise, Fall, MarkTime

LEMMA PulseBit ==
  ASSUME NEW bs \in Seq(Bit), NEW v \in Bit, NEW width \in {MarkTime, 2 * MarkTime}
  PROVE  Pulse([state |-> "SPACE", bits |-> bs], SpaceTime(v), width)
           = [state |-> "SPACE", bits |-> StoreBit(bs, v)]
<1> DEFINE rx == [state |-> "SPACE", bits |-> bs]
<1>1. Rise(rx, SpaceTime(v)) = [state |-> "MARK", bits |-> StoreBit(bs, v)]
  <2>1. rx.state = "SPACE" /\ rx.bits = bs /\ v \in {0, 1}
    BY DEF Bit
  <2> HIDE DEF rx
  <2>2. v = 0 => SpaceTime(v) \in 5 .. 21
    BY DEF SpaceTime
  <2>3. v = 1 => SpaceTime(v) \in 22 .. 49
    BY DEF SpaceTime
  <2> QED BY <2>1, <2>2, <2>3, RisesWith0, RisesWith1
<1>2. width \in 5 .. 24
  BY DEF MarkTime
<1> QED BY <1>1, <1>2 DEF Pulse, Fall

-----------------------------------------------------------------------------
(* Types.                                                                  *)

\* What a pulse does to the receiver's types, whatever its space and width.
LEMMA SeesTyped ==
  ASSUME IrTypeOK, Listening, NEW space, NEW width, Sees(Pulse(Now, space, width))
  PROVE  /\ state' \in {"IDLE", "SPACE"}
         /\ bits' \in Seq(Bit) /\ Len(bits') <= 8 * BufMax
<1>1. /\ Now.state = state /\ Now.bits = bits
      /\ Now = [state |-> Now.state, bits |-> Now.bits]
  BY DEF Now
<1>2. /\ Now.state \in {"IDLE", "SPACE"}
      /\ Now.bits \in Seq(Bit) /\ Len(Now.bits) <= 8 * BufMax
  BY <1>1 DEF IrTypeOK, Listening
<1>3. /\ Pulse(Now, space, width).state \in {"IDLE", "SPACE"}
      /\ Pulse(Now, space, width).bits \in Seq(Bit)
      /\ Len(Pulse(Now, space, width).bits) <= 8 * BufMax
  BY ONLY <1>1, <1>2, PulseTyped
<1> QED BY <1>3 DEF Sees

\* Where the sender can be.
LEMMA SendingFacts ==
  ASSUME IrTypeOK, Sending, pos > 0
  PROVE  /\ pos \in Nat /\ sent # <<>>
         /\ ~AtStop => /\ pos \in 1 .. Len(Frame)
                       /\ Frame[pos] \in Bit
                       /\ SpaceTime(Frame[pos]) \in {10, 30}
<1>1. pos \in Nat /\ sent # <<>> /\ pos <= Len(Frame) + 1
  BY DEF IrTypeOK, Sending, PairingLen
<1>2. Frame \in Seq(Bit) /\ Len(Frame) \in Nat
  BY <1>1, FrameFacts, LenProperties
<1>3. ASSUME ~AtStop PROVE pos \in 1 .. Len(Frame)
  BY <1>1, <1>2, <1>3 DEF AtStop
<1>4. ASSUME ~AtStop PROVE Frame[pos] \in Bit
  BY <1>2, <1>3, <1>4, ElementOfSeq
<1> QED BY <1>1, <1>3, <1>4 DEF SpaceTime

LEMMA OneMore ==
  ASSUME NEW n \in {32, 40}, NEW p \in 1 .. n
  PROVE  p + 1 \in 0 .. 41 /\ p + 1 <= n + 1 /\ p + 1 > 0
OBVIOUS

LEMMA FewOfMany ==
  ASSUME NEW n \in {32, 40}, NEW p \in 1 .. 2 PROVE p <= n + 1
OBVIOUS

\* The next pulse of the frame is another pulse of the same frame.
LEMMA PosTyped ==
  ASSUME IrTypeOK, Sending, pos > 0, sent' = sent,
         pos' = IF AtStop THEN 0 ELSE pos + 1
  PROVE  pos' \in 0 .. 8 * PairingLen + 1 /\ Sending'
<1>0. Frame' = Frame
  BY DEF Frame, LastSent
<1>1. Len(Frame) \in {32, 40}
  BY SendingFacts, FrameFacts DEF HitLen, PairingLen
<1>2. CASE AtStop
  BY <1>2 DEF Sending, PairingLen
<1>3. CASE ~AtStop
  <2>1. sent # <<>> /\ pos' = pos + 1
    BY <1>3, SendingFacts
  <2>2. pos \in 1 .. Len(Frame)
    BY <1>3, SendingFacts
  <2>3. pos + 1 \in 0 .. 41 /\ pos + 1 <= Len(Frame) + 1
    BY ONLY <1>1, <2>2, OneMore
  <2> QED BY <1>0, <2>1, <2>3 DEF Sending, PairingLen
<1> QED BY <1>2, <1>3

LEMMA ReportedTyped ==
  ASSUME NEW bs \in Seq(Bit)
  PROVE  Reported(bs) \in Seq([kind : {"hit", "pairing"}, data : Seq(Byte)])
<1> DEFINE buf == BytesOf(bs)
           Heard == [kind : {"hit", "pairing"}, data : Seq(Byte)]
<1>1. Len(bs) \in Nat /\ bs \in [1 .. Len(bs) -> Bit]
  BY LenProperties
<1>2. ASSUME NEW k \in 1 .. Len(bs) \div 8
      PROVE  ByteOf([j \in 1 .. 8 |-> bs[8 * (k - 1) + j]]) \in Byte
  <2>1. ASSUME NEW j \in 1 .. 8 PROVE bs[8 * (k - 1) + j] \in Bit
    <3>1. 8 * (k - 1) + j \in 1 .. Len(bs)
      BY <1>1
    <3> QED BY <1>1, <3>1
  <2> DEFINE v == [j \in 1 .. 8 |-> bs[8 * (k - 1) + j]]
  <2>2. \A j \in 1 .. 8 : v[j] \in Bit
    BY <2>1
  <2> HIDE DEF v
  <2>3. ByteOf(v) \in Byte
    BY <2>2, ByteTyped
  <2> QED BY <2>3 DEF v
<1>3. buf \in [1 .. Len(bs) \div 8 -> Byte]
  BY <1>2 DEF BytesOf
<1>0. BytesOf(bs) = buf
  OBVIOUS
<1> HIDE DEF buf
<1>4. ASSUME NEW m \in 1 .. 2, NEW n \in 3 .. 4, Len(bs) = 8 * n \/ Len(bs) = 8 * (n + 1)
      PROVE  SubSeq(buf, m, n) \in Seq(Byte)
  <2>1. n <= Len(bs) \div 8
    <3>1. n \in Nat /\ n + 1 \in Nat /\ 0 \in 0 .. 7
          /\ (Len(bs) = 8 * n + 0 \/ Len(bs) = 8 * (n + 1) + 0)
      BY <1>4
    <3>2. Len(bs) \div 8 = n \/ Len(bs) \div 8 = n + 1
      BY ONLY <3>1, DivMod
    <3> QED BY <3>1, <3>2
  <2>2. \A i \in m .. n : buf[i] \in Byte
    BY <1>3, <2>1
  <2>3. m \in Int /\ n \in Int
    OBVIOUS
  <2> QED BY ONLY <2>2, <2>3, SubSeqProperties
<1>5. CASE Len(bs) = 8 * HitLen /\ buf[4] = Crc8(SubSeq(buf, 1, 3))
  <2>1. SubSeq(buf, 1, 3) \in Seq(Byte)
    BY <1>4, <1>5 DEF HitLen
  <2>2. Reported(bs) = <<[kind |-> "hit", data |-> SubSeq(buf, 1, 3)]>>
    <3>1. Len(bs) # 8 * PairingLen
      BY <1>5 DEF HitLen, PairingLen
    <3> QED BY ONLY <1>0, <1>5, <3>1 DEF Reported
  <2> QED BY <2>1, <2>2
<1>6. CASE Len(bs) = 8 * PairingLen /\ buf[1] = Preamble /\ buf[5] = Crc8(SubSeq(buf, 1, 4))
  <2>1. SubSeq(buf, 2, 4) \in Seq(Byte)
    BY <1>4, <1>6 DEF PairingLen
  <2>2. Reported(bs) = <<[kind |-> "pairing", data |-> SubSeq(buf, 2, 4)]>>
    <3>1. Len(bs) # 8 * HitLen
      BY <1>6 DEF HitLen, PairingLen
    <3> QED BY ONLY <1>0, <1>6, <3>1 DEF Reported
  <2> QED BY <2>1, <2>2
<1>7. CASE /\ ~(Len(bs) = 8 * HitLen /\ buf[4] = Crc8(SubSeq(buf, 1, 3)))
           /\ ~(Len(bs) = 8 * PairingLen /\ buf[1] = Preamble
                  /\ buf[5] = Crc8(SubSeq(buf, 1, 4)))
  <2>1. Reported(bs) = <<>>
    BY ONLY <1>0, <1>7 DEF Reported
  <2> QED BY <2>1
<1> QED BY <1>5, <1>6, <1>7

\* The time to the next pulse, moved by less than a pulse, is no silence.
LEMMA SpaceTyped ==
  ASSUME NEW space \in {10, 30}, NEW shift \in 0 .. 9
  PROVE  /\ space - shift \in Nat /\ space - shift < Polled
         /\ space + shift \in Nat /\ space + shift < Polled
BY DEF Polled

\* The sender goes on to the next pulse and some time passes until then.
LEMMA AdvanceTyped ==
  ASSUME IrTypeOK, Sending, pos > 0, NEW late \in 0 .. 9, Advance(late), sent' = sent
  PROVE  /\ pos' \in 0 .. 8 * PairingLen + 1 /\ Sending'
         /\ gap' \in Nat /\ gap' < Polled
<1>1. pos' \in 0 .. 8 * PairingLen + 1 /\ Sending'
  <2>1. pos' = IF AtStop THEN 0 ELSE pos + 1
    BY DEF Advance
  <2> QED BY <2>1, PosTyped
<1>2. CASE AtStop
  BY <1>1, <1>2 DEF Advance, Polled
<1>3. CASE ~AtStop
  <2>1. gap' = SpaceTime(Frame[pos]) - late
    BY <1>3 DEF Advance
  <2> QED BY <1>1, <1>3, <2>1, SendingFacts, SpaceTyped
<1> QED BY <1>2, <1>3

\* The sender is about to send, or in the middle of, the packet appended.
LEMMA BurstTyped ==
  ASSUME IrTypeOK, NEW packet \in Packets, sent' = Append(sent, packet), pos' \in 1 .. 2
  PROVE  /\ sent' \in Seq(Packets) /\ sent' # <<>>
         /\ LastSent' = packet
         /\ Sending'
<1>1. sent \in Seq(Packets) /\ Len(sent) \in Nat
  BY LenProperties DEF IrTypeOK
<1>2. /\ sent' \in Seq(Packets) /\ Len(sent') = Len(sent) + 1
      /\ sent'[Len(sent) + 1] = packet
  BY <1>1, AppendProperties
<1>3. LastSent' = packet /\ sent' # <<>>
  <2>1. sent'[Len(sent')] = packet
    BY <1>2
  <2>2. sent' # <<>>
    BY <1>1, <1>2
  <2> QED BY <2>1, <2>2 DEF LastSent
<1>4. Len(Wire[packet]) \in {32, 40}
  BY WireTyped, PacketAssumption DEF HitLen, PairingLen
<1>5. Frame' = Wire[packet]
  BY <1>3 DEF Frame
<1>6. pos' <= Len(Wire[packet]) + 1
  BY ONLY <1>4, pos' \in 1 .. 2, FewOfMany
<1> QED BY <1>2, <1>3, <1>5, <1>6 DEF Sending

LEMMA IrTypeStep ==
  ASSUME IrTypeOK, Listening, Sending, [IrNext]_irVars
  PROVE  IrTypeOK' /\ Listening' /\ Sending'
<1> DEFINE Heard == [kind : {"hit", "pairing"}, data : Seq(Byte)]
           ReceiverOK == /\ state \in {"IDLE", "SPACE"}
                         /\ bits \in Seq(Bit) /\ Len(bits) <= 8 * BufMax
<1>1. /\ pos \in 0 .. 8 * PairingLen + 1 /\ gap \in Nat /\ ReceiverOK
      /\ sent \in Seq(Packets) /\ reports \in Seq(Heard)
      /\ clean \in BOOLEAN /\ faults \in 0 .. MaxFaults
  BY DEF IrTypeOK, Listening
<1>2. ASSUME ReceiverOK', gap' \in Nat, gap' >= Polled => state' = "IDLE",
             pos' \in 0 .. 8 * PairingLen + 1, Sending',
             sent' \in Seq(Packets), reports' \in Seq(Heard),
             clean' \in BOOLEAN, faults' \in 0 .. MaxFaults
      PROVE  IrTypeOK' /\ Listening' /\ Sending'
  BY <1>2 DEF IrTypeOK, Listening
<1>3. faults < MaxFaults => faults + 1 \in 0 .. MaxFaults
  BY <1>1, BoundAssumption
<1>4. ASSUME NEW packet \in Packets, Begin(packet) PROVE IrTypeOK' /\ Listening' /\ Sending'
  <2>1. /\ gap' = gap /\ state' = state /\ bits' = bits /\ reports' = reports
        /\ pos' = 1 /\ sent' = Append(sent, packet) /\ clean' \in BOOLEAN
        /\ faults' = faults \/ (faults < MaxFaults /\ faults' = faults + 1)
    BY <1>4 DEF Begin, receiver
  <2>2. sent' \in Seq(Packets) /\ Sending'
    BY <2>1, BurstTyped
  <2>3. pos' \in 0 .. 8 * PairingLen + 1
    BY <2>1 DEF PairingLen
  <2> QED BY <1>1, <1>2, <1>3, <2>1, <2>2, <2>3 DEF Listening
<1>5. ASSUME NEW packet \in Packets, Chain(packet) PROVE IrTypeOK' /\ Listening' /\ Sending'
  <2>1. /\ pos > 0 /\ reports' = reports /\ faults' = faults /\ clean' \in BOOLEAN
        /\ pos' = 2 /\ gap' = SpaceTime(Wire[packet][1])
        /\ Sees(Pulse(Now, gap, 2 * MarkTime))
        /\ \/ sent' = sent /\ packet = LastSent
           \/ sent' = Append(sent, packet)
    BY <1>1, <1>5 DEF Chain
  <2>2. ReceiverOK'
    BY <2>1, SeesTyped
  <2>3. gap' \in Nat /\ gap' < Polled
    BY <2>1 DEF SpaceTime, Polled
  <2>4. pos' \in 0 .. 8 * PairingLen + 1
    BY <2>1 DEF PairingLen
  <2>5. sent' \in Seq(Packets) /\ Sending'
    <3>1. CASE sent' = Append(sent, packet)
      BY <2>1, <3>1, BurstTyped
    <3>2. CASE sent' = sent
      <4>1. Frame' = Frame
        BY <3>2 DEF Frame, LastSent
      <4>2. Len(Frame) \in {32, 40} /\ sent # <<>>
        BY <2>1, SendingFacts, FrameFacts DEF HitLen, PairingLen
      <4>3. \A n \in {32, 40} : 2 <= n + 1
        OBVIOUS
      <4>4. 2 <= Len(Frame) + 1
        BY <4>2, <4>3
      <4> QED BY <1>1, <2>1, <3>2, <4>1, <4>2, <4>4 DEF Sending
    <3> QED BY <2>1, <3>1, <3>2
  <2>6. ~(gap' >= Polled)
    BY <2>3 DEF Polled
  <2> QED BY <1>1, <1>2, <2>1, <2>2, <2>3, <2>4, <2>5, <2>6
<1>6. ASSUME SendPulse PROVE IrTypeOK' /\ Listening' /\ Sending'
  <2>1. /\ pos > 0 /\ Sees(Pulse(Now, gap, MarkTime)) /\ Advance(0)
        /\ sent' = sent /\ reports' = reports /\ clean' = clean /\ faults' = faults
    BY <1>6 DEF SendPulse
  <2>2. ReceiverOK'
    BY <2>1, SeesTyped
  <2>3. /\ pos' \in 0 .. 8 * PairingLen + 1 /\ Sending'
        /\ gap' \in Nat /\ gap' < Polled
    <3>1. 0 \in 0 .. 9
      OBVIOUS
    <3> QED BY <2>1, <3>1, AdvanceTyped
  <2>4. ~(gap' >= Polled)
    BY <2>3 DEF Polled
  <2> QED BY <1>1, <1>2, <2>1, <2>2, <2>3, <2>4
<1>7. ASSUME Harmed
      PROVE  /\ sent' \in Seq(Packets) /\ reports' \in Seq(Heard)
             /\ sent' = sent
             /\ clean' \in BOOLEAN /\ faults' \in 0 .. MaxFaults
  BY <1>1, <1>3, <1>7 DEF Harmed
<1>8. ASSUME LatePulse PROVE IrTypeOK' /\ Listening' /\ Sending'
  <2>1. PICK late \in Shifts : Sees(Pulse(Now, gap, MarkTime + late)) /\ Advance(late)
    BY <1>8 DEF LatePulse
  <2>2. pos > 0 /\ Harmed /\ late \in 0 .. 9
    BY <1>8, TimeAssumption DEF LatePulse
  <2>3. ReceiverOK'
    BY <2>1, SeesTyped
  <2>4. /\ pos' \in 0 .. 8 * PairingLen + 1 /\ Sending'
        /\ gap' \in Nat /\ gap' < Polled
    <3>1. sent' = sent
      BY <1>7, <2>2
    <3> QED BY <2>1, <2>2, <3>1, AdvanceTyped
  <2>5. ~(gap' >= Polled)
    BY <2>4 DEF Polled
  <2> QED BY <1>2, <1>7, <2>2, <2>3, <2>4, <2>5
<1>9. ASSUME EarlyPulse PROVE IrTypeOK' /\ Listening' /\ Sending'
  <2>1. PICK early \in Early :
          /\ Sees(Pulse(Now, gap, MarkTime - early))
          /\ IF AtStop THEN pos' = 0 /\ gap' = 0
                       ELSE pos' = pos + 1 /\ gap' = SpaceTime(Frame[pos]) + early
    BY <1>9 DEF EarlyPulse
  <2>2. pos > 0 /\ Harmed /\ early \in 0 .. 9
    BY <1>9, TimeAssumption DEF EarlyPulse
  <2>3. ReceiverOK'
    BY <2>1, SeesTyped
  <2>4. pos' \in 0 .. 8 * PairingLen + 1 /\ Sending'
    <3>1. pos' = IF AtStop THEN 0 ELSE pos + 1
      BY <2>1
    <3> QED BY <1>7, <2>2, <3>1, PosTyped
  <2>5. gap' \in Nat /\ ~(gap' >= Polled)
    <3>1. CASE AtStop
      BY <2>1, <3>1 DEF Polled
    <3>2. CASE ~AtStop
      <4>1. SpaceTime(Frame[pos]) \in {10, 30} /\ gap' = SpaceTime(Frame[pos]) + early
        BY <2>1, <2>2, <3>2, SendingFacts
      <4>2. gap' \in Nat /\ gap' < Polled
        BY <2>2, <4>1, SpaceTyped
      <4> QED BY <4>2 DEF Polled
    <3> QED BY <3>1, <3>2
  <2> QED BY <1>2, <1>7, <2>2, <2>3, <2>4, <2>5
<1>10. ASSUME LostPulse PROVE IrTypeOK' /\ Listening' /\ Sending'
  <2>1. /\ pos > 0 /\ Harmed /\ state' = state /\ bits' = bits
        /\ IF AtStop THEN pos' = 0 /\ gap' = gap
                     ELSE pos' = pos + 1 /\ Passes(gap + MarkTime + SpaceTime(Frame[pos]))
    BY <1>10 DEF LostPulse, receiver
  <2>2. pos' \in 0 .. 8 * PairingLen + 1 /\ Sending'
    <3>1. pos' = IF AtStop THEN 0 ELSE pos + 1
      BY <2>1
    <3> QED BY <1>7, <2>1, <3>1, PosTyped
  <2>3. gap' \in Nat /\ (gap' >= Polled => state' = "IDLE")
    <3>1. CASE AtStop
      BY <1>1, <2>1, <3>1 DEF Listening
    <3>2. CASE ~AtStop
      <4>1. SpaceTime(Frame[pos]) \in {10, 30}
        BY <2>1, <3>2, SendingFacts
      <4> DEFINE time == gap + MarkTime + SpaceTime(Frame[pos])
      <4>2. time \in Nat
        BY <1>1, <4>1 DEF MarkTime
      <4>3. Passes(time)
        BY <2>1, <3>2
      <4> HIDE DEF time
      <4> QED BY <1>1, <2>1, <4>2, <4>3 DEF Passes
    <3> QED BY <3>1, <3>2
  <2> QED BY <1>1, <1>2, <1>7, <2>1, <2>2, <2>3
<1>11. ASSUME Noise PROVE IrTypeOK' /\ Listening' /\ Sending'
  <2>1. /\ Harmed /\ pos' = pos /\ gap' \in {0, MarkTime}
        /\ \E space : Sees(Pulse(Now, space, MarkTime))
    BY <1>11 DEF Noise
  <2>2. ReceiverOK'
    BY <2>1, SeesTyped
  <2>3. gap' \in Nat /\ ~(gap' >= Polled)
    BY <2>1 DEF MarkTime, Polled
  <2>4. Sending'
    BY <1>7, <2>1 DEF Sending, Frame, LastSent
  <2> QED BY <1>1, <1>2, <1>7, <2>1, <2>2, <2>3, <2>4
<1>12. ASSUME Quiet PROVE IrTypeOK' /\ Listening' /\ Sending'
  <2>1. PICK pause \in Pauses : Passes(pause)
    BY <1>12 DEF Quiet
  <2>2. /\ pos' = pos /\ state' = state /\ bits' = bits /\ sent' = sent
        /\ reports' = reports /\ clean' = clean /\ faults' = faults
    BY <1>12 DEF Quiet, receiver
  <2>3. gap' \in Nat /\ (gap' >= Polled => state' = "IDLE")
    BY <1>1, <2>1, <2>2, TimeAssumption DEF Passes
  <2>4. Sending'
    BY <2>2 DEF Sending, Frame, LastSent
  <2> QED BY <1>1, <1>2, <2>2, <2>3, <2>4
<1>13. ASSUME Poll PROVE IrTypeOK' /\ Listening' /\ Sending'
  <2>1. /\ state' = "IDLE" /\ bits' = <<>> /\ reports' = reports \o Reported(bits)
        /\ pos' = pos /\ gap' = gap /\ sent' = sent /\ clean' = clean /\ faults' = faults
    BY <1>13 DEF Poll
  <2>2. ReceiverOK'
    BY <2>1 DEF BufMax, PairingLen
  <2>3. reports' \in Seq(Heard)
    <3>1. Reported(bits) \in Seq(Heard)
      BY <1>1, ReportedTyped
    <3> HIDE DEF Heard
    <3> QED BY <1>1, <2>1, <3>1, ConcatProperties
  <2>4. Sending'
    BY <2>1 DEF Sending, Frame, LastSent
  <2> QED BY <1>1, <1>2, <2>1, <2>2, <2>3, <2>4
<1>14. CASE UNCHANGED irVars
  <2>1. /\ pos' = pos /\ gap' = gap /\ state' = state /\ bits' = bits /\ sent' = sent
        /\ reports' = reports /\ clean' = clean /\ faults' = faults
    BY <1>14 DEF irVars, receiver
  <2>2. Sending'
    BY <2>1 DEF Sending, Frame, LastSent
  <2> QED BY <1>1, <1>2, <2>1, <2>2 DEF Listening
<1> QED BY <1>4, <1>5, <1>6, <1>8, <1>9, <1>10, <1>11, <1>12, <1>13, <1>14 DEF IrNext

LEMMA IrTypeInit == IrInit => IrTypeOK /\ Listening /\ Sending
<1> DEFINE Heard == [kind : {"hit", "pairing"}, data : Seq(Byte)]
<1> SUFFICES ASSUME IrInit PROVE IrTypeOK /\ Listening /\ Sending
  OBVIOUS
<1>1. /\ bits \in Seq(Bit) /\ sent \in Seq(Packets) /\ reports \in Seq(Heard)
      /\ Len(bits) = 0
  BY DEF IrInit
<1>2. /\ pos \in 0 .. 8 * PairingLen + 1 /\ ~(pos > 0) /\ gap \in Nat
      /\ faults \in 0 .. MaxFaults /\ 0 <= 8 * BufMax
  BY BoundAssumption DEF IrInit, Polled, BufMax, PairingLen
<1>3. state = "IDLE" /\ clean = FALSE
  BY DEF IrInit
<1> QED BY ONLY <1>1, <1>2, <1>3 DEF IrTypeOK, Listening, Sending

\* What the receiver and the sender keep is of its type, and the receiver's
\* buffer never holds more bits than the longest frame has.
THEOREM IrTypeCorrect == IrSpec => []IrTypeOK
<1> DEFINE Inv == IrTypeOK /\ Listening /\ Sending
<1>1. IrInit => Inv
  BY IrTypeInit
<1>2. Inv /\ [IrNext]_irVars => Inv'
  BY IrTypeStep
<1>3. Inv => IrTypeOK
  OBVIOUS
<1> HIDE DEF Inv
<1> QED BY <1>1, <1>2, <1>3, PTL DEF IrSpec

-----------------------------------------------------------------------------
(* What is sent unharmed is heard.                                         *)

\* One more bit of the frame.
LEMMA StoresNext ==
  ASSUME NEW f \in Seq(Bit), Len(f) <= 8 * BufMax, NEW n \in 1 .. Len(f)
  PROVE  StoreBit(SubSeq(f, 1, n - 1), f[n]) = SubSeq(f, 1, n)
<1> DEFINE g == SubSeq(f, 1, n - 1)
<1>1. Len(f) \in Nat /\ n \in Nat /\ n - 1 \in Int /\ 1 \in 1 .. Len(f) /\ n \in 1 .. Len(f)
  BY LenProperties
<1>2. \A i \in 1 .. n - 1 : f[i] \in Bit
  <2>1. ASSUME NEW i \in 1 .. n - 1 PROVE i \in 1 .. Len(f)
    BY <1>1
  <2> QED BY <2>1, ElementOfSeq
<1>3. g \in Seq(Bit) /\ Len(g) = n - 1
  <2>1. g \in Seq(Bit) /\ Len(g) = IF 1 <= n - 1 THEN (n - 1) - 1 + 1 ELSE 0
    BY ONLY <1>1, <1>2, SubSeqProperties
  <2> QED BY <1>1, <2>1
<1>4. f[n] \in Bit /\ SubSeq(f, 1, n) = g \o <<f[n]>>
  <2>1. n \in 1 .. Len(f) /\ 1 \in 1 .. Len(f)
    BY <1>1
  <2> QED BY ONLY f \in Seq(Bit), <2>1, SubSeqRecursiveSecond, ElementOfSeq
<1> HIDE DEF g
<1>5. Append(g, f[n]) = SubSeq(f, 1, n)
  BY <1>3, <1>4, AppendIsConcat
<1>6. Len(g) < 8 * BufMax
  BY <1>1, <1>3 DEF BufMax, PairingLen
<1> QED BY <1>3, <1>5, <1>6 DEF StoreBit, g, BufMax, PairingLen

\* An unharmed pulse after the first adds the bit of the space before it.
LEMMA HearsBit ==
  ASSUME IrTypeOK, Sending, HearsClean, clean, pos > 1,
         NEW width \in {MarkTime, 2 * MarkTime}, Sees(Pulse(Now, gap, width))
  PROVE  /\ state' = "SPACE"
         /\ \/ bits' = SubSeq(Frame, 1, pos - 1)
            \/ bits' = Frame /\ Len(Frame) = 8 * BufMax
<1>1. /\ sent # <<>> /\ state = "SPACE" /\ gap = SpaceTime(Frame[pos - 1])
      /\ \/ bits = SubSeq(Frame, 1, pos - 2)
         \/ bits = Frame /\ Len(Frame) = 8 * BufMax
      /\ bits \in Seq(Bit)
  BY DEF HearsClean, HasFrame, IrTypeOK
<1>2. Frame \in Seq(Bit) /\ Len(Frame) \in {32, 40}
  BY <1>1, FrameFacts DEF HitLen, PairingLen
<1>3. pos - 1 \in 1 .. Len(Frame)
  <2>1. pos \in Nat /\ pos > 1 /\ pos <= Len(Frame) + 1 /\ Len(Frame) \in Nat
    BY <1>2 DEF IrTypeOK, Sending, PairingLen
  <2> QED BY ONLY <2>1
<1> DEFINE n == pos - 1
           v == Frame[n]
<1>4. v \in Bit
  BY <1>2, <1>3, ElementOfSeq
<1>5. Now = [state |-> "SPACE", bits |-> bits]
  BY <1>1 DEF Now
<1>6. Pulse(Now, gap, width) = [state |-> "SPACE", bits |-> StoreBit(bits, v)]
  <2> HIDE DEF v
  <2>1. Pulse([state |-> "SPACE", bits |-> bits], SpaceTime(v), width)
          = [state |-> "SPACE", bits |-> StoreBit(bits, v)]
    BY <1>1, <1>4, PulseBit
  <2> QED BY <1>1, <1>5, <2>1 DEF v
<1>7. state' = "SPACE" /\ bits' = StoreBit(bits, v)
  BY <1>6 DEF Sees
<1>8. CASE bits = SubSeq(Frame, 1, pos - 2)
  <2>1. n - 1 = pos - 2
    BY DEF IrTypeOK
  <2>2. Len(Frame) <= 8 * BufMax
    <3>1. \A m \in {32, 40} : m <= 8 * BufMax
      BY DEF BufMax, PairingLen
    <3> QED BY <1>2, <3>1
  <2>3. StoreBit(SubSeq(Frame, 1, n - 1), Frame[n]) = SubSeq(Frame, 1, n)
    <3> HIDE DEF n
    <3>1. n \in 1 .. Len(Frame)
      BY <1>3 DEF n
    <3> QED BY ONLY <1>2, <2>2, <3>1, StoresNext
  <2> QED BY <1>7, <1>8, <2>1, <2>3
<1>9. CASE bits = Frame /\ Len(Frame) = 8 * BufMax
  <2>1. StoreBit(bits, v) = bits
    BY <1>9 DEF StoreBit, BufMax, PairingLen
  <2> QED BY <1>7, <1>9, <2>1
<1> QED BY <1>1, <1>8, <1>9

\* The main loop finds an unharmed frame ended only when it has been sent.
LEMMA PollsSilence ==
  ASSUME IrTypeOK, Sending, HearsClean, clean, state = "SPACE", gap > EndOfFrame
  PROVE  pos = 0
<1>1. pos \in Nat
  BY DEF IrTypeOK, PairingLen
<1>2. pos # 1
  BY DEF HearsClean
<1>3. ASSUME pos > 1 PROVE FALSE
  <2>1. gap = SpaceTime(Frame[pos - 1])
    BY <1>3 DEF HearsClean
  <2> QED BY <2>1 DEF SpaceTime, EndOfFrame
<1> QED BY <1>1, <1>2, <1>3

LEMMA HearsCleanStep ==
  ASSUME IrTypeOK, Listening, Sending, HearsClean, [IrNext]_irVars
  PROVE  HearsClean'
<1>1. ASSUME sent' = sent PROVE Frame' = Frame /\ LastSent' = LastSent
  BY <1>1 DEF Frame, LastSent
<1>2. ASSUME ~clean' PROVE HearsClean'
  BY <1>2 DEF HearsClean
<1>3. ASSUME NEW packet \in Packets, Begin(packet) PROVE HearsClean'
  <2>1. /\ pos' = 1 /\ sent' # <<>> /\ state' = state
        /\ clean' => gap >= Polled
    <3>1. sent' # <<>>
      BY <1>3, BurstTyped DEF Begin
    <3> QED BY <1>3, <3>1 DEF Begin, receiver
  <2>2. clean' => state' = "IDLE"
    BY <2>1 DEF Listening
  <2> QED BY <2>1, <2>2 DEF HearsClean
<1>4. ASSUME NEW packet \in Packets, Chain(packet) PROVE HearsClean'
  <2>1. CASE ~clean'
    BY <1>2, <2>1
  <2>2. CASE clean'
    <3>1. /\ clean /\ packet.kind = "pairing" /\ packet = LastSent /\ sent' = sent
          /\ pos > 0 /\ AtStop /\ Sees(Pulse(Now, gap, 2 * MarkTime))
          /\ pos' = 2 /\ gap' = SpaceTime(Frame[1])
      BY <1>4, <2>2 DEF Chain, Frame
    <3>2. sent # <<>> /\ Frame \in Seq(Bit) /\ Len(Frame) = 8 * BufMax
      BY <3>1, SendingFacts, FrameFacts
    <3>3. pos > 1 /\ pos - 1 = Len(Frame)
      BY <3>1, <3>2 DEF AtStop, BufMax, PairingLen
    <3>4. state' = "SPACE" /\ (bits' = SubSeq(Frame, 1, Len(Frame)) \/ bits' = Frame)
      BY <3>1, <3>3, HearsBit
    <3>5. bits' = Frame
      BY <3>2, <3>4, SubSeqFull
    <3>6. ~(pos' = 1) /\ ~(pos' = 0) /\ pos' - 1 = 1
      BY <3>1
    <3> QED BY <1>1, <3>1, <3>2, <3>4, <3>5, <3>6 DEF HearsClean, HasFrame
  <2> QED BY <2>1, <2>2
<1>5. ASSUME SendPulse PROVE HearsClean'
  <2>1. CASE ~clean'
    BY <1>2, <2>1
  <2>2. CASE clean'
    <3>1. /\ clean /\ pos > 0 /\ sent' = sent /\ reports' = reports
          /\ Sees(Pulse(Now, gap, MarkTime)) /\ Advance(0)
      BY <1>5, <2>2 DEF SendPulse
    <3>2. /\ pos \in Nat /\ sent # <<>> /\ Frame \in Seq(Bit) /\ Len(Frame) \in {32, 40}
      BY <3>1, SendingFacts, FrameFacts DEF HitLen, PairingLen
    <3>3. Frame' = Frame /\ LastSent' = LastSent
      BY <1>1, <3>1
    <3>4. /\ state' = "SPACE"
          /\ \/ bits' = SubSeq(Frame, 1, pos - 1)
             \/ bits' = Frame /\ Len(Frame) = 8 * BufMax
      <4>1. CASE pos > 1
        BY <3>1, <4>1, HearsBit
      <4>2. CASE pos = 1
        <5>1. Now.state = "IDLE"
          BY <3>1, <4>2 DEF HearsClean, Now
        <5>2. state' = "SPACE" /\ bits' = <<>>
          BY <3>1, <5>1, PulseFirst DEF Sees
        <5>3. SubSeq(Frame, 1, pos - 1) = <<>>
          BY <4>2, SubSeqEmpty
        <5> QED BY <5>2, <5>3
      <4> QED BY <3>1, <3>2, <4>1, <4>2
    <3>5. CASE AtStop
      <4>1. pos' = 0
        BY <3>1, <3>5 DEF Advance
      <4>2. pos - 1 = Len(Frame)
        BY <3>2, <3>5 DEF AtStop
      <4>3. bits' = Frame
        BY <3>2, <3>4, <4>2, SubSeqFull
      <4>4. ~(pos' = 1) /\ ~(pos' > 1)
        BY <4>1
      <4> QED BY <3>1, <3>2, <3>3, <3>4, <4>3, <4>4 DEF HearsClean, HasFrame
    <3>6. CASE ~AtStop
      <4>1. pos' = pos + 1 /\ gap' = SpaceTime(Frame[pos]) - 0
        BY <3>1, <3>6 DEF Advance
      <4>2. SpaceTime(Frame[pos]) \in {10, 30}
        BY <3>1, <3>6, SendingFacts
      <4>3. gap' = SpaceTime(Frame[pos])
        BY <4>1, <4>2
      <4>4. pos' - 1 = pos /\ pos' - 2 = pos - 1 /\ ~(pos' = 1) /\ ~(pos' = 0)
        BY <3>1, <3>2, <4>1
      <4> QED BY <3>1, <3>2, <3>3, <3>4, <4>3, <4>4 DEF HearsClean, HasFrame
    <3> QED BY <3>5, <3>6
  <2> QED BY <2>1, <2>2
<1>6. ASSUME LatePulse \/ EarlyPulse \/ LostPulse \/ Noise PROVE HearsClean'
  BY <1>2, <1>6 DEF LatePulse, EarlyPulse, LostPulse, Noise, Harmed
<1>7. ASSUME Quiet PROVE HearsClean'
  <2>1. /\ pos = 0 /\ pos' = pos /\ state' = state /\ bits' = bits /\ sent' = sent
        /\ reports' = reports /\ clean' = clean
    BY <1>7 DEF Quiet, receiver
  <2>2. ~(pos' = 1) /\ ~(pos' > 1)
    BY <2>1
  <2> QED BY <1>1, <2>1, <2>2 DEF HearsClean, HasFrame
<1>8. ASSUME Poll PROVE HearsClean'
  <2>1. CASE ~clean'
    BY <1>2, <2>1
  <2>2. CASE clean'
    <3>1. /\ clean /\ state = "SPACE" /\ gap > EndOfFrame
          /\ reports' = reports \o Reported(bits) /\ state' = "IDLE"
          /\ pos' = pos /\ gap' = gap /\ sent' = sent
      BY <1>8, <2>2 DEF Poll
    <3>2. pos = 0
      BY <3>1, PollsSilence
    <3>3. sent # <<>> /\ bits = Frame
      BY <3>1, <3>2 DEF HearsClean, HasFrame
    <3>4. LastSent \in Packets /\ Reported(bits) = <<LastSent>>
      BY <3>3, FrameFacts
    <3>5. reports' # <<>> /\ reports'[Len(reports')] = LastSent
      <4> DEFINE Heard == [kind : {"hit", "pairing"}, data : Seq(Byte)]
      <4>1. reports \in Seq(Heard) /\ LastSent \in Heard
        <5>1. /\ LastSent = [kind |-> LastSent.kind, data |-> LastSent.data]
              /\ LastSent.kind \in {"hit", "pairing"} /\ LastSent.data \in [1 .. 3 -> Byte]
          BY <3>4, PacketAssumption
        <5>2. LastSent.data \in Seq(Byte)
          BY <5>1, ThreeBytes
        <5> QED BY <5>1, <5>2 DEF IrTypeOK
      <4> HIDE DEF Heard
      <4>2. reports' = Append(reports, LastSent)
        BY <3>1, <3>4, <4>1, AppendIsConcat
      <4>3. /\ Len(reports) \in Nat /\ Len(reports') = Len(reports) + 1
            /\ reports'[Len(reports) + 1] = LastSent /\ reports' # <<>>
        BY <4>1, <4>2, AppendProperties, LenProperties
      <4> QED BY <4>3
    <3>6. ~(pos' = 1) /\ ~(pos' > 1)
      BY <3>1, <3>2
    <3> QED BY <1>1, <3>1, <3>3, <3>5, <3>6 DEF HearsClean
  <2> QED BY <2>1, <2>2
<1>9. CASE UNCHANGED irVars
  BY <1>1, <1>9 DEF irVars, receiver, HearsClean, HasFrame
<1> QED BY <1>3, <1>4, <1>5, <1>6, <1>7, <1>8, <1>9 DEF IrNext

LEMMA HearingHolds == IrSpec => [](IrTypeOK /\ HearingInv)
<1> DEFINE Inv == IrTypeOK /\ Listening /\ Sending
<1>1. IrInit => HearsClean
  BY DEF IrInit, HearsClean
<1>2. Inv /\ HearsClean /\ [IrNext]_irVars => HearsClean'
  BY HearsCleanStep
<1>3. IrInit => Inv
  BY IrTypeInit
<1>4. Inv /\ [IrNext]_irVars => Inv'
  BY IrTypeStep
<1>5. Inv /\ HearsClean <=> IrTypeOK /\ HearingInv
  BY DEF HearingInv
<1> HIDE DEF Inv
<1> QED BY <1>1, <1>2, <1>3, <1>4, <1>5, PTL DEF IrSpec

\* Whatever came before, a packet that begins in silence and is not harmed is
\* reported as soon as the receiver has had time to poll, and nothing after it:
\* for every packet, every disturbance and every silence.
THEOREM IrNextFrameHeard == IrSpec => []NextFrameHeard
<1>1. IrTypeOK /\ HearingInv => NextFrameHeard
  BY DEF HearingInv, HearsClean, Listening, NextFrameHeard
<1> QED BY <1>1, HearingHolds, PTL

\* An unharmed packet is reported only when the emitter has fallen silent.
HeardInSilence == [][clean /\ reports' # reports => pos = 0]_irVars

\* Why HeardWhileHeld fails: as long as the trigger is held in pairing, frame
\* follows frame without a pause, none ends for the receiver and none is
\* reported, however long it goes on (ir_protocol.c:262, emitter main.c:417).
THEOREM IrHeldUnheard == IrSpec => HeardInSilence
<1>1. /\ IrTypeOK /\ HearingInv /\ [IrNext]_irVars
      => [clean /\ reports' # reports => pos = 0]_irVars
  <2> SUFFICES ASSUME IrTypeOK, HearingInv, IrNext, clean, reports' # reports
               PROVE  pos = 0
    OBVIOUS
  <2>1. Poll
    BY DEF IrNext, Begin, Chain, SendPulse, LatePulse, EarlyPulse, LostPulse, Noise,
           Quiet, Harmed
  <2>2. state = "SPACE" /\ gap > EndOfFrame
    BY <2>1 DEF Poll
  <2> QED BY <2>2, PollsSilence DEF HearingInv
<1> QED BY <1>1, HearingHolds, PTL DEF IrSpec, HeardInSilence

-----------------------------------------------------------------------------
(* An undisturbed link makes nothing up.                                   *)

\* A hit that other frames have joined is no frame.
LEMMA OverrunReported ==
  ASSUME NEW packet \in Packets, packet.kind = "hit" => packet.data[1] # Preamble,
         bits \in Seq(Bit), pos = 0, Overrun(packet)
  PROVE  Reported(bits) = IF packet.kind = "hit" THEN <<>> ELSE <<packet>>
<1>1. packet.kind \in {"hit", "pairing"} /\ packet.data \in [1 .. 3 -> Byte]
  BY PacketAssumption
<1>2. CASE packet.kind = "pairing"
  BY <1>2, RoundTrip DEF Overrun
<1>3. CASE packet.kind = "hit"
  <2>1. /\ Len(bits) >= 8 * HitLen /\ Len(bits) # 8 * HitLen
        /\ \A j \in 1 .. 8 : bits[j] = Wire[packet][j]
    BY <1>3 DEF Overrun
  <2> DEFINE buf == BytesOf(bits)
             f == FrameOf(packet)
  <2>2. ASSUME Len(bits) = 8 * PairingLen PROVE buf[1] # Preamble
    <3>1. f \in Seq(Byte) /\ Len(f) = 4 /\ BytesOf(BitsOf(f)) = f /\ Len(BitsOf(f)) = 32
      <4>1. f \in Seq(Byte) /\ Len(f) = 4
        BY <1>3, FrameTyped DEF HitLen
      <4> HIDE DEF f
      <4>2. BytesOf(BitsOf(f)) = f /\ Len(BitsOf(f)) = 8 * Len(f)
        BY <4>1, BitsTyped, BytesOfBits
      <4> QED BY <4>1, <4>2
    <3>2. Wire[packet] = BitsOf(f)
      BY DEF Wire
    <3>3. f[1] = packet.data[1]
      <4>1. packet.data \in Seq(Byte) /\ Len(packet.data) = 3
        BY <1>1, ThreeBytes
      <4>2. f = Append(packet.data, Crc8(packet.data))
        BY <1>3 DEF FrameOf
      <4> HIDE DEF f
      <4> QED BY <4>1, <4>2, CrcTyped, Appended
    <3> DEFINE first(bs) == [j \in 1 .. 8 |-> bs[8 * (1 - 1) + j]]
    <3>4. ASSUME NEW bs, Len(bs) = 32 \/ Len(bs) = 40
          PROVE  BytesOf(bs)[1] = ByteOf(first(bs))
      <4>1. 1 \in 1 .. Len(bs) \div 8
        <5>1. \A n \in {32, 40} : 1 \in 1 .. n \div 8
          OBVIOUS
        <5> QED BY ONLY <3>4, <5>1
      <4> HIDE DEF first
      <4> QED BY <4>1 DEF BytesOf, first
    <3>5. first(bits) = first(BitsOf(f))
      <4>1. ASSUME NEW j \in 1 .. 8 PROVE bits[8 * (1 - 1) + j] = BitsOf(f)[8 * (1 - 1) + j]
        <5>1. 8 * (1 - 1) + j = j
          OBVIOUS
        <5> QED BY <2>1, <3>2, <5>1
      <4> QED BY <4>1
    <3>6. buf[1] = ByteOf(first(bits)) /\ f[1] = ByteOf(first(BitsOf(f)))
      <4>1. Len(bits) = 40
        BY <2>2 DEF PairingLen
      <4> HIDE DEF first, f
      <4> QED BY <3>1, <3>4, <4>1
    <3> HIDE DEF first, f, buf
    <3> QED BY <1>3, <3>3, <3>5, <3>6
  <2>3. BytesOf(bits) = buf
    OBVIOUS
  <2> HIDE DEF buf
  <2>4. Reported(bits) = <<>>
    BY ONLY <2>1, <2>2, <2>3 DEF Reported
  <2> QED BY <1>3, <2>4
<1> QED BY <1>1, <1>2, <1>3

\* What has been heard stays heard while more is sent.
LEMMA StillHeard ==
  ASSUME NEW n \in 0 .. Len(sent), HeardUpTo(n), reports' = reports, IrTypeOK,
         sent' = sent \/ \E packet \in Packets : sent' = Append(sent, packet)
  PROVE  HeardUpTo(n)'
<1>1. PICK burst \in [DOMAIN reports -> 1 .. n] :
        /\ \A i \in DOMAIN reports : reports[i] = sent[burst[i]]
        /\ \A i, j \in DOMAIN reports : i < j => burst[i] < burst[j]
  BY DEF HeardUpTo
<1>2. sent \in Seq(Packets) /\ Len(sent) \in Nat
  BY LenProperties DEF IrTypeOK
<1>3. ASSUME NEW k \in 1 .. n PROVE sent'[k] = sent[k]
  BY <1>2, AppendProperties
<1>4. \A i \in DOMAIN reports : reports[i] = sent'[burst[i]]
  BY <1>1, <1>3
<1> QED BY <1>1, <1>4 DEF HeardUpTo

\* A report of a burst after those that have been heard.
LEMMA HeardNext ==
  ASSUME NEW n \in 1 .. Len(sent), HeardUpTo(n - 1), IrTypeOK, sent' = sent,
         reports' = reports \o <<sent[n]>>
  PROVE  HeardUpTo(Len(sent))'
<1> DEFINE Heard == [kind : {"hit", "pairing"}, data : Seq(Byte)]
<1>1. PICK burst \in [DOMAIN reports -> 1 .. n - 1] :
        /\ \A i \in DOMAIN reports : reports[i] = sent[burst[i]]
        /\ \A i, j \in DOMAIN reports : i < j => burst[i] < burst[j]
  BY DEF HeardUpTo
<1>2. sent \in Seq(Packets) /\ Len(sent) \in Nat /\ reports \in Seq(Heard)
      /\ Len(reports) \in Nat /\ DOMAIN reports = 1 .. Len(reports)
  BY LenProperties DEF IrTypeOK
<1>3. sent[n] \in Heard
  <2>1. sent[n] \in Packets
    BY <1>2, ElementOfSeq
  <2>2. /\ sent[n] = [kind |-> sent[n].kind, data |-> sent[n].data]
        /\ sent[n].kind \in {"hit", "pairing"} /\ sent[n].data \in [1 .. 3 -> Byte]
    BY <2>1, PacketAssumption
  <2>3. sent[n].data \in Seq(Byte)
    BY <2>2, ThreeBytes
  <2> QED BY <2>2, <2>3
<1> HIDE DEF Heard
<1>4. reports' = Append(reports, sent[n])
  BY <1>2, <1>3, AppendIsConcat
<1>5. /\ DOMAIN reports' = 1 .. Len(reports) + 1
      /\ reports'[Len(reports) + 1] = sent[n]
      /\ \A i \in 1 .. Len(reports) : reports'[i] = reports[i]
  BY <1>2, <1>3, <1>4, AppendProperties
<1> DEFINE longer == [i \in DOMAIN reports' |-> IF i <= Len(reports) THEN burst[i] ELSE n]
<1>6. longer \in [DOMAIN reports' -> 1 .. Len(sent)]
  BY <1>1, <1>2, <1>5
<1>7. \A i \in DOMAIN reports' : reports'[i] = sent[longer[i]]
  BY <1>1, <1>2, <1>5
<1>8. \A i, j \in DOMAIN reports' : i < j => longer[i] < longer[j]
  <2>1. SUFFICES ASSUME NEW i \in DOMAIN reports', NEW j \in DOMAIN reports', i < j
                 PROVE  longer[i] < longer[j]
    OBVIOUS
  <2>2. CASE j <= Len(reports)
    BY <1>1, <1>2, <1>5, <2>1, <2>2
  <2>3. CASE j > Len(reports)
    <3>1. i \in 1 .. Len(reports) /\ longer[i] = burst[i] /\ longer[j] = n
      BY <1>2, <1>5, <2>1, <2>3
    <3>2. burst[i] \in 1 .. n - 1
      BY <1>1, <1>2, <3>1
    <3> QED BY <3>1, <3>2
  <2> QED BY <1>2, <1>5, <2>2, <2>3
<1> HIDE DEF longer
<1> QED BY <1>6, <1>7, <1>8 DEF HeardUpTo

\* Fewer bursts account for what more of them do not.
LEMMA HeardWithin ==
  ASSUME NEW n \in Nat, NEW m \in Nat, n <= m, HeardUpTo(n) PROVE HeardUpTo(m)
<1>1. PICK burst \in [DOMAIN reports -> 1 .. n] :
        /\ \A i \in DOMAIN reports : reports[i] = sent[burst[i]]
        /\ \A i, j \in DOMAIN reports : i < j => burst[i] < burst[j]
  BY DEF HeardUpTo
<1>2. burst \in [DOMAIN reports -> 1 .. m]
  OBVIOUS
<1> QED BY <1>1, <1>2 DEF HeardUpTo

\* Another pulse leaves a joined frame what it is.
LEMMA JoinedGoesOn ==
  ASSUME IrTypeOK, Joined, pos > 1, NEW width \in {MarkTime, 2 * MarkTime},
         Sees(Pulse(Now, gap, width)), reports' = reports,
         sent' = sent \/ \E packet \in Packets : sent' = Append(sent, packet),
         pos' = 0 \/ (pos' > 1 /\ gap' \in {SpaceTime(0), SpaceTime(1)})
  PROVE  Joined'
<1>1. PICK first \in 1 .. Len(sent) : HeardUpTo(first - 1) /\ Overrun(sent[first])
  BY DEF Joined
<1>2. /\ sent \in Seq(Packets) /\ Len(sent) \in Nat /\ sent[first] \in Packets
      /\ bits \in Seq(Bit) /\ Len(bits) \in Nat
  BY LenProperties, ElementOfSeq DEF IrTypeOK
<1>3. first \in 1 .. Len(sent') /\ sent'[first] = sent[first]
  BY <1>2, AppendProperties
<1>4. HeardUpTo(first - 1)'
  <2>1. first - 1 \in 0 .. Len(sent)
    BY <1>2
  <2> QED BY <1>1, <2>1, StillHeard
<1>5. PICK v \in Bit : gap = SpaceTime(v)
  BY DEF Joined, Bit
<1>6. state' = "SPACE" /\ bits' = StoreBit(bits, v)
  <2>1. Now = [state |-> "SPACE", bits |-> bits]
    BY DEF Joined, Now
  <2>2. Pulse([state |-> "SPACE", bits |-> bits], SpaceTime(v), width)
          = [state |-> "SPACE", bits |-> StoreBit(bits, v)]
    BY <1>2, PulseBit
  <2> QED BY <1>5, <2>1, <2>2 DEF Sees
<1> DEFINE packet == sent[first]
<1>7. Overrun(packet)'
  <2>1. CASE packet.kind = "pairing" /\ bits = Wire[packet]
    <3>1. Len(bits) = 8 * BufMax
      BY <1>2, <2>1, WireTyped DEF BufMax
    <3>2. bits' = bits
      BY <1>6, <3>1 DEF StoreBit, BufMax, PairingLen
    <3> QED BY <1>3, <2>1, <3>2 DEF Overrun
  <2>2. CASE /\ packet.kind = "hit" /\ Len(bits) >= 8 * HitLen
             /\ \A j \in 1 .. 8 : bits[j] = Wire[packet][j]
    <3>1. Len(bits') > 8 * HitLen /\ \A j \in 1 .. 8 : bits'[j] = bits[j]
      <4>1. CASE Len(bits) >= 8 * BufMax
        <5>1. bits' = bits
          BY <1>6, <4>1 DEF StoreBit
        <5> QED BY <1>2, <4>1, <5>1 DEF BufMax, PairingLen, HitLen
      <4>2. CASE Len(bits) < 8 * BufMax
        <5>1. bits' = Append(bits, v)
          BY <1>2, <1>6, <4>2 DEF StoreBit, BufMax, PairingLen
        <5>2. Len(bits') = Len(bits) + 1 /\ \A j \in 1 .. Len(bits) : bits'[j] = bits[j]
          BY <1>2, <5>1, AppendProperties
        <5>3. \A j \in 1 .. 8 : bits'[j] = bits[j]
          <6>1. \A j \in 1 .. 8 : j \in 1 .. Len(bits)
            BY <1>2, <2>2 DEF HitLen
          <6> QED BY ONLY <5>2, <6>1
        <5>4. \A n \in Nat : n >= 8 * HitLen => n + 1 > 8 * HitLen
          BY DEF HitLen
        <5> QED BY ONLY <1>2, <2>2, <5>2, <5>3, <5>4
      <4> QED BY <1>2, <4>1, <4>2 DEF BufMax, PairingLen
    <3>2. Len(bits') >= 8 * HitLen /\ Len(bits') # 8 * HitLen
      <4>1. Len(bits') \in Nat
        <5>1. bits' \in Seq(Bit)
          <6>1. Append(bits, v) \in Seq(Bit)
            BY <1>2, AppendProperties
          <6> QED BY <1>2, <1>6, <6>1 DEF StoreBit
        <5> QED BY <5>1, LenProperties
      <4>2. \A n \in Nat : n > 8 * HitLen => n >= 8 * HitLen /\ n # 8 * HitLen
        BY DEF HitLen
      <4> QED BY ONLY <3>1, <4>1, <4>2
    <3> QED BY <1>3, <2>2, <3>1, <3>2 DEF Overrun
  <2> QED BY <1>1, <2>1, <2>2 DEF Overrun
<1> QED BY <1>3, <1>4, <1>6, <1>7 DEF Joined

LEMMA InOrderStep ==
  ASSUME Undisturbed, IrTypeOK, HearingInv, InOrderInv, [IrNext]_irVars
  PROVE  InOrderInv'
<1>1. /\ Listening /\ Sending /\ HearsClean
      /\ sent \in Seq(Packets) /\ Len(sent) \in Nat /\ pos \in Nat /\ bits \in Seq(Bit)
  BY LenProperties DEF HearingInv, IrTypeOK, PairingLen
<1>2. ~(faults < MaxFaults)
  BY DEF Undisturbed, IrTypeOK
<1>3. ASSUME sent # <<>> PROVE Len(sent) - 1 \in 0 .. Len(sent) /\ Len(sent) \in 1 .. Len(sent)
  BY <1>1, <1>3, EmptySeq
<1>4. ASSUME NEW n \in Nat, n = Len(sent'), HeardUpTo(n)' PROVE HeardUpTo(Len(sent))'
  BY <1>4 DEF HeardUpTo
<1>5. ASSUME NEW n \in Nat, n = Len(sent') - 1, HeardUpTo(n)' PROVE HeardUpTo(Len(sent) - 1)'
  BY <1>5 DEF HeardUpTo
<1>6. PICK last \in Nat : last = Len(sent)
  BY <1>1
<1>7. PICK before : before = Len(sent) - 1
  OBVIOUS
<1>8. ASSUME NEW packet \in Packets, Begin(packet) PROVE InOrderInv'
  <2>1. /\ pos = 0 /\ gap >= Polled /\ reports' = reports
        /\ pos' = 1 /\ sent' = Append(sent, packet) /\ clean'
    BY <1>2, <1>8 DEF Begin
  <2>2. HeardUpTo(last)
    BY <1>1, <1>6, <2>1 DEF Listening, InOrderInv
  <2>3. HeardUpTo(last)'
    BY <1>6, <2>1, <2>2, StillHeard
  <2>4. last = Len(sent') - 1
    BY <1>1, <1>6, <2>1, AppendProperties
  <2> QED BY <1>5, <2>1, <2>3, <2>4 DEF InOrderInv
<1>9. ASSUME clean, pos > 0 PROVE HeardUpTo(before) /\ before \in 0 .. Len(sent) /\ before \in Nat
  BY <1>1, <1>3, <1>7, <1>9 DEF InOrderInv, HearsClean
<1>10. ASSUME ~clean, pos > 0 PROVE Joined /\ pos > 1
  BY <1>1, <1>10 DEF InOrderInv, Joined
<1>11. ASSUME NEW packet \in Packets, Chain(packet) PROVE InOrderInv'
  <2>1. /\ pos > 0 /\ AtStop /\ reports' = reports
        /\ sent' = sent \/ sent' = Append(sent, packet)
        /\ clean' => clean /\ sent' = sent
        /\ Sees(Pulse(Now, gap, 2 * MarkTime))
        /\ pos' = 2 /\ gap' = SpaceTime(Wire[packet][1])
    BY <1>11 DEF Chain
  <2>2. gap' \in {SpaceTime(0), SpaceTime(1)}
    BY <2>1 DEF SpaceTime
  <2>3. CASE clean'
    <3>1. HeardUpTo(before)' /\ before \in Nat /\ before = Len(sent') - 1
      BY <1>7, <1>9, <2>1, <2>3, StillHeard
    <3> QED BY <1>5, <2>1, <2>3, <3>1 DEF InOrderInv
  <2>4. CASE ~clean
    <3>1. Joined'
      BY <1>10, <2>1, <2>2, <2>4, JoinedGoesOn
    <3> QED BY <2>1, <2>4, <3>1 DEF InOrderInv
  <2>5. CASE clean /\ ~clean'
    <3>1. /\ sent # <<>> /\ Frame \in Seq(Bit) /\ Len(Frame) \in {32, 40}
          /\ LastSent \in Packets
          /\ LastSent.kind = "hit" => Len(Frame) = 8 * HitLen
      BY <1>1, <2>1, SendingFacts, FrameFacts, WireTyped DEF HitLen, PairingLen, Frame
    <3>2. pos > 1 /\ pos - 1 = Len(Frame)
      <4>1. pos = Len(Frame) + 1
        BY <2>1 DEF AtStop
      <4>2. PICK n \in {32, 40} : Len(Frame) = n
        BY <3>1
      <4>3. pos = n + 1
        BY ONLY <4>1, <4>2
      <4>4. pos > 1 /\ pos - 1 = n
        BY ONLY <4>3, n \in {32, 40}
      <4> QED BY ONLY <4>2, <4>4
    <3>3. state' = "SPACE" /\ bits' = Frame
      <4>1. state' = "SPACE" /\ (bits' = SubSeq(Frame, 1, Len(Frame)) \/ bits' = Frame)
        BY <1>1, <2>1, <2>5, <3>2, HearsBit
      <4> QED BY <3>1, <4>1, SubSeqFull
    <3>4. last \in 1 .. Len(sent') /\ sent'[last] = LastSent
      BY <1>1, <1>3, <1>6, <2>1, <3>1, AppendProperties DEF LastSent
    <3>5. HeardUpTo(last - 1)'
      <4>1. HeardUpTo(before)' /\ before = last - 1
        BY <1>6, <1>7, <1>9, <2>1, <2>5, StillHeard
      <4> QED BY <4>1
    <3>6. Overrun(sent[last])'
      <4>1. LastSent.kind \in {"hit", "pairing"}
        BY <3>1, PacketAssumption
      <4>2. bits' = Wire[LastSent]
        BY <3>3 DEF Frame
      <4>3. CASE LastSent.kind = "hit"
        <5>1. Len(bits') >= 8 * HitLen
          <6>1. Len(bits') = 8 * HitLen
            BY ONLY <3>1, <3>3, <4>3
          <6> QED BY <6>1 DEF HitLen
        <5> QED BY <2>1, <3>4, <4>2, <4>3, <5>1 DEF Overrun
      <4>4. CASE LastSent.kind = "pairing"
        BY <3>4, <4>2, <4>4 DEF Overrun
      <4> QED BY <4>1, <4>3, <4>4
    <3>7. Joined'
      BY <2>1, <2>2, <3>3, <3>4, <3>5, <3>6 DEF Joined
    <3> QED BY <2>1, <2>5, <3>7 DEF InOrderInv
  <2> QED BY <2>3, <2>4, <2>5
<1>12. ASSUME SendPulse PROVE InOrderInv'
  <2>1. /\ pos > 0 /\ Sees(Pulse(Now, gap, MarkTime)) /\ Advance(0)
        /\ sent' = sent /\ reports' = reports /\ clean' = clean
    BY <1>12 DEF SendPulse
  <2>2. CASE clean
    <3>1. state' = "SPACE"
      <4>1. CASE pos > 1
        BY <1>1, <2>1, <2>2, <4>1, HearsBit
      <4>2. CASE pos = 1
        <5>1. Now.state = "IDLE"
          BY <1>1, <2>2, <4>2 DEF HearsClean, Now
        <5> QED BY <2>1, <4>2, <5>1, PulseFirst DEF Sees
      <4> QED BY <1>1, <2>1, <4>1, <4>2
    <3>2. HeardUpTo(before)' /\ before \in Nat /\ before = Len(sent') - 1
      BY <1>7, <1>9, <2>1, <2>2, StillHeard
    <3> QED BY <1>5, <2>1, <2>2, <3>1, <3>2 DEF InOrderInv
  <2>3. CASE ~clean
    <3>1. pos' = 0 \/ (pos' > 1 /\ gap' \in {SpaceTime(0), SpaceTime(1)})
      <4>1. CASE AtStop
        BY <2>1, <4>1 DEF Advance
      <4>2. CASE ~AtStop
        <5>1. pos' = pos + 1 /\ gap' = SpaceTime(Frame[pos]) - 0
          BY <2>1, <4>2 DEF Advance
        <5>2. SpaceTime(Frame[pos]) \in {10, 30}
          BY <1>1, <2>1, <4>2, SendingFacts
        <5>3. SpaceTime(0) = 10 /\ SpaceTime(1) = 30
          BY DEF SpaceTime
        <5> QED BY <1>1, <1>10, <2>1, <2>3, <5>1, <5>2, <5>3
      <4> QED BY <4>1, <4>2
    <3>2. Joined'
      BY <1>10, <2>1, <2>3, <3>1, JoinedGoesOn
    <3>3. ~(pos' = 0 /\ state' = "IDLE")
      BY <3>2 DEF Joined
    <3> QED BY <2>1, <2>3, <3>2, <3>3 DEF InOrderInv
  <2> QED BY <2>2, <2>3
<1>13. ASSUME LatePulse \/ EarlyPulse \/ LostPulse \/ Noise PROVE FALSE
  BY <1>2, <1>13 DEF LatePulse, EarlyPulse, LostPulse, Noise, Harmed
<1>14. ASSUME Quiet PROVE InOrderInv'
  BY <1>14 DEF Quiet, receiver, InOrderInv, HeardUpTo, Joined, Overrun
<1>15. ASSUME Poll PROVE InOrderInv'
  <2>1. /\ state = "SPACE" /\ gap > EndOfFrame
        /\ reports' = reports \o Reported(bits) /\ state' = "IDLE"
        /\ pos' = pos /\ gap' = gap /\ sent' = sent /\ clean' = clean
    BY <1>15 DEF Poll
  <2>2. pos = 0
    <3>1. CASE clean
      BY <1>1, <2>1, <3>1, PollsSilence
    <3>2. CASE ~clean
      BY <2>1, <3>2 DEF InOrderInv, Joined, SpaceTime, EndOfFrame
    <3> QED BY <3>1, <3>2
  <2>3. HeardUpTo(Len(sent))'
    <3>1. CASE clean
      <4>1. sent # <<>> /\ bits = Frame
        BY <1>1, <2>1, <2>2, <3>1 DEF HearsClean, HasFrame
      <4>2. reports' = reports \o <<sent[last]>>
        BY <1>6, <2>1, <4>1, FrameFacts DEF LastSent
      <4>3. last \in 1 .. Len(sent) /\ HeardUpTo(last - 1)
        BY <1>1, <1>3, <1>6, <2>1, <3>1, <4>1 DEF InOrderInv
      <4> QED BY <2>1, <4>2, <4>3, HeardNext
    <3>2. CASE ~clean
      <4>1. PICK first \in 1 .. Len(sent) : HeardUpTo(first - 1) /\ Overrun(sent[first])
        BY <2>1, <3>2 DEF InOrderInv, Joined
      <4>2. /\ sent[first] \in Packets
            /\ sent[first].kind = "hit" => sent[first].data[1] # Preamble
        BY <1>1, <4>1, ElementOfSeq DEF Undisturbed
      <4>3. Reported(bits) = IF sent[first].kind = "hit" THEN <<>> ELSE <<sent[first]>>
        BY <1>1, <2>2, <4>1, <4>2, OverrunReported
      <4>4. CASE sent[first].kind = "hit"
        <5>1. reports' = reports
          BY <2>1, <4>3, <4>4, ConcatEmptySeq DEF IrTypeOK
        <5>2. first - 1 \in Nat /\ first - 1 <= last /\ last \in 0 .. Len(sent)
          BY <1>1, <1>6, <4>1
        <5>3. HeardUpTo(last)'
          <6>1. HeardUpTo(last)
            BY <4>1, <5>2, HeardWithin
          <6> QED BY <2>1, <5>1, <5>2, <6>1, StillHeard
        <5> QED BY <1>4, <1>6, <2>1, <5>3
      <4>5. CASE sent[first].kind # "hit"
        <5>1. reports' = reports \o <<sent[first]>>
          BY <2>1, <4>3, <4>5
        <5> QED BY <2>1, <4>1, <5>1, HeardNext
      <4> QED BY <4>4, <4>5
    <3> QED BY <3>1, <3>2
  <2> QED BY <2>1, <2>2, <2>3 DEF InOrderInv
<1>16. CASE UNCHANGED irVars
  <2>1. /\ pos' = pos /\ gap' = gap /\ state' = state /\ bits' = bits /\ sent' = sent
        /\ reports' = reports /\ clean' = clean
    BY <1>16 DEF irVars, receiver
  <2>2. ASSUME NEW n, HeardUpTo(n) PROVE HeardUpTo(n)'
    BY <2>1, <2>2 DEF HeardUpTo
  <2>4. HeardUpTo(Len(sent)) => HeardUpTo(Len(sent))'
    BY <2>1 DEF HeardUpTo
  <2>5. HeardUpTo(Len(sent) - 1) => HeardUpTo(Len(sent) - 1)'
    BY <2>1 DEF HeardUpTo
  <2>3. ASSUME Joined PROVE Joined'
    <3>1. PICK first \in 1 .. Len(sent) : HeardUpTo(first - 1) /\ Overrun(sent[first])
      BY <2>3 DEF Joined
    <3>2. HeardUpTo(first - 1)'
      BY <2>2, <3>1
    <3>3. Overrun(sent[first])'
      BY <2>1, <3>1 DEF Overrun
    <3> QED BY <2>1, <2>3, <3>2, <3>3 DEF Joined
  <2> QED BY <2>1, <2>3, <2>4, <2>5 DEF InOrderInv
<1> QED BY <1>8, <1>11, <1>12, <1>13, <1>14, <1>15, <1>16 DEF IrNext

\* Over a link that nothing disturbs, the vest is told only of packets that were
\* sent, of each once and in their order, whatever bursts are joined to one
\* another: for every packet but the hits of a player whose number begins a
\* pairing frame.
THEOREM IrHeardInOrder == ASSUME Undisturbed PROVE IrSpec => []HeardInOrder
<1> DEFINE Inv == IrTypeOK /\ HearingInv
<1>1. IrInit => InOrderInv
  <2> SUFFICES ASSUME IrInit PROVE HeardUpTo(Len(sent))
    BY DEF IrInit, InOrderInv
  <2>1. DOMAIN reports = {} /\ Len(sent) = 0
    BY DEF IrInit
  <2>2. [i \in {} |-> 0] \in [{} -> 1 .. 0]
    OBVIOUS
  <2> QED BY <2>1, <2>2 DEF HeardUpTo
<1>2. Inv /\ InOrderInv /\ [IrNext]_irVars => InOrderInv'
  BY InOrderStep
<1>3. Inv /\ InOrderInv => HeardInOrder
  <2> SUFFICES ASSUME IrTypeOK, HearingInv, InOrderInv PROVE HeardInOrder
    OBVIOUS
  <2>1. sent \in Seq(Packets) /\ Len(sent) \in Nat /\ DOMAIN sent = 1 .. Len(sent)
    BY LenProperties DEF IrTypeOK
  <2>2. PICK n \in 0 .. Len(sent) : HeardUpTo(n)
    <3>1. CASE pos = 0 /\ state = "IDLE"
      BY <2>1, <3>1 DEF InOrderInv
    <3>2. CASE ~(pos = 0 /\ state = "IDLE") /\ clean
      <4>1. sent # <<>>
        BY <3>2 DEF HearingInv, HearsClean
      <4>2. Len(sent) - 1 \in 0 .. Len(sent)
        BY <2>1, <4>1, EmptySeq
      <4> QED BY <3>2, <4>2 DEF InOrderInv
    <3>3. CASE ~(pos = 0 /\ state = "IDLE") /\ ~clean
      <4>1. PICK first \in 1 .. Len(sent) : HeardUpTo(first - 1)
        BY <3>3 DEF InOrderInv, Joined
      <4>2. first - 1 \in 0 .. Len(sent)
        BY <2>1
      <4> QED BY <4>1, <4>2
    <3> QED BY <3>1, <3>2, <3>3
  <2>3. HeardUpTo(Len(sent))
    <3>1. n \in Nat /\ n <= Len(sent)
      BY <2>1, <2>2
    <3> QED BY <2>1, <2>2, <3>1, HeardWithin
  <2> QED BY <2>1, <2>3 DEF HeardUpTo, HeardInOrder
<1>4. IrSpec => []Inv
  BY HearingHolds
<1> HIDE DEF Inv
<1> QED BY <1>1, <1>2, <1>3, <1>4, PTL DEF IrSpec
=============================================================================
