--------------------------- MODULE VestClientProofs ---------------------------
(* Proofs about VestClient: the scanner the vest client and the pump share. *)
EXTENDS VestClient, MeshTxProofs

\* The pump that finds a broadcast on the air gives up and leaves the scanner
\* off: that a broadcast on the air is about to end makes ScannerAccounted
\* inductive.
SharedScannerInv == PumpInv /\ ScannerAccounted

LEMMA SharedScannerInit == RadioInit => SharedScannerInv
  BY PumpInvInit DEF RadioInit, TxInit, SharedScannerInv, ScannerAccounted

\* A step of the pump or of a producer, which the vest client does not see.
LEMMA TxKeepsSharedScanner ==
  ASSUME SharedScannerInv, TxNext, UNCHANGED vcVars
  PROVE  SharedScannerInv'
<1>1. PumpInv'
  BY PumpInvStep DEF SharedScannerInv
<1> SUFFICES ScannerAccounted'
  BY <1>1 DEF SharedScannerInv
<1>2. OneOnAir /\ ScannerAccounted
  BY DEF SharedScannerInv, PumpInv
<1> USE <1>2 DEF pumpVars, repeatVars, relayVars, vcVars, OneOnAir, ScannerAccounted,
                 PumpComing, Ending
<1>3. ASSUME NEW count \in RepeatCounts, BroadcastWithRepeat(count) PROVE ScannerAccounted'
  BY <1>3 DEF BroadcastWithRepeat, DoCodedBroadcast
<1>4. CASE RepeatWork
  BY <1>4 DEF RepeatWork, DoCodedBroadcast
<1>5. CASE RelayMessage
  BY <1>5 DEF RelayMessage
<1>6. CASE RelayWork
  BY <1>6 DEF RelayWork, DoCodedBroadcast
<1>7. CASE Pump
  <2>1. CASE PumpBegins
    BY <2>1 DEF PumpBegins, StartScanner
  <2>2. CASE PumpStartsBroadcast
    BY <2>2 DEF PumpStartsBroadcast
  <2>3. CASE PumpFails
    BY <2>3 DEF PumpFails, StartScanner
  <2> QED BY <1>7, <2>1, <2>2, <2>3 DEF Pump
<1>8. CASE StopAdv
  <2>1. CASE StopBegins
    BY <2>1 DEF StopBegins
  <2>2. CASE StopEnds
    BY <2>2 DEF StopEnds
  <2> QED BY <1>8, <2>1, <2>2 DEF StopAdv
<1> QED BY <1>3, <1>4, <1>5, <1>6, <1>7, <1>8 DEF TxNext

LEMMA SharedScannerStep == SharedScannerInv /\ [VcNext]_radioVars => SharedScannerInv'
<1> SUFFICES ASSUME SharedScannerInv, [VcNext]_radioVars PROVE SharedScannerInv'
  OBVIOUS
<1>1. CASE TxNext /\ UNCHANGED vcVars
  BY <1>1, TxKeepsSharedScanner
<1> USE DEF SharedScannerInv, PumpInv, NoLostWakeup, OneOnAir, ScannerAccounted,
            PumpComing, Ending, OnlyScanner, txVars, pumpVars
<1>2. CASE VestFound
  BY <1>2 DEF VestFound
<1>3. CASE Connecting
  <2>1. CASE CreatesConnection
    BY <2>1 DEF CreatesConnection
  <2>2. CASE CreateFails
    BY <2>2 DEF CreateFails, StartScanner
  <2>3. CASE VestLinked
    BY <2>3 DEF VestLinked
  <2>4. CASE VestLinkFails
    BY <2>4 DEF VestLinkFails, StartScanner
  <2> QED BY <1>3, <2>1, <2>2, <2>3, <2>4 DEF Connecting
<1>4. CASE Discovery
  <2>1. CASE DiscoveryDone
    BY <2>1 DEF DiscoveryDone
  <2>2. CASE DiscoveryFails
    BY <2>2 DEF DiscoveryFails
  <2> QED BY <1>4, <2>1, <2>2 DEF Discovery
<1>5. CASE ReadyWork
  BY <1>5 DEF ReadyWork, StartScanner
<1>6. CASE VestDisconnects
  BY <1>6 DEF VestDisconnects, StartScanner
<1>7. CASE UNCHANGED radioVars
  BY <1>7 DEF radioVars, vcVars
<1> QED BY <1>1, <1>2, <1>3, <1>4, <1>5, <1>6, <1>7 DEF VcNext

LEMMA SharedScannerHolds == VcSpec => []SharedScannerInv
<1>1. RadioInit => SharedScannerInv
  BY SharedScannerInit
<1>2. SharedScannerInv /\ [VcNext]_radioVars => SharedScannerInv'
  BY SharedScannerStep
<1> QED BY <1>1, <1>2, PTL DEF VcSpec

\* Whoever stopped the scanner, and whatever the other did since, something
\* that turns it on again is under way, or the vest could not be discovered.
THEOREM ScannerSafe == VcSpec => []ScannerAccounted
<1>1. SharedScannerInv => ScannerAccounted
  BY DEF SharedScannerInv
<1> QED BY <1>1, SharedScannerHolds, PTL

\* With the vest client's threads at work too, no frame is forgotten in the
\* queue.
THEOREM FramesPumped == VcSpec => []NoLostWakeup
<1>1. SharedScannerInv => NoLostWakeup
  BY DEF SharedScannerInv, PumpInv
<1> QED BY <1>1, SharedScannerHolds, PTL

\* Nor do broadcasts overlap.
THEOREM BroadcastsApart == VcSpec => []OneOnAir
<1>1. SharedScannerInv => OneOnAir
  BY DEF SharedScannerInv, PumpInv
<1> QED BY <1>1, SharedScannerHolds, PTL
=============================================================================
