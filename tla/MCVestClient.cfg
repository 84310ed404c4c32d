CONSTANTS
  TxQueueSize = 2
  RepeatCounts = {1, 3}
  MaxFrames = 3
SPECIFICATION VcSpec
INVARIANTS
  TxTypeOK
  NoLostWakeup
  OneOnAir
  ScannerAccounted
PROPERTIES
  EveryFrameLeaves
  HearsAgain
