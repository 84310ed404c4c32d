CONSTANTS
  Packets <- MCPackets
  Shifts = {5, 9}
  Early = {6}
  Pauses = {10, 30, 60, 101, 201}
  MaxSent = 3
  MaxFaults = 1
SPECIFICATION IrSpec
INVARIANTS IrTypeOK HeardInOrder NextFrameHeard
