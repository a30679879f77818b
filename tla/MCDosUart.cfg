CONSTANTS
  RSize = 5
  TSize = 2
  LowWater = 1
  HighWater = 3
  Overshoot = 1
  Burst = 1
  Bytes <- MCBytes
SPECIFICATION FairSpec
INVARIANT UartSound
PROPERTY ImplementsSerialLine
PROPERTY TxDrains
PROPERTY RtsReleased
