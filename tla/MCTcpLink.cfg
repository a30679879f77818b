CONSTANTS
  Mss = 1
  MaxTailR = 3
  MaxTailW = 3
  LowMark = 1
  MaxErr = 1
  SeqSpace = 64
  LongSpace = 64
  Client = cl
  Server = sv
  Total <- ClientMore
  Isn = {10}
  Routed = FALSE
  MaxNet = 4
  MaxLoss = 2
  Steady = FALSE
  Hasty = FALSE
  Waits = {}
  Eager = TRUE
SPECIFICATION Spec
INVARIANTS
  SocketSound
  StreamIntact
  AckedWasTaken
PROPERTIES
  ReadInOrder
