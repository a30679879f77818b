CONSTANTS
  Mss = 1
  MaxTailR = 3
  MaxTailW = 2
  LowMark = 1
  MaxErr = 1
  SeqSpace = 64
  LongSpace = 64
  Client = cl
  Server = sv
  Total <- ClientOnly
  Isn = {10}
  Routed = TRUE
  MaxNet = 5
  MaxLoss = 0
  Steady = FALSE
  Hasty = TRUE
  Waits = {}
  Eager = FALSE
SPECIFICATION Spec
INVARIANTS
  StreamIntact
