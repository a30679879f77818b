\* Segments are lost, numbers wrap from handshake to data, the server waits for the end of the stream.
CONSTANTS
  Mss = 1
  MaxTailR = 3
  MaxTailW = 1
  LowMark = 1
  MaxErr = 3
  SeqSpace = 8
  LongSpace = 8
  Client = cl
  Server = sv
  Total <- BothWays
  Isn = {6}
  Routed = FALSE
  MaxNet = 4
  MaxLoss = 2
  Steady = TRUE
  Hasty = FALSE
  Waits = {sv}
  Eager = FALSE
SPECIFICATION FairSpec
PROPERTIES
  AllTaken
  FinGetsThrough
