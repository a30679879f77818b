CONSTANTS
  Ring = 5
  LowMark = 2
  InitWin = 3
  MaxByte = 11
  Probes = FALSE
  Writes = TRUE
SPECIFICATION FairSpec
INVARIANTS
  Consistent
PROPERTIES
  EdgeNeverRecedes
  ImplementsByteQueue
  ReaderIsHeard
