CONSTANTS
  NSlot = 3
  MaxBacklog = 2
  MaxHeld = 2
  Datagrams = TRUE
  MayFail = TRUE
SPECIFICATION Spec
INVARIANTS
  TableSound
  NoWildWrite
