CONSTANTS
  NBuf = 3
  Gateway = 1
  Others <- MCOthers
  Lens <- MCLens
  Tries = 2
  Polls = 2
  RamFails = TRUE
SPECIFICATION FairSpec
CHECK_DEADLOCK FALSE
INVARIANT ArcnetSound
PROPERTY RxPageKept
PROPERTY TxPageKept
PROPERTY GatewayKept
PROPERTY NeverDeaf
PROPERTY EverySent
