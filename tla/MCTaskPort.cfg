CONSTANTS
  Apps <- MCApps
  Ops <- MCOps
SPECIFICATION FairSpec
INVARIANT MessagesSound
INVARIANT OwnReply
PROPERTY CallsReturn
