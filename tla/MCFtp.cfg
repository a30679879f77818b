\* Files of two blocks, lists of two names; a server that begins with 150.
CONSTANTS
  Size = 2
  Begins <- MCBegins
SPECIFICATION FtpFairSpec
INVARIANT FtpSound
INVARIANT InStep
PROPERTY FileWhole
PROPERTY ComesBack
