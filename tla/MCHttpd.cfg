\* The web server with two sockets and two streams.
CONSTANTS
  MaxStreams = 2
  Children <- MCChildren
  Limit = 1
  Blocks = 1
  Asked = {"get", "other"}
SPECIFICATION FairSpec
INVARIANT StreamsSound
PROPERTY StreamsEnd
