CONSTANTS
  Ring = 12
  Header = 2
  Overhead = 3
  Lengths <- MCLengths
  Names <- MCNames
  MaxTries = 2
  MaxNet = 3
SPECIFICATION MCSpec
INVARIANT DatagramsSound
INVARIANT LookupSound
INVARIANT AnswerBelongs
PROPERTY ImplementsDatagrams
PROPERTY LookupEnds
