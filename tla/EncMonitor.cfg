\* A ring of five; main may sleep while the reader comes round it; SIGINT at
\* any moment.
SPECIFICATION FairSpec
CONSTANTS
  kBufSize = 5
  Gaps <- MCGaps
  Curve = 3
  MaxSamples = 7
INVARIANTS
  WindowWhole
  AccelerationExact
  ReaderOutlived
PROPERTY Termination
