\* main_enc.cpp:165 against a main that sleeps while the reader comes round.
SPECIFICATION Spec
CONSTANTS
  kBufSize = 5
  Gaps <- MCOneGap
  Curve = 3
  MaxSamples = 7
INVARIANT MostRecent
