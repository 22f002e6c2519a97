\* Noisy samples at equal gaps, the filter reset now and then; both rings go
\* round.  A position of three bits, so that its sign matters.  Two objects one
\* behind the other, any rows missing.  Every damage within 16 bits of a frame of
\* three bytes.
SPECIFICATION SeqSpec
CONSTANTS
  Width = 3
  Motions <- MCMotions
  Noise <- MCNoise
  Gaps <- MCUniform
  MaxFeeds = 8
  WindowSize = 5
  Threshold = 4
  DeadBand = 1
  Positions <- MCPositions
  MaxPositions = 7
  Objects = 2
  MaxTicks = 8
  Bytes <- MCBytes
  Errors <- MCErrors
  Burst = 16
  MaxLen = 3
CHECK_DEADLOCK FALSE
INVARIANTS
  RingInOrder
  LeastSquares
  ExactWhenUniform
  BouncingIsReported
  TablesMatchPolynomial
  DamageDetected
  Released
  ValueIsPosition
  SpeedsAreOfObjects
