\* Deadlines anywhere, payloads that look like headers or not, one lost or
\* garbled byte or none.
SPECIFICATION Spec
CONSTANTS
  Tails <- MCTails
  MaxTail = 4
  MaxFrames = 3
  MaxFaults = 1
  MaxCalls = 3
CHECK_DEADLOCK FALSE
INVARIANTS
  StaysInStep
  LossBounded
PROPERTY
  FrameChannel
