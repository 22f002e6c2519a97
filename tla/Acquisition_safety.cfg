\* Both queues overflow, the filter fills twice.
SPECIFICATION Spec
CONSTANTS
  EncCap = 1
  AdcCap = 2
  Window = 2
  MaxEnc = 3
  MaxAdc = 4
  MaxCal = 1
  NoFrame = NoFrame
INVARIANTS
  DeviceOwned
  FramesAccounted
  VelocityTelescopes
  ReadyMeansComputed
