\* SIGINT at any moment; the ADC queue overflows.
SPECIFICATION FairSpec
CONSTANTS
  EncCap = 1
  AdcCap = 1
  Window = 1
  MaxEnc = 1
  MaxAdc = 2
  MaxCal = 1
  NoFrame = NoFrame
PROPERTIES
  Termination
  FramesConsumed
