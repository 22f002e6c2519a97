\* Readings and a channel enable, or check_ch_enable; the bytes as late and as
\* split as they like, with one fault or none.
SPECIFICATION Spec
CONSTANTS
  Kinds = {"adc", "params"}
  BodyLen <- MCBodyLen
  MaxTail = 3
  MaxSent = 4
  MaxFaults = 1
CHECK_DEADLOCK FALSE
INVARIANTS
  FreshWhileTimely
  LagNeverHeals
  ResyncBound
PROPERTY
  AnswerChannel
