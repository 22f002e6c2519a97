\* README.md:31 against the ignored result of recv_response.
SPECIFICATION Spec
CONSTANTS
  Kinds = {"adc", "params"}
  BodyLen <- MCBodyLen
  MaxTail = 4
  MaxSent = 1
  MaxFaults = 0
CHECK_DEADLOCK FALSE
INVARIANT RowPerFrame
