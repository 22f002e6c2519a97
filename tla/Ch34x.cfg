\* A buffer of three with room for two bytes; two failures, and unplugging.
SPECIFICATION MCSpec
CONSTANTS
  BufSize = 3
  Bytes = {1, 2, 3}
  BulkOut = 2
  Rates = {0, 9600}
  Standard = 9600
  Reports <- MCReports
  MaxBytes = 3
  MaxFaults = 2
CHECK_DEADLOCK FALSE
INVARIANTS
  OneHolder
  StreamInOrder
  NotStranded
  QuietWhenClosed
  Listening
  ErrorsFlagged
  LinesAsRecorded
