\* ch34x.c:501 against the division by the rate that comes before it.
SPECIFICATION Spec
CONSTANTS
  BufSize = 3
  Bytes = {1}
  BulkOut = 2
  Rates = {0, 9600}
  Standard = 9600
  Reports = {}
  MaxBytes = 1
  MaxFaults = 0
CHECK_DEADLOCK FALSE
INVARIANT B0DropsLines
