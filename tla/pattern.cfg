\* Scans of every small memory.
SPECIFICATION Spec
CONSTANTS
  Byte = {b1, b2}
  Requests <- MCRequests
  Wild = wild
  Exact = exact
  Null = null
  MaxReadable = 4
  MaxLen = 3
INVARIANTS ScanTypeOK FirstMatch ReadsNearRange
PROPERTIES ScanEnds
CHECK_DEADLOCK FALSE
