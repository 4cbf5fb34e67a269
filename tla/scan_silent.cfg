\* One signature that a code may have overwritten; sessions one after another.
SPECIFICATION ScannerSpec
CONSTANTS
  Procs = {p1}
  exe = exe
  s1 = s1
  s2 = s2
  s3 = s3
  k1 = k1
  k2 = k2
  absent = absent
  Options <- MCOptions
  Values <- MCValues
  Absent = absent
  Printable <- MCValues
  ExeName = exe
  NoProc = noproc
  StateArgs = {}
  Bits = {0}
  Sigs = {s2}
  Keys = {k2}
  KeyOf <- Alone
  Len <- MCLen
  M = 8
  Bases = {2, 5}
  Ranges <- OneRange
  Images <- TwoImages
  NoScan = noscan
INVARIANT SilentFailureWasFound
