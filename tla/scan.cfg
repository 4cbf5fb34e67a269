\* One process at a time, over any number of sessions; three signatures, two of
\* them with one hash.
SPECIFICATION ScannerSpec
CONSTANTS
  Procs = {p1}
  exe = exe
  s1 = s1
  s2 = s2
  s3 = s3
  k1 = k1
  k2 = k2
  absent = absent
  Options <- MCOptions
  Values <- MCValues
  Absent = absent
  Printable <- MCValues
  ExeName = exe
  NoProc = noproc
  StateArgs = {0}
  Bits = {0}
  Sigs = {s1, s2, s3}
  Keys = {k1, k2}
  KeyOf <- TwoCollide
  Len <- MCLen
  M = 8
  Bases = {2, 5}
  Ranges <- AllRanges
  Images <- TwoImages
  NoScan = noscan
INVARIANTS ScannerTypeOK OnlyFoundOffsets RestartKeepsCache ResultSound RescanAgrees
