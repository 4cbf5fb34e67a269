\* Two processes on one file.
SPECIFICATION Spec
CONSTANTS
  Procs = {p1, p2}
  Options <- MCOptions
  Values = {exe, v1}
  Absent = absent
  Printable = {exe, v1}
  ExeName = exe
  NoProc = noproc
  StateArgs <- MCStateArgs
  Bits = {b1}
INVARIANTS TypeOK WriterIsAlone
PROPERTIES ImplementsAtomicStore SaveReturns
