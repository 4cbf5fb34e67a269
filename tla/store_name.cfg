\* One process; the name of the game is not made of printable ASCII characters.
SPECIFICATION Spec
CONSTANTS
  Procs = {p1}
  Options <- MCOptions
  Values = {exe, v1}
  Absent = absent
  Printable = {v1}
  ExeName = exe
  NoProc = noproc
  StateArgs <- MCStateArgs
  Bits = {b1}
PROPERTY IntactFileLoads
