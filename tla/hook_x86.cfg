\* Win32: jumping and called hooks in blocks that fit their pages.
SPECIFICATION Spec
CONSTANTS
  Near = 32
  Far = 48
  i1 = i1
  i2 = i2
  i3 = i3
  i4 = i4
  i5 = i5
  i6 = i6
  i7 = i7
  h1 = h1
  h2 = h2
  h3 = h3
  Wide = FALSE
  Routine <- Routine32
  Base = 4
  Entries <- MCEntries
  Top = 64
  PageSize = 32
  Slots <- Blocks
  RequestSets <- JumpsAndCalls
INVARIANTS HookTypeOK RunsAsSpliced LeavesWhole
PROPERTIES Leaves
CHECK_DEADLOCK FALSE
