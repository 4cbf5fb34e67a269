\* x64: jumping hooks in blocks that fit their pages.
SPECIFICATION Spec
CONSTANTS
  Near = 48
  Far = 96
  i1 = i1
  i2 = i2
  i3 = i3
  i4 = i4
  i5 = i5
  i6 = i6
  i7 = i7
  h1 = h1
  h2 = h2
  h3 = h3
  Wide = TRUE
  Routine <- Routine64
  Base = 8
  Entries <- MCEntries
  Top = 132
  PageSize = 48
  Slots <- Blocks
  RequestSets <- Jumps
INVARIANTS RunsAsSpliced LeavesWhole
PROPERTIES Leaves
CHECK_DEADLOCK FALSE
