\* Up to four codes of five kinds, of which two report failures, two throw, and
\* two names share a hash.
SPECIFICATION LifecycleSpec
CONSTANTS
  quiet = quiet
  hooker = hooker
  patcher = patcher
  thrower = thrower
  plain = plain
  null = null
  n1 = n1
  n2 = n2
  n3 = n3
  code = code
  Names = {n1, n2, n3}
  Null = null
  Hashes = {0, 1, 2}
  HashOf <- MCHashOf
  Values = {1, 2}
  Missing = missing
  Codes = {quiet, hooker, patcher, thrower, plain}
  InitOf <- MCInitOf
  FrameOf <- MCFrameOf
  Assemblies <- MCAssemblies
  MaxCodes = 4
  NoResult = noresult
INVARIANTS LifecycleTypeOK NoFrameUnasked FramesFollowInit OwnSymbols
PROPERTIES RaiseReturns
CHECK_DEADLOCK FALSE
