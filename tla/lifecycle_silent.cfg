\* A hook with a symbol that nobody has set.
SPECIFICATION LifecycleSpec
CONSTANTS
  quiet = quiet
  hooker = hooker
  patcher = patcher
  thrower = thrower
  plain = plain
  null = null
  n1 = n1
  n2 = n2
  n3 = n3
  code = code
  Names = {n1, n2, n3}
  Null = null
  Hashes = {0, 1, 2}
  HashOf <- MCHashOf
  Values = {1, 2}
  Missing = missing
  Codes = {quiet, hooker, patcher, thrower, plain}
  InitOf <- User
  FrameOf <- MCFrameOf
  Assemblies <- Undefined
  MaxCodes = 3
  NoResult = noresult
INVARIANT FailureIsReported
CHECK_DEADLOCK FALSE
