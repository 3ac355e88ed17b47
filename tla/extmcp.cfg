SPECIFICATION FairSpec
CONSTANTS
  None = None
  first = first
  second = second
  other = other
  stray = stray
  op1 = op1
  op2 = op2
  echo = echo
  fetch = fetch
  Call = {first, second, other, stray}
  Op = {op1, op2}
  OpOf <- MCOpOf
  About <- MCAbout
INVARIANTS
  TypeOK
  ArtifactIsComplete
PROPERTIES
  CapturesOnlyGrow
  SignalledMeansWritten
\* the process ends
CHECK_DEADLOCK FALSE
