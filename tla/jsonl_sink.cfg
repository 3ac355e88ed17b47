SPECIFICATION Spec
CONSTANTS
  None = None
  w1 = w1
  w2 = w2
  r1 = r1
  r2 = r2
  r3 = r3
  Writer = {w1, w2}
  Execution = {r1, r2, r3}
  MaxCrashes = 2
INVARIANTS
  SinkInv
  AckedIsPersisted
  OneScarPerLife
  ReadableUnlessCut
PROPERTIES
  SilentOnceBroken
  KeepsPromise
\* the last process may end with everything written
CHECK_DEADLOCK FALSE
