SPECIFICATION Spec
CONSTANTS
  Key <- MCKey
  OpId <- MCOp
  BadId <- MCBad
  Text <- MCText
  SigId <- MCSig
  None = None
  op1 = op1
  op2 = op2
  bad = bad
  gateway = gateway
  search = search
  timeout = timeout
  oops = oops
  server = server
  serverAgain = serverAgain
  client = client
  clientAgain = clientAgain
  sibling = sibling
  grandchild = grandchild
  log = log
  otherLog = otherLog
  listTools = listTools
  noSpanId = noSpanId
  selfParent = selfParent
  g1 = g1
  g2 = g2
  g3 = g3
  Caller = {g1, g2}
  Flusher = {g1, g2}
  Telemetry <- SharedParent
  MaxWait = 1
  MaxTime = 2
  MaxSinkFailures = 1
SYMMETRY Symmetry
INVARIANTS
  FinalizedStaysClosed
  EverySignalAccountedFor
PROPERTIES
  ExpiredAreReserved
  WaitNeverRestarts
