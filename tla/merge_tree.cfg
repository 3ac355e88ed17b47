SPECIFICATION Spec
CONSTANTS
  Key <- MCKey
  OpId <- MCOp
  BadId <- MCBad
  Text <- MCText
  SigId <- MCSig
  Input <- MCInput
  MaxParts = 4
  None = None
  op1 = op1
  op2 = op2
  bad = bad
  gateway = gateway
  shard = shard
  search = search
  fetch = fetch
  timeout = timeout
  oops = oops
  c1 = c1
  c2 = c2
  s1 = s1
  s2 = s2
  l1 = l1
  l2 = l2
  l3 = l3
INVARIANTS
  TypeOK
  VerdictIgnoresOrder
  MergingKeepsValues
PROPERTY ContradictionNamed
\* the fold of a call's records ends with one record
CHECK_DEADLOCK FALSE
