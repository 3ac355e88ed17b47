SPECIFICATION Spec
CONSTANTS
  Key <- MCKey
  OpId <- MCOp
  BadId <- MCBad
  Text <- MCText
  SigId <- MCSig
  Raw <- MCRaw
  KeyAt <- MCKeyAt
  TraceId = {theTrace}
  SpanId = {theSpan, theParent}
  ClassOf <- MCClassOf
  ParsedMS <- MCParsedMS
  None = None
  Nil = Nil
  Composite = Composite
  op1 = op1
  op2 = op2
  bad = bad
  fromParse = fromParse
  fromFailure = fromFailure
  toolsCall = toolsCall
  toolsList = toolsList
  tool = tool
  resource = resource
  search = search
  cancelled = cancelled
  timeout = timeout
  other = other
  spanError = spanError
  parseError = parseError
  failure = failure
  session = session
  ok = ok
  number = number
  huge = huge
  junk = junk
  payload = payload
  theTrace = theTrace
  theSpan = theSpan
  theParent = theParent
  log = log
  span = span
  ToolsCall = toolsCall
  ToolResource = tool
  Other = other
  Cancelling = {cancelled}
  CallerFault = {parseError}
  SpanError = spanError
  Width = 4
  MaxSignals = 2
INVARIANTS
  TypeOK
  ContributorsAreCalls
  VerdictFromEvidence
  AttributionFromAllIds
  RefusalIsReported
\* the exchange has been read
CHECK_DEADLOCK FALSE
