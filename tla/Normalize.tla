------------------------------ MODULE Normalize ------------------------------
(***************************************************************************)
(* internal/normalize: what FromLogRecord and FromSpan make of one OTLP    *)
(* record, and the execution that the signals of a call are merged into.   *)
(* An attribute is a name and a value; a value is Nil, Composite (an array *)
(* or a map, read as an empty string), or a text.  Texts are classified by *)
(* constants, not spelled: the method tools/call, the error types that     *)
(* contain "cancel", _OTHER, the JSON-RPC codes of the caller's faults.    *)
(* An operation-id attribute holds the set of the ids between its commas.  *)
(* Instants are Width bits wide, as uint64 nanoseconds are 64, and counted *)
(* in the unit of durations, as in Observation: the truncation of a        *)
(* difference to milliseconds and its saturation are left out.             *)
(***************************************************************************)
EXTENDS Observation, SequencesExt, FiniteSetsExt

CONSTANTS
  Raw,           \* OTLP log records and spans of one exchange
  TraceId, SpanId,
  KeyAt,         \* the join key of a trace id and a span id, both present
  Nil, Composite,
  ToolsCall, ToolResource, Other,  \* "tools/call", "tool", "_OTHER"
  Cancelling,    \* error types that contain "cancel"
  CallerFault,   \* callerFaultCodes
  ClassOf,       \* the error type made of a JSON-RPC code: jsonrpc_, caller_jsonrpc_
  SpanError,     \* "span_error"
  ParsedMS,      \* what int64(ParseFloat(v)) gives per duration text: no value, one, or
                 \* any of several where the conversion is out of range
  Width,
  MaxSignals     \* bound: the records taken of one exchange

Half == 2 ^ (Width - 1)

SemconvOf ==
  [ tool |-> <<"gen_ai.tool.name", "mcp.tool.name", "mcp.resource.name">>,
    method |-> <<"mcp.method.name", "mcp.method">>,
    code |-> <<"rpc.response.status_code", "mcp.error.code">>,
    session |-> <<"mcp.session.id", "mcp.session_id">> ]

OperationIDKeys == {"evidra.operation.id", "evidra_op", "evidra_operation_id"}

(* What each attribute may hold; the names left out are only tested for presence. *)
HeldUnder ==
  LET names(meaning) == {SemconvOf[meaning][i] : i \in DOMAIN SemconvOf[meaning]}
  IN  << <<names("tool") \cup names("session") \cup {"mcp.target", "error.type"}, Text>>,
         <<names("code"), DOMAIN ClassOf>>,
         <<OperationIDKeys, SUBSET (OpId \cup BadId)>>,
         <<{"trace.id"}, TraceId>>, <<{"span.id"}, SpanId>>,
         <<{"duration", "duration_ms"}, DOMAIN ParsedMS>> >>

(* A record as OTLP's types and the classification by constants leave it.       *)
WellFormed(raw) ==
  /\ raw.id \in SigId /\ raw.signal \in Signal /\ raw.kind \in Kind \cup {None}
  /\ raw.trace \in TraceId \cup {None}
  /\ raw.span \in SpanId \cup {None} /\ raw.parent \in SpanId \cup {None}
  /\ raw.start \in 0 .. 2 * Half - 1 /\ raw.end \in 0 .. 2 * Half - 1
  /\ raw.attrs \in Seq(Range(raw.attrs))
  /\ \A i \in DOMAIN raw.attrs, h \in DOMAIN HeldUnder :
       raw.attrs[i].name \in HeldUnder[h][1]
         => raw.attrs[i].value \in HeldUnder[h][2] \cup {Nil, Composite}

ASSUME NormalizeAssumption ==
  /\ Half \in Nat
  /\ KeyAt \in [TraceId \X SpanId -> Key]
  /\ DOMAIN ClassOf \subseteq Text /\ ClassOf \in [DOMAIN ClassOf -> Text]
  /\ ParsedMS \in [DOMAIN ParsedMS -> SUBSET Int]
  /\ ToolsCall # None
  /\ {SpanError, Other} \subseteq Text /\ Cancelling \subseteq Text \ {Other}
  /\ \A raw \in Raw : WellFormed(raw)

VARIABLES
  taken,   \* raw records normalized so far
  record   \* what the joinable ones are merged into, None before the first

vars == <<taken, record>>

------------------------------------------------------------------------------
(* Attributes: of several with one name the last that has a value counts.      *)
AttributeMap(list) ==
  [name \in {list[i].name : i \in DOMAIN list} |->
     LET last == {i \in DOMAIN list : list[i].name = name /\ list[i].value # Nil}
     IN  IF last = {} \/ list[Max(last)].value = Composite THEN None ELSE list[Max(last)].value]

At(attrs, name) == IF name \in DOMAIN attrs THEN attrs[name] ELSE None

(* Mutant: the canonical name alone. *)
AttrCanonical(attrs, meaning) == At(attrs, SemconvOf[meaning][1])

(* attr: the canonical name, then its aliases.                                *)
Attr(attrs, meaning) ==
  LET set == {i \in DOMAIN SemconvOf[meaning] : At(attrs, SemconvOf[meaning][i]) # None}
  IN  IF set = {} THEN None ELSE At(attrs, SemconvOf[meaning][Min(set)])

(* Mutant: the first attribute that has ids wins. *)
OperationIDPreferred(attrs) ==
  IF At(attrs, "evidra_op") # None THEN attrs["evidra_op"]
  ELSE UNION {attrs[k] : k \in {j \in OperationIDKeys : At(attrs, j) # None}}

OperationID(attrs) == UNION {attrs[k] : k \in {j \in OperationIDKeys : At(attrs, j) # None}}

(* Mutant: a contradicting resource type is not looked at. *)
IsToolCallByMethod(attrs) == Attr(attrs, "method") = ToolsCall

IsToolCall(attrs) ==
  /\ Attr(attrs, "method") = ToolsCall
  /\ At(attrs, "mcp.resource.type") \in {None, ToolResource}

(* An access log proves completion by a duration or an HTTP status.            *)
LogCompleted(attrs) ==
  \E name \in {"duration", "duration_ms", "http.status", "http.status_code"} : At(attrs, name) # None

StatusFrom(attrs, spanCode, completed) ==
  LET errType == At(attrs, "error.type")
      code    == Attr(attrs, "code")
      is(status, type) == [status |-> status, type |-> type, code |-> code]
  IN  CASE errType \in Cancelling                  -> is("cancelled", errType)
        [] errType \notin Cancelling \cup {None, Other} -> is("error", errType)
        [] errType \in {None, Other} /\ code # None ->
             is("error", IF code \in CallerFault THEN ClassOf[code] ELSE Either(errType, ClassOf[code]))
        [] errType \in {None, Other} /\ code = None ->
             CASE spanCode = "ERROR"                      -> is("error", Either(errType, SpanError))
               [] spanCode # "ERROR" /\ errType = Other   -> is("error", Other)
               [] spanCode # "ERROR" /\ errType = None    ->
                    is(IF completed \/ spanCode = "OK" THEN "success" ELSE "unknown", None)

(* Mutant: an attribute of any other type than text counts as content, too. *)
OfferedIfNamed(attrs, name) == IF name \in DOMAIN attrs THEN "refused_raw" ELSE "not_emitted"

PayloadAvailability(attrs, name) == IF At(attrs, name) # None THEN "refused_raw" ELSE "not_emitted"

------------------------------------------------------------------------------
(* Identity and time.                                                         *)
JoinKey(trace, span) == IF None \in {trace, span} THEN None ELSE KeyAt[<<trace, span>>]

(* timestampFromUnixNano: zero is absent, int64() wraps.                       *)
Timestamp(nanos) ==
  CASE nanos = 0                   -> None
    [] nanos \in 1 .. Half - 1     -> nanos
    [] nanos >= Half               -> nanos - 2 * Half

(* durationMS, of the first text that is a number.                             *)
DurationMS(attrs) ==
  LET ms(name) == IF At(attrs, name) = None THEN {} ELSE ParsedMS[attrs[name]]
  IN  CASE ms("duration") # {}                             -> ms("duration")
        [] ms("duration") = {} /\ ms("duration_ms") # {}   -> ms("duration_ms")
        [] OTHER                                           -> {0}

------------------------------------------------------------------------------
(* FromSpan and FromLogRecord: the normalized executions a record can become,   *)
(* none if it is not a call of a tool.                                         *)
Common(raw, attrs) ==
  LET class == ClassifyOperation(OperationID(attrs))
  IN  [ key           |-> JoinKey(Either(raw.trace, At(attrs, "trace.id")),
                                  Either(raw.span, At(attrs, "span.id"))),
        parent        |-> None,
        kind          |-> None,
        tool          |-> Attr(attrs, "tool"),
        target        |-> At(attrs, "mcp.target"),
        startedAt     |-> Timestamp(raw.start),
        finishedAt    |-> None,
        duration      |-> 0,
        status        |-> "unknown",
        errorType     |-> None,
        errorCode     |-> None,
        correlation   |-> class.correlation,
        op            |-> class.op,
        args          |-> PayloadAvailability(attrs, "gen_ai.tool.call.arguments"),
        result        |-> PayloadAvailability(attrs, "gen_ai.tool.call.result"),
        source        |-> Attr(attrs, "session"),
        seenFrom      |-> {raw.signal},
        disagreements |-> {},
        sigs          |-> {raw.id} ]

Graded(ex, s) == [ex EXCEPT !.status = s.status, !.errorType = s.type, !.errorCode = s.code]

FromLogRecord(raw) ==
  LET attrs == AttributeMap(raw.attrs)
  IN  {[Graded(Common(raw, attrs), StatusFrom(attrs, "UNSET", LogCompleted(attrs)))
          EXCEPT !.duration = d] : d \in DurationMS(attrs)}

FromSpan(raw) ==
  LET attrs    == AttributeMap(raw.attrs)
      finished == Timestamp(raw.end)
      common   == Common(raw, attrs)
  IN  {[Graded(common, StatusFrom(attrs, raw.code, finished # None))
          EXCEPT !.parent = IF raw.parent = None THEN None
                            ELSE JoinKey(Either(raw.trace, At(attrs, "trace.id")), raw.parent),
                 !.kind = raw.kind,
                 !.finishedAt = finished,
                 !.duration = IF None \in {common.startedAt, finished} THEN 0
                              ELSE finished - common.startedAt]}

Normalized(raw) ==
  LET attrs == AttributeMap(raw.attrs)
  IN  {ex \in IF raw.signal = "logs" THEN FromLogRecord(raw) ELSE FromSpan(raw) :
         IsToolCall(attrs) /\ ex.tool # None}

------------------------------------------------------------------------------
(* The signals of an exchange reach the assembler in any order.               *)
Init == taken = {} /\ record = None

Take(raw) ==
  /\ Cardinality(taken) < MaxSignals
  /\ \A other \in taken : other.id # raw.id
  /\ taken' = taken \cup {raw}
  /\ IF \E ex \in Normalized(raw) : ex.key # None
     THEN \E ex \in Normalized(raw) : record' = Join(record, ex)
     ELSE UNCHANGED record

Next == \E raw \in Raw : Take(raw)

Spec == Init /\ [][Next]_vars

------------------------------------------------------------------------------
(* Properties.  The evidence is read off the raw records, under every spelling. *)
Says(raw, names) == {At(AttributeMap(raw.attrs), name) : name \in names} \ {None}

Identified(raw) == /\ raw.trace # None \/ Says(raw, {"trace.id"}) # {}
                   /\ raw.span # None \/ Says(raw, {"span.id"}) # {}
Failed(raw)     == \/ Says(raw, {"error.type", "rpc.response.status_code", "mcp.error.code"}) # {}
                   \/ raw.signal = "traces" /\ raw.code = "ERROR"
Cancelled(raw)  == Says(raw, {"error.type"}) \cap Cancelling # {}
Completed(raw)  == IF raw.signal = "traces" THEN raw.end # 0 \/ raw.code = "OK"
                   ELSE Says(raw, {"duration", "duration_ms", "http.status", "http.status_code"}) # {}
Contributors    == {raw \in taken : record # None /\ raw.id \in record.sigs}

TypeOK ==
  /\ taken \subseteq Raw
  /\ record \in Execution \cup {None}

(* A record was merged from the tools/call signals that carry both ids, under     *)
(* whatever spelling and wherever they are, and from no other.                  *)
ContributorsAreCalls ==
  \A raw \in taken :
    raw \in Contributors <=>
      /\ Identified(raw)
      /\ LET canonical == Says(raw, {"mcp.method.name"})
         IN  IF canonical # {} THEN canonical = {ToolsCall} ELSE Says(raw, {"mcp.method"}) = {ToolsCall}
      /\ Says(raw, {"mcp.resource.type"}) \subseteq {ToolResource}
      /\ Says(raw, {"gen_ai.tool.name", "mcp.tool.name", "mcp.resource.name"}) # {}

(* The verdict of a record follows from the protocol evidence of all its signals: *)
(* any failure that is no cancellation makes it an error, success needs proof of  *)
(* completion and no failure anywhere, an HTTP status decides nothing, and an     *)
(* error or a cancellation has a class.  Two functions in two packages decide     *)
(* this, statusFrom per signal and mergeStatus across them.                       *)
VerdictFromEvidence ==
  LET failed == {raw \in Contributors : Failed(raw)}
  IN  record # None =>
        /\ record.status =
             CASE \E raw \in failed : ~Cancelled(raw)                        -> "error"
               [] failed # {} /\ \A raw \in failed : Cancelled(raw)          -> "cancelled"
               [] failed = {} /\ \E raw \in Contributors : Completed(raw)    -> "success"
               [] failed = {} /\ \A raw \in Contributors : ~Completed(raw)   -> "unknown"
        /\ record.errorType # None <=> record.status \in {"error", "cancelled"}
        /\ record.errorCode # None => record.status \in {"error", "cancelled"}

(* Whatever ids the signals carry, under three names, several in one value, on    *)
(* one signal or spread over two: an operation is named only if they all agree on *)
(* one well-formed id, none is preferred, and nothing found is told from a        *)
(* conflict.                                                                      *)
AttributionFromAllIds ==
  LET ids == UNION UNION {Says(raw, OperationIDKeys) : raw \in Contributors}
  IN  record # None =>
        /\ record.op # None => ids = {record.op}
        /\ record.correlation =
             CASE ids = {}                       -> "unattributed"
               [] \E id \in OpId : ids = {id}    -> "correlated"
               [] OTHER                          -> "ambiguous"

(* A payload that any signal offered in plaintext is reported as refused, and     *)
(* nothing is reported as refused that no signal offered, although the merge      *)
(* ranks the answers of the two signals.                                          *)
RefusalIsReported ==
  record # None =>
    /\ record.args = "refused_raw" <=>
         \E raw \in Contributors : Says(raw, {"gen_ai.tool.call.arguments"}) # {}
    /\ record.result = "refused_raw" <=>
         \E raw \in Contributors : Says(raw, {"gen_ai.tool.call.result"}) # {}

==============================================================================
