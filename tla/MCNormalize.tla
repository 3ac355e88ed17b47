----------------------------- MODULE MCNormalize -----------------------------
(* Access logs and spans of one exchange: every combination of error types,     *)
(* JSON-RPC codes, operation ids and signs of completion that the conventions    *)
(* and the gateway's own spellings allow, and records that are odd in one way.   *)
EXTENDS Normalize, TLC

CONSTANTS op1, op2, bad, fromParse, fromFailure, toolsCall, toolsList, tool, resource, search, cancelled, timeout, other,
          spanError, parseError, failure, session, ok, number, huge, junk, payload,
          theTrace, theSpan, theParent, log, span

MCKey   == {1, 2}
MCOp    == {op1, op2}
MCBad   == {bad}
MCSig   == {log, span}
MCText  == {search, resource, session, cancelled, timeout, other, spanError, ok,
            parseError, failure, fromParse, fromFailure}
MCClassOf == parseError :> fromParse @@ failure :> fromFailure
MCKeyAt == [t \in {theTrace}, s \in {theSpan, theParent} |-> IF s = theSpan THEN 1 ELSE 2]
MCParsedMS == number :> {7} @@ huge :> {0, -8} @@ junk :> {}

A(name, value) == <<[name |-> name, value |-> value]>>

Call  == A("mcp.method.name", toolsCall) \o A("gen_ai.tool.name", search)
Alias == A("mcp.method", toolsCall) \o A("mcp.tool.name", search) \o A("mcp.session_id", session)

Errors == {<< >>, A("error.type", cancelled), A("error.type", timeout), A("error.type", other)}
RPC    == {<< >>, A("rpc.response.status_code", parseError), A("mcp.error.code", failure),
           A("rpc.response.status_code", Composite) \o A("mcp.error.code", parseError)}
Ids    == {<< >>, A("evidra_op", {op1}), A("evidra_op", {op1, op2}),
           A("evidra.operation.id", {op2}) \o A("evidra_op", {op1}), A("evidra_operation_id", {bad})}
Done   == {<< >>, A("http.status", ok), A("duration", number),
           A("duration", junk) \o A("duration_ms", huge)}

Log(attrs) ==
  [ id |-> log, signal |-> "logs", attrs |-> attrs, trace |-> theTrace, span |-> theSpan,
    parent |-> None, kind |-> None, start |-> 3, end |-> 0, code |-> "UNSET" ]

Span(attrs, end, code) ==
  [Log(attrs) EXCEPT !.id = span, !.signal = "traces", !.end = end, !.code = code,
                     !.kind = "client", !.parent = theParent]

Content == {<< >>, A("gen_ai.tool.call.arguments", payload),
            A("gen_ai.tool.call.arguments", Composite) \o A("gen_ai.tool.call.result", payload)}
Logs  == {Log(Call \o e \o c \o i \o d) : e \in Errors, c \in RPC, i \in Ids, d \in Done}
Spans == {Span(Call \o e \o c, t, s) : e \in Errors, c \in RPC, t \in {0, 9}, s \in {"UNSET", "OK", "ERROR"}}
         \cup {Span(Alias \o i \o p, t, "UNSET") : i \in Ids, p \in Content, t \in {0, 1, 15}}
Odd   ==
  { [Log(Call) EXCEPT !.span = None],
    [Log(Call \o A("span.id", theSpan)) EXCEPT !.span = None],
    [Log(Alias \o A("trace.id", theTrace)) EXCEPT !.trace = None],
    Log(Alias \o A("mcp.resource.type", resource)),
    Log(Alias \o A("mcp.resource.type", tool) \o A("gen_ai.tool.call.result", payload)),
    Log(A("mcp.method.name", toolsList) \o Alias),
    Log(A("mcp.method.name", toolsList) \o Call \o A("gen_ai.tool.name", Nil)),
    Log(A("mcp.method.name", toolsCall)) }

MCRaw == Logs \cup Spans \cup Odd
==============================================================================
