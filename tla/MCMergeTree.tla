----------------------------- MODULE MCMergeTree -----------------------------
(* Records of one call as FromSpan and FromLogRecord return them: a span gives *)
(* a kind, a parent and both times, an access log neither; each may or may not *)
(* carry an operation id, an error, a payload that was refused.                *)
EXTENDS MergeTree

CONSTANTS op1, op2, bad, gateway, shard, search, fetch, timeout, oops,
          c1, c2, s1, s2, l1, l2, l3

MCKey  == {1, 2}
MCOp   == {op1, op2}
MCBad  == {bad}
MCText == {gateway, shard, search, fetch, timeout, oops}
MCSig  == {c1, c2, s1, s2, l1, l2, l3}

Log(sig, op) ==
  LET class == ClassifyOperation(op)
  IN  [ key |-> 1, parent |-> None, kind |-> None, tool |-> search, target |-> None,
        startedAt |-> 3, finishedAt |-> None, duration |-> 0, status |-> "unknown",
        errorType |-> None, errorCode |-> None,
        correlation |-> class.correlation, op |-> class.op,
        args |-> "not_emitted", result |-> "not_emitted", source |-> None,
        seenFrom |-> {"logs"}, disagreements |-> {}, sigs |-> {sig} ]

Span(sig, op, k, p, kd) ==
  [Log(sig, op) EXCEPT !.key = k, !.parent = p, !.kind = kd, !.seenFrom = {"traces"},
                       !.startedAt = 1, !.finishedAt = 4, !.duration = 3,
                       !.status = "success", !.source = gateway]

MCInput ==
  { Span(c1, {}, 2, 1, "client"),
    [Span(c2, {}, 2, 1, "client") EXCEPT !.status = "error", !.errorType = timeout,
                                         !.target = shard],
    [Span(s1, {op1}, 1, None, "server") EXCEPT !.status = "cancelled", !.errorType = oops,
                                               !.tool = fetch],
    [Span(s2, {}, 1, None, "server") EXCEPT !.args = "refused_raw", !.status = "unknown",
                                            !.finishedAt = None, !.duration = 0],
    [Log(l1, {op1}) EXCEPT !.target = gateway, !.status = "success"],
    [Log(l2, {op2}) EXCEPT !.result = "refused_raw"],
    Log(l3, {bad}) }
==============================================================================
