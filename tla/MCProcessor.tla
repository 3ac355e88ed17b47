----------------------------- MODULE MCProcessor -----------------------------
(* The telemetry of an AgentGateway tools/call: a server span (key 1), the     *)
(* client span of the outbound call under it (key 2), an access log under the  *)
(* server span's key, and what exporters make of it: a client span sent again, *)
(* a second child, a grandchild, a span that names itself as its parent (with a *)
(* child on either side of it in the order of keys), records that are no tool  *)
(* call or have no span id.                                                    *)
EXTENDS Processor, TLC

CONSTANTS op1, op2, bad, gateway, search, timeout, oops,
          server, serverAgain, client, clientAgain, sibling, grandchild, log, otherLog,
          listTools, noSpanId, selfParent, g1, g2, g3

MCKey  == 1 .. 4
MCOp   == {op1, op2}
MCBad  == {bad}
MCText == {gateway, search, timeout, oops}
MCSig  == {server, serverAgain, client, clientAgain, sibling, grandchild, log, otherLog,
           listTools, noSpanId, selfParent}

Log(sig, op, k) ==
  LET class == ClassifyOperation(op)
  IN  [ id |-> sig, signal |-> "logs", toolCall |-> TRUE, joinable |-> TRUE,
        ex |-> [ key |-> k, parent |-> None, kind |-> None, tool |-> search,
                 target |-> None, startedAt |-> 3, finishedAt |-> None, duration |-> 0,
                 status |-> "unknown", errorType |-> None, errorCode |-> None,
                 correlation |-> class.correlation, op |-> class.op,
                 args |-> "not_emitted", result |-> "not_emitted", source |-> None,
                 seenFrom |-> {"logs"}, disagreements |-> {}, sigs |-> {sig} ] ]

Span(sig, op, k, p, kd) ==
  LET l == Log(sig, op, k)
  IN  [l EXCEPT !.signal = "traces",
                !.ex = [l.ex EXCEPT !.parent = p, !.kind = kd, !.seenFrom = {"traces"},
                                    !.startedAt = 1, !.finishedAt = 4, !.duration = 3,
                                    !.status = "success", !.source = gateway]]

Server  == Span(server, {op1}, 1, None, "server")
Client  == Span(client, {}, 2, 1, "client")
ClientAgain == [Span(clientAgain, {}, 2, 1, "client") EXCEPT !.ex.status = "error",
                                                             !.ex.errorType = timeout]
ServerAgain == [Span(serverAgain, {op1}, 1, None, "server") EXCEPT !.ex.status = "error",
                                                                   !.ex.errorType = oops]
Sibling == Span(sibling, {}, 3, 1, "client")
Grandchild == Span(grandchild, {}, 3, 2, "client")
TheLog  == [Log(log, {op1}, 1) EXCEPT !.ex.args = "refused_raw"]
ListTools == [Log(listTools, {}, 4) EXCEPT !.toolCall = FALSE]
NoSpanId  == [Span(noSpanId, {}, 4, None, "server") EXCEPT !.joinable = FALSE]
SelfParent == Span(selfParent, {}, 3, 3, "client")
ChildOfIt  == Span(client, {op2}, 2, 3, "client")
ChildAfter == Span(sibling, {}, 4, 3, "client")
LogOfIt    == Log(log, {op1}, 3)

TwoSpans       == {Server, Client}
OtherCall == Log(otherLog, {}, 4)
LogOfOther == [Log(log, {op2}, 1) EXCEPT !.ex.result = "refused_raw"]

OneCall        == {Server, Client, TheLog}
TwoCalls       == {Server, Client, ClientAgain, LogOfOther, OtherCall}
ServerSentTwice == {Server, ServerAgain, ClientAgain}
Siblings       == {Server, Client, Sibling}
Chain          == {Server, Client, Grandchild}
SharedParent   == {SelfParent, ChildOfIt, ChildAfter, LogOfIt, ListTools, NoSpanId}

Symmetry == Permutations(Caller)
==============================================================================
