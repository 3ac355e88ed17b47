------------------------------- MODULE MCBridge -------------------------------
(* An access-log export over HTTP and a trace export over gRPC with spans in two *)
(* scopes.  The log carries the id of a server span, 1; client span 2 names it   *)
(* as its parent and is itself the parent client span 3 names.                  *)
EXTENDS Bridge, TLC

CONSTANTS logs, spans

MCBody   == logs :> << << {1} >> >> @@ spans :> << << {2}, {3} >> >>
MCParent == 1 :> None @@ 2 :> 1 @@ 3 :> 2
==============================================================================
