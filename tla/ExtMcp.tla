-------------------------------- MODULE ExtMcp --------------------------------
(***************************************************************************)
(* The ExtMcp capture experiment: the hooks an AgentGateway invokes around *)
(* a call (extmcp.Server), the store they mark, and serveExtMCP, which     *)
(* writes the captures once the server has stopped.  A gateway asks        *)
(* CheckRequest first and CheckResponse when a response arrives, which may *)
(* be never.  External: GracefulStop refuses new RPCs and returns when     *)
(* none is active; Serve returns nil then, an error of its own when the    *)
(* listener fails, and ErrServerStopped when it is called too late.        *)
(***************************************************************************)
EXTENDS Integers

CONSTANTS
  Call,    \* calls a gateway makes
  Op,      \* operation contexts
  OpOf,    \* the context in the metadata of each call; None if there is none
  About,   \* services and method a call names
  None

Capture == [about : {About[c] : c \in Call}, requestSeen : BOOLEAN, responseSeen : BOOLEAN]

ASSUME ExtMcpAssumption == /\ OpOf \in [Call -> Op \cup {None}]
                           /\ None \notin Op \cup Capture

VARIABLES
  captures,  \* the store: per operation None or a capture
  at,        \* how far each call is
  ctxDone,   \* a signal arrived
  server,    \* the gRPC server
  main,      \* serveExtMCP
  serveErr,  \* what Serve returned
  artifact   \* what was written to stdout, None before

vars == <<captures, at, ctxDone, server, main, serveErr, artifact>>

InHook == {"request", "requestMarked", "response", "responseMarked"}

TypeOK ==
  /\ captures \in [Op -> Capture \cup {None}]
  /\ at \in [Call -> InHook \cup {"new", "waiting", "done", "refused"}]
  /\ ctxDone \in BOOLEAN
  /\ server \in {"up", "draining", "stopped"}
  /\ main \in {"listening", "serving", "returned", "failed", "written"}
  /\ serveErr \in {"nil", "stopped", "other"}
  /\ artifact \in [Op -> Capture \cup {None}] \cup {None}
  /\ artifact # None => main = "written" /\ server = "stopped"

Init ==
  /\ captures = [o \in Op |-> None]
  /\ at = [c \in Call |-> "new"]
  /\ ctxDone = FALSE /\ server = "up"
  /\ main = "listening" /\ serveErr = "nil" /\ artifact = None

Alive       == main \notin {"failed", "written"}
Go(c, p)    == at' = [at EXCEPT ![c] = p]
NoHook      == \A c \in Call : at[c] \notin InHook

(* The gateway calls a hook; a connection survives a failure of the listener.   *)
Invoke(c) ==
  /\ Alive /\ server = "up" /\ main # "listening"
  /\ \/ at[c] = "new" /\ Go(c, "request")
     \/ at[c] = "waiting" /\ Go(c, "response")
  /\ UNCHANGED <<captures, ctxDone, server, main, serveErr, artifact>>

(* Mutants: the hook that comes last decides; the one that comes first.         *)
MarkedAnew(c, start, finish) ==
  [about |-> About[c], requestSeen |-> start, responseSeen |-> finish]

MarkedOnce(c, start, finish) ==
  IF captures[OpOf[c]] = None THEN MarkedAnew(c, start, finish) ELSE captures[OpOf[c]]

Marked(c, start, finish) ==
  LET old == captures[OpOf[c]]
  IN  IF old = None
      THEN [about |-> About[c], requestSeen |-> start, responseSeen |-> finish]
      ELSE [old EXCEPT !.requestSeen = @ \/ start, !.responseSeen = @ \/ finish]

(* CheckRequest, CheckResponse: operationContext refuses, or mark.             *)
Mark(c) ==
  /\ Alive
  /\ at[c] \in {"request", "response"}
  /\ IF OpOf[c] = None
     THEN Go(c, "refused") /\ UNCHANGED captures
     ELSE /\ captures' = [captures EXCEPT ![OpOf[c]] =
                            Marked(c, at[c] = "request", at[c] = "response")]
          /\ Go(c, IF at[c] = "request" THEN "requestMarked" ELSE "responseMarked")
  /\ UNCHANGED <<ctxDone, server, main, serveErr, artifact>>

Pass(c) ==
  /\ Alive
  /\ \/ at[c] = "requestMarked" /\ Go(c, "waiting")
     \/ at[c] = "responseMarked" /\ Go(c, "done")
  /\ UNCHANGED <<captures, ctxDone, server, main, serveErr, artifact>>

Signal ==
  /\ Alive /\ ~ctxDone
  /\ ctxDone' = TRUE
  /\ UNCHANGED <<captures, at, server, main, serveErr, artifact>>

GracefulStop ==
  /\ Alive /\ ctxDone
  /\ \/ server = "up" /\ server' = "draining"
     \/ server = "draining" /\ NoHook /\ server' = "stopped"
  /\ UNCHANGED <<captures, at, ctxDone, main, serveErr, artifact>>

Serve ==
  /\ \/ main = "listening" /\ server = "up" /\ main' = "serving" /\ UNCHANGED serveErr
     \/ main = "listening" /\ server # "up" /\ main' = "returned" /\ serveErr' = "stopped"
     \/ main = "serving" /\ server = "stopped" /\ main' = "returned" /\ UNCHANGED serveErr
  /\ UNCHANGED <<captures, at, ctxDone, server, artifact>>

ListenerFails ==
  /\ main = "serving" /\ server = "up"
  /\ main' = "returned" /\ serveErr' = "other"
  /\ UNCHANGED <<captures, at, ctxDone, server, artifact>>

(* Mutant: nobody waits for the goroutine that stops the server. *)
StoppedUnasked == ctxDone

Stopped == ctxDone /\ server = "stopped"

(* Mutant: a server that was stopped before Serve counts as a failure. *)
FatalAny == serveErr # "nil"

Fatal == serveErr = "other"

(* serveExtMCP after Serve: an error, or the artifact with the snapshot.        *)
Finish ==
  /\ main = "returned"
  /\ \/ /\ ~ctxDone \/ (Stopped /\ Fatal)
        /\ main' = "failed" /\ UNCHANGED artifact
     \/ /\ Stopped /\ ~Fatal
        /\ main' = "written" /\ artifact' = captures
  /\ UNCHANGED <<captures, at, ctxDone, server, serveErr>>

Next ==
  \/ \E c \in Call : Invoke(c) \/ Mark(c) \/ Pass(c)
  \/ Signal \/ GracefulStop \/ Serve \/ ListenerFails \/ Finish

Spec == Init /\ [][Next]_vars

(* Hooks run, GracefulStop and main go on; calls, signals and failures are open. *)
FairSpec == /\ Spec
            /\ \A c \in Call : WF_vars(Mark(c) \/ Pass(c))
            /\ WF_vars(GracefulStop) /\ WF_vars(Serve) /\ WF_vars(Finish)

------------------------------------------------------------------------------
(* The artifact has every hook that was answered with a pass, also those that    *)
(* were running when the signal came, and nothing that no hook said.            *)
ArtifactIsComplete ==
  artifact # None =>
    \A o \in Op :
      LET of     == {c \in Call : OpOf[c] = o}
          asked  == {c \in of : at[c] \in {"waiting", "done"}}
          closed == {c \in of : at[c] = "done"}
      IN  IF asked = {} THEN artifact[o] = None
          ELSE /\ artifact[o] # None
               /\ artifact[o].requestSeen
               /\ artifact[o].responseSeen <=> closed # {}
               /\ artifact[o].about \in {About[c] : c \in asked}

(* What a capture says it goes on saying: a second call of the operation or a    *)
(* late response takes back no hook that was seen and renames no service.        *)
CapturesOnlyGrow ==
  [][ \A o \in Op : captures[o] # None =>
        /\ captures'[o].about = captures[o].about
        /\ captures[o].requestSeen => captures'[o].requestSeen
        /\ captures[o].responseSeen => captures'[o].responseSeen ]_vars

(* A signal, however early, is followed by the artifact, unless the listener had  *)
(* failed: serveExtMCP waits for the goroutine that stops the server and neither *)
(* of them waits for the other for ever.                                        *)
SignalledMeansWritten ==
  ctxDone ~> main = "written" \/ serveErr = "other"

==============================================================================
