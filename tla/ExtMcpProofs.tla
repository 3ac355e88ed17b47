---------------------------- MODULE ExtMcpProofs ----------------------------
(***************************************************************************)
(* Proofs about the capture experiment: the artifact holds every hook that *)
(* was answered with a pass, and captures take nothing back.               *)
(***************************************************************************)
EXTENDS ExtMcp, TLAPS

(* The calls of operation o whose request was marked, and whose response was.    *)
Asked(o)  == {c \in Call : /\ OpOf[c] = o
                           /\ at[c] \in {"requestMarked", "waiting", "response", "responseMarked", "done"}}
Closed(o) == {c \in Call : OpOf[c] = o /\ at[c] \in {"responseMarked", "done"}}

(* What the store says of an operation is what the hooks of its calls said.      *)
Faithful(o) ==
  IF captures[o] = None
  THEN Asked(o) = {}
  ELSE /\ \E c \in Asked(o) : captures[o].about = About[c]
       /\ captures[o].requestSeen
       /\ captures[o].responseSeen <=> Closed(o) # {}

(* The inductive strengthening: a hook may be between its mark and its answer    *)
(* only while the server has not stopped, and the artifact is the store.        *)
StoreInv ==
  /\ \A o \in Op : Faithful(o)
  /\ server = "stopped" => NoHook
  /\ artifact # None => artifact = captures

(* Marking keeps a capture a capture and takes nothing back.                    *)
LEMMA MarkedGrows ==
  ASSUME TypeOK, NEW c \in Call, OpOf[c] # None, NEW start \in BOOLEAN, NEW finish \in BOOLEAN,
         NEW new, new = Marked(c, start, finish)
  PROVE  /\ OpOf[c] \in Op
         /\ new \in Capture
         /\ new # None
         /\ captures[OpOf[c]] = None => new = [about |-> About[c], requestSeen |-> start, responseSeen |-> finish]
         /\ captures[OpOf[c]] # None =>
              /\ new.about = captures[OpOf[c]].about
              /\ new.requestSeen <=> captures[OpOf[c]].requestSeen \/ start
              /\ new.responseSeen <=> captures[OpOf[c]].responseSeen \/ finish
<1>1. OpOf[c] \in Op /\ captures[OpOf[c]] \in Capture \cup {None}
  BY ExtMcpAssumption DEF TypeOK
<1>2. CASE captures[OpOf[c]] = None
  <2>1. new = [about |-> About[c], requestSeen |-> start, responseSeen |-> finish]
    BY <1>2 DEF Marked
  <2>2. new \in Capture
    BY <2>1 DEF Capture
  <2> QED
    BY <1>1, <1>2, <2>1, <2>2, ExtMcpAssumption
<1>3. CASE captures[OpOf[c]] # None
  <2> PICK old : old = captures[OpOf[c]]
    OBVIOUS
  <2>1. old \in Capture
    BY <1>1, <1>3
  <2>2. new = [old EXCEPT !.requestSeen = @ \/ start, !.responseSeen = @ \/ finish]
    BY <1>3 DEF Marked
  <2>3. new = [about |-> old.about, requestSeen |-> old.requestSeen \/ start,
               responseSeen |-> old.responseSeen \/ finish]
    BY <2>1, <2>2 DEF Capture
  <2>4. new \in Capture
    BY <2>1, <2>3 DEF Capture
  <2>5. new # None /\ captures[OpOf[c]] = old
    BY <2>4, ExtMcpAssumption
  <2>6. /\ new.about = old.about
        /\ new.requestSeen <=> old.requestSeen \/ start
        /\ new.responseSeen <=> old.responseSeen \/ finish
    <3>1. /\ new.about = old.about
          /\ new.requestSeen = (old.requestSeen \/ start)
          /\ new.responseSeen = (old.responseSeen \/ finish)
      BY <2>3
    <3> QED
      BY <3>1
  <2> QED
    BY <1>1, <1>3, <2>4, <2>5, <2>6
<1> QED
  BY <1>2, <1>3

(* A hook that marks: the store changes at its operation, and the call goes on.  *)
LEMMA MarkStep ==
  ASSUME TypeOK, NEW c \in Call, Mark(c), OpOf[c] # None
  PROVE  /\ OpOf[c] \in Op
         /\ \A o \in Op \ {OpOf[c]} : captures'[o] = captures[o]
         /\ captures'[OpOf[c]] = Marked(c, at[c] = "request", at[c] = "response")
         /\ captures' \in [Op -> Capture \cup {None}]
         /\ at' = [at EXCEPT ![c] = IF at[c] = "request" THEN "requestMarked" ELSE "responseMarked"]
         /\ at[c] \in {"request", "response"}
<1>1. /\ captures' = [captures EXCEPT ![OpOf[c]] = Marked(c, at[c] = "request", at[c] = "response")]
      /\ at' = [at EXCEPT ![c] = IF at[c] = "request" THEN "requestMarked" ELSE "responseMarked"]
      /\ at[c] \in {"request", "response"}
  BY DEF Mark, Go
<1>2. PICK new : new = Marked(c, at[c] = "request", at[c] = "response")
  OBVIOUS
<1>3. OpOf[c] \in Op /\ new \in Capture
  BY <1>2, MarkedGrows
<1>4. captures \in [Op -> Capture \cup {None}] /\ captures' = [captures EXCEPT ![OpOf[c]] = new]
  BY <1>1, <1>2 DEF TypeOK
<1> QED
  BY <1>1, <1>2, <1>3, <1>4

(* Every step keeps every variable in its type.                               *)
LEMMA TypeStep == TypeOK /\ [Next]_vars => TypeOK'
<1> SUFFICES ASSUME TypeOK, [Next]_vars PROVE TypeOK'
  OBVIOUS
<1>1. CASE UNCHANGED vars
  BY <1>1 DEF TypeOK, vars
<1>2. ASSUME NEW c \in Call, Invoke(c) PROVE TypeOK'
  BY <1>2 DEF TypeOK, Invoke, Go, InHook, Alive
<1>3. ASSUME NEW c \in Call, Mark(c) PROVE TypeOK'
  <2>1. CASE OpOf[c] = None
    BY <1>3, <2>1 DEF TypeOK, Mark, Go, InHook, Alive
  <2>2. CASE OpOf[c] # None
    <3>1. captures' \in [Op -> Capture \cup {None}]
      BY <1>3, <2>2, MarkStep
    <3>2. at' \in [Call -> InHook \cup {"new", "waiting", "done", "refused"}]
      BY <1>3, <2>2, MarkStep DEF TypeOK, InHook
    <3> QED
      BY <1>3, <3>1, <3>2 DEF TypeOK, Mark
  <2> QED
    BY <2>1, <2>2
<1>4. ASSUME NEW c \in Call, Pass(c) PROVE TypeOK'
  BY <1>4 DEF TypeOK, Pass, Go, InHook, Alive
<1>5. CASE Signal \/ GracefulStop
  BY <1>5 DEF TypeOK, Signal, GracefulStop, Alive
<1>6. CASE Serve \/ ListenerFails
  BY <1>6 DEF TypeOK, Serve, ListenerFails
<1>7. CASE Finish
  BY <1>7 DEF TypeOK, Finish, Stopped
<1> QED
  BY <1>1, <1>2, <1>3, <1>4, <1>5, <1>6, <1>7 DEF Next

(* A step of one call that marks nothing leaves it on the same side of both marks. *)
LEMMA UnmarkedStep ==
  ASSUME TypeOK, StoreInv, NEW c \in Call, UNCHANGED captures,
         NEW p, at' = [at EXCEPT ![c] = p],
         at[c] \in {"requestMarked", "waiting", "response", "responseMarked", "done"}
           <=> p \in {"requestMarked", "waiting", "response", "responseMarked", "done"},
         at[c] \in {"responseMarked", "done"} <=> p \in {"responseMarked", "done"}
  PROVE  \A o \in Op : Faithful(o)'
<1> TAKE o \in Op
<1>1. Faithful(o)
  BY DEF StoreInv
<1>2. Asked(o)' = Asked(o) /\ Closed(o)' = Closed(o)
  BY DEF Asked, Closed, TypeOK
<1> QED
  BY <1>1, <1>2 DEF Faithful

(* Marking a hook keeps the store faithful, whichever call of the operation it is. *)
LEMMA MarkIsFaithful ==
  ASSUME TypeOK, StoreInv, NEW c \in Call, Mark(c), OpOf[c] # None
  PROVE  \A o \in Op : Faithful(o)'
<1> TAKE o \in Op
<1>0. Faithful(o) /\ at \in [Call -> InHook \cup {"new", "waiting", "done", "refused"}]
  BY DEF StoreInv, TypeOK
<1>1. /\ at' = [at EXCEPT ![c] = IF at[c] = "request" THEN "requestMarked" ELSE "responseMarked"]
      /\ at[c] \in {"request", "response"}
  BY MarkStep
<1>2. CASE OpOf[c] # o
  <2>1. captures'[o] = captures[o]
    BY <1>2, MarkStep
  <2>2. Asked(o)' = Asked(o) /\ Closed(o)' = Closed(o)
    BY <1>0, <1>1, <1>2 DEF Asked, Closed
  <2> QED
    BY <1>0, <2>1, <2>2 DEF Faithful
<1>3. CASE OpOf[c] = o
  <2>1. PICK new : new = Marked(c, at[c] = "request", at[c] = "response")
    OBVIOUS
  <2>2. /\ new # None
        /\ captures[o] = None =>
             new = [about |-> About[c], requestSeen |-> at[c] = "request", responseSeen |-> at[c] = "response"]
        /\ captures[o] # None =>
             /\ new.about = captures[o].about
             /\ new.requestSeen <=> captures[o].requestSeen \/ at[c] = "request"
             /\ new.responseSeen <=> captures[o].responseSeen \/ at[c] = "response"
    BY <1>3, <2>1, MarkedGrows
  <2>3. captures'[o] = new
    BY <1>3, <2>1, MarkStep
  <2>4. /\ Asked(o)' = Asked(o) \cup {c}
        /\ Closed(o)' = IF at[c] = "request" THEN Closed(o) ELSE Closed(o) \cup {c}
    BY <1>0, <1>1, <1>3 DEF Asked, Closed
  <2>5. CASE captures[o] = None
    <3>1. Asked(o) = {}
      BY <1>0, <2>5 DEF Faithful
    <3>2. at[c] = "request" /\ Closed(o) = {}
      BY <1>1, <1>3, <3>1 DEF Asked, Closed
    <3>3. new = [about |-> About[c], requestSeen |-> TRUE, responseSeen |-> FALSE]
      BY <2>2, <2>5, <3>2
    <3>4. Asked(o)' = {c} /\ Closed(o)' = {}
      BY <2>4, <3>1, <3>2
    <3> QED
      BY <2>2, <2>3, <3>3, <3>4 DEF Faithful
  <2>6. CASE captures[o] # None
    <3>1. /\ \E d \in Asked(o) : captures[o].about = About[d]
          /\ captures[o].requestSeen
          /\ captures[o].responseSeen <=> Closed(o) # {}
      BY <1>0, <2>6 DEF Faithful
    <3>2. \E d \in Asked(o)' : captures'[o].about = About[d]
      BY <2>2, <2>3, <2>4, <2>6, <3>1
    <3>3. captures'[o].requestSeen
      BY <2>2, <2>3, <2>6, <3>1
    <3>4. captures'[o].responseSeen <=> Closed(o)' # {}
      <4>1. CASE at[c] = "request"
        BY <2>2, <2>3, <2>4, <2>6, <3>1, <4>1
      <4>2. CASE at[c] = "response"
        BY <2>2, <2>3, <2>4, <2>6, <3>1, <4>2
      <4> QED
        BY <1>1, <4>1, <4>2
    <3> QED
      BY <2>2, <2>3, <3>2, <3>3, <3>4 DEF Faithful
  <2> QED
    BY <2>5, <2>6
<1> QED
  BY <1>2, <1>3

(* A process that writes the artifact, or has written it, marks nothing.         *)
LEMMA StoreStep ==
  ASSUME TypeOK, StoreInv, [Next]_vars
  PROVE  StoreInv'
<1>0. /\ artifact # None => main = "written" /\ server = "stopped"
      /\ artifact # None => artifact = captures
      /\ server = "stopped" => NoHook
      /\ \A o \in Op : Faithful(o)
      /\ at \in [Call -> InHook \cup {"new", "waiting", "done", "refused"}]
  BY DEF TypeOK, StoreInv
<1>1. CASE UNCHANGED vars
  BY <1>0, <1>1 DEF vars, StoreInv, Faithful, Asked, Closed, NoHook
<1>2. ASSUME NEW c \in Call, Invoke(c) PROVE StoreInv'
  <2>1. \A o \in Op : Faithful(o)'
    <3>1. CASE at[c] = "new" /\ Go(c, "request")
      BY <1>2, <3>1, UnmarkedStep DEF Invoke, Go
    <3>2. CASE at[c] = "waiting" /\ Go(c, "response")
      BY <1>2, <3>2, UnmarkedStep DEF Invoke, Go
    <3> QED
      BY <1>2, <3>1, <3>2 DEF Invoke
  <2> QED
    BY <1>0, <1>2, <2>1 DEF Invoke, StoreInv, Alive
<1>3. ASSUME NEW c \in Call, Mark(c) PROVE StoreInv'
  <2>1. \A o \in Op : Faithful(o)'
    <3>1. CASE OpOf[c] = None
      <4> TAKE o \in Op
      <4>1. OpOf[c] # o
        BY <3>1, ExtMcpAssumption
      <4>2. UNCHANGED captures /\ at' = [at EXCEPT ![c] = "refused"]
        BY <1>3, <3>1 DEF Mark, Go
      <4>3. Asked(o)' = Asked(o) /\ Closed(o)' = Closed(o)
        BY <1>0, <4>1, <4>2 DEF Asked, Closed
      <4> QED
        BY <1>0, <4>2, <4>3 DEF Faithful
    <3> QED
      BY <1>3, <3>1, MarkIsFaithful
  <2>2. server # "stopped"
    BY <1>0, <1>3 DEF Mark, NoHook, InHook
  <2> QED
    BY <1>0, <1>3, <2>1, <2>2 DEF Mark, StoreInv
<1>4. ASSUME NEW c \in Call, Pass(c) PROVE StoreInv'
  <2>1. \A o \in Op : Faithful(o)'
    <3>1. CASE at[c] = "requestMarked" /\ Go(c, "waiting")
      BY <1>4, <3>1, UnmarkedStep DEF Pass, Go
    <3>2. CASE at[c] = "responseMarked" /\ Go(c, "done")
      BY <1>4, <3>2, UnmarkedStep DEF Pass, Go
    <3> QED
      BY <1>4, <3>1, <3>2 DEF Pass
  <2>2. server # "stopped"
    BY <1>0, <1>4 DEF Pass, NoHook, InHook
  <2> QED
    BY <1>0, <1>4, <2>1, <2>2 DEF Pass, StoreInv
<1>5. CASE Signal \/ GracefulStop
  BY <1>0, <1>5 DEF Signal, GracefulStop, StoreInv, Faithful, Asked, Closed, NoHook
<1>6. CASE Serve \/ ListenerFails
  BY <1>0, <1>6 DEF Serve, ListenerFails, StoreInv, Faithful, Asked, Closed, NoHook
<1>7. CASE Finish
  BY <1>0, <1>7 DEF Finish, StoreInv, Faithful, Asked, Closed, NoHook
<1> QED
  BY <1>1, <1>2, <1>3, <1>4, <1>5, <1>6, <1>7 DEF Next

(* At any time the store is exactly what the hooks of its operation have said,   *)
(* and the artifact is the store (server.go, mark; main.go, serveExtMCP).       *)
THEOREM StoreInductive == Spec => [](TypeOK /\ StoreInv)
<1>1. Init => TypeOK /\ StoreInv
  <2> SUFFICES ASSUME Init PROVE TypeOK /\ StoreInv
    OBVIOUS
  <2>1. TypeOK
    BY DEF Init, TypeOK, InHook
  <2>2. \A o \in Op : Asked(o) = {} /\ captures[o] = None
    BY DEF Init, Asked
  <2> QED
    BY <2>1, <2>2 DEF Init, StoreInv, Faithful
<1>2. TypeOK /\ StoreInv /\ [Next]_vars => (TypeOK /\ StoreInv)'
  BY TypeStep, StoreStep
<1> QED
  BY <1>1, <1>2, PTL DEF Spec

(* The artifact has every hook that was answered with a pass and no other: when  *)
(* it is written no hook is between its mark and its answer (main.go,            *)
(* serveExtMCP waits for GracefulStop, which waits for every hook).              *)
THEOREM ArtifactComplete == Spec => []ArtifactIsComplete
<1>1. TypeOK /\ StoreInv => ArtifactIsComplete
  <2> SUFFICES ASSUME TypeOK, StoreInv, artifact # None, NEW o \in Op
               PROVE  LET of     == {c \in Call : OpOf[c] = o}
                          asked  == {c \in of : at[c] \in {"waiting", "done"}}
                          closed == {c \in of : at[c] = "done"}
                      IN  IF asked = {} THEN artifact[o] = None
                          ELSE /\ artifact[o] # None
                               /\ artifact[o].requestSeen
                               /\ artifact[o].responseSeen <=> closed # {}
                               /\ artifact[o].about \in {About[c] : c \in asked}
    BY DEF ArtifactIsComplete
  <2> DEFINE of     == {c \in Call : OpOf[c] = o}
             asked  == {c \in of : at[c] \in {"waiting", "done"}}
             closed == {c \in of : at[c] = "done"}
  <2>1. artifact = captures /\ NoHook /\ Faithful(o)
    BY DEF StoreInv, TypeOK
  <2>2. asked = Asked(o) /\ closed = Closed(o)
    BY <2>1 DEF Asked, Closed, NoHook, InHook
  <2> HIDE DEF asked, closed
  <2>3. CASE captures[o] = None
    <3>1. asked = {} /\ artifact[o] = None
      BY <2>1, <2>2, <2>3 DEF Faithful
    <3> QED
      BY <3>1 DEF asked
  <2>4. CASE captures[o] # None
    <3>1. /\ \E c \in asked : artifact[o].about = About[c]
          /\ artifact[o] # None
          /\ artifact[o].requestSeen
          /\ artifact[o].responseSeen <=> closed # {}
      BY <2>1, <2>2, <2>4 DEF Faithful
    <3> QED
      BY <3>1 DEF asked, closed
  <2> QED
    BY <2>3, <2>4
<1> QED
  BY <1>1, StoreInductive, PTL

(* No hook, of whichever call of the operation and however late, takes back what *)
(* a capture says (server.go, mark).                                             *)
THEOREM NothingTakenBack == Spec => CapturesOnlyGrow
<1> DEFINE Grows == \A o \in Op : captures[o] # None =>
                      /\ captures'[o].about = captures[o].about
                      /\ captures[o].requestSeen => captures'[o].requestSeen
                      /\ captures[o].responseSeen => captures'[o].responseSeen
<1>1. TypeOK /\ [Next]_vars => [Grows]_vars
  <2> SUFFICES ASSUME TypeOK, Next, NEW o \in Op, captures[o] # None
               PROVE  /\ captures'[o].about = captures[o].about
                      /\ captures[o].requestSeen => captures'[o].requestSeen
                      /\ captures[o].responseSeen => captures'[o].responseSeen
    OBVIOUS
  <2>1. CASE UNCHANGED captures
    BY <2>1
  <2>2. ASSUME NEW c \in Call, Mark(c), OpOf[c] # None
        PROVE  /\ captures'[o].about = captures[o].about
               /\ captures[o].requestSeen => captures'[o].requestSeen
               /\ captures[o].responseSeen => captures'[o].responseSeen
    <3>1. CASE OpOf[c] # o
      BY <2>2, <3>1, MarkStep
    <3>2. CASE OpOf[c] = o
      <4>1. PICK new : new = Marked(c, at[c] = "request", at[c] = "response")
        OBVIOUS
      <4>2. /\ new.about = captures[o].about
            /\ new.requestSeen <=> captures[o].requestSeen \/ at[c] = "request"
            /\ new.responseSeen <=> captures[o].responseSeen \/ at[c] = "response"
        BY <2>2, <3>2, <4>1, MarkedGrows
      <4>3. captures'[o] = new
        BY <2>2, <3>2, <4>1, MarkStep
      <4> QED
        BY <4>2, <4>3
    <3> QED
      BY <3>1, <3>2
  <2>3. UNCHANGED captures \/ \E c \in Call : Mark(c) /\ OpOf[c] # None
    BY DEF Next, Invoke, Mark, Pass, Signal, GracefulStop, Serve, ListenerFails, Finish
  <2> QED
    BY <2>1, <2>2, <2>3
<1>2. Spec => []TypeOK
  BY StoreInductive, PTL
<1>3. Spec => [][Grows]_vars
  BY <1>1, <1>2, PTL DEF Spec
<1> QED
  BY <1>3 DEF CapturesOnlyGrow

==============================================================================
