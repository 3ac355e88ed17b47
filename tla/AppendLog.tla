------------------------------ MODULE AppendLog ------------------------------
(***************************************************************************)
(* What the Processor relies on when it calls sink.Write (interface Sink   *)
(* of internal/bridge/processor.go): a call that succeeds has appended one *)
(* record, a call that fails has appended none, and a record once appended *)
(* stays where it is.  A process that dies may have appended the record    *)
(* of a call that it did not live to answer.                               *)
(***************************************************************************)
EXTENDS Sequences

CONSTANTS Writer, Execution, None

VARIABLES
  log,    \* the records, in order
  state,  \* "idle", "writing" or "stored": where the call of each writer is
  job     \* its record

vars == <<log, state, job>>

Init ==
  /\ log = << >>
  /\ state = [w \in Writer |-> "idle"]
  /\ job = [w \in Writer |-> None]

Call(w) ==
  /\ state[w] = "idle"
  /\ state' = [state EXCEPT ![w] = "writing"]
  /\ \E x \in Execution : job' = [job EXCEPT ![w] = x]
  /\ UNCHANGED log

Store(w) ==
  /\ state[w] = "writing"
  /\ state' = [state EXCEPT ![w] = "stored"]
  /\ log' = Append(log, job[w])
  /\ UNCHANGED job

Return(w, from) ==
  /\ state[w] = from
  /\ state' = [state EXCEPT ![w] = "idle"]
  /\ job' = [job EXCEPT ![w] = None]
  /\ UNCHANGED log

Succeed(w) == Return(w, "stored")
Fail(w)    == Return(w, "writing")

Crash ==
  /\ state' = [w \in Writer |-> "idle"]
  /\ job' = [w \in Writer |-> None]
  /\ UNCHANGED log

Next == Crash \/ \E w \in Writer : Call(w) \/ Store(w) \/ Succeed(w) \/ Fail(w)

Spec == Init /\ [][Next]_vars
==============================================================================
