-------------------------------- MODULE Bridge --------------------------------
(***************************************************************************)
(* The process of cmd/bridge: the OTLP receivers (otlphttp, otlpgrpc), the *)
(* assembler behind them, and the shutdown of main.go.                     *)
(*                                                                         *)
(* A request carries the signals of Body.  Its handler offers them to the  *)
(* assembler one by one, assembles some of what waits (what has expired,   *)
(* which depends on a clock that is left open here) and answers.  The      *)
(* assembler is its promise, Ledger, plus what shutdown can trip over:     *)
(* assembleMu, the snapshot taken under it and one sink write at a time,   *)
(* each of which may fail, be refused because the context of the call is   *)
(* done, or never return.  main is a sequence of phases under one budget.  *)
(*                                                                         *)
(* External, modelled from how main.go uses them: http.Server.Shutdown     *)
(* refuses new requests and returns when none is active or when the        *)
(* context is done; GracefulStop refuses new RPCs and returns when no      *)
(* handler is active; Stop cancels the context of the active ones, which   *)
(* does not end a handler that waits for assembleMu or in a write.         *)
(***************************************************************************)
EXTENDS Integers, Sequences, FiniteSets

CONSTANTS
  HTTP, GRPC,   \* requests of either receiver
  Key,          \* join keys
  Body,         \* resources of scopes of keys: the signals of each request, in an order left open
  Traces,       \* the requests whose signals are spans; those of the others are logs
  Parent,       \* per key the parent its span names as a client span, or None
  MaxAttempts,  \* bound: how often an exporter sends a request
  MaxFailures,  \* bound: sink writes that fail, requests that give up
  None

Request == HTTP \cup GRPC
Flusher == "flush"
Caller  == Request \cup {Flusher}

ASSUME BridgeAssumption ==
  /\ HTTP \cap GRPC = {}
  /\ Body \in [Request -> Seq(Seq(SUBSET Key))]
  /\ Traces \subseteq Request /\ Parent \in [Key -> Key \cup {None}]
  /\ MaxAttempts \in Nat /\ MaxFailures \in Nat
  /\ None \notin Key /\ None \notin Caller /\ None # 0 /\ Flusher \notin Request

(* One signal of one transmission: its request, its attempt, its key.         *)
Item == Request \X (1 .. MaxAttempts) \X Key

VARIABLES
  waiting, late, records, finalized, \* the assembler (Ledger)
  at,          \* where each request and the flush are
  attempt,     \* how often each request was sent
  unread,      \* the keys of the signals the handler has not consumed
  gone,        \* requests whose context is done
  assembleMu,  \* holder of the assembly lock
  batch,       \* the holder's snapshot, what of it is not written
  failures,    \* failed writes and requests given up so far
  success,     \* transmissions answered with success
  sinkOpen,
  phase,       \* of main
  expired,     \* the shutdown budget is used up
  grpc,        \* the gRPC server
  graceful,    \* the goroutine that calls GracefulStop
  result,      \* shutdownResult
  code         \* the exit code

store    == <<waiting, late, records, finalized>>
traffic  == <<attempt, unread, gone, success>>
assembly == <<assembleMu, batch, failures>>
main     == <<sinkOpen, phase, expired, grpc, graceful, result, code>>
vars     == <<store, at, traffic, assembly, main>>

Phase == {"serving", "http", "grpc", "forced", "flush", "flushing", "finalize", "report", "exited"}
Place == {"idle", "consume", "expire", "assemble", "write", "ok", "err",
          "accepted", "failed", "rejected", "cut"}

TypeOK ==
  /\ waiting \subseteq Item /\ late \subseteq Item /\ finalized \subseteq Key
  /\ records \in Seq(SUBSET Item)
  /\ at \in [Caller -> Place]
  /\ attempt \in [Request -> 0 .. MaxAttempts]
  /\ unread \in [Request -> SUBSET Key]
  /\ gone \subseteq Request
  /\ assembleMu \in Caller \cup {None}
  /\ batch \subseteq waiting /\ (batch # {} => assembleMu # None)
  /\ failures \in 0 .. MaxFailures
  /\ success \subseteq Request \X (1 .. MaxAttempts)
  /\ sinkOpen \in BOOLEAN /\ expired \in BOOLEAN
  /\ phase \in Phase
  /\ grpc \in {"serving", "draining", "stopped"}
  /\ graceful \in {"none", "started", "draining", "done"}
  /\ result \in [{"httpErr", "flushErr", "closeErr", "grpcForced", "flushTimedOut"} -> BOOLEAN]
  /\ code \in {None, 0, 1}

L == INSTANCE Ledger WITH KeyOf <- [i \in Item |-> i[3]]

Init ==
  /\ L!Init
  /\ at = [c \in Caller |-> "idle"]
  /\ attempt = [r \in Request |-> 0]
  /\ unread = [r \in Request |-> {}]
  /\ gone = {} /\ success = {}
  /\ assembleMu = None /\ batch = {} /\ failures = 0
  /\ sinkOpen = TRUE /\ phase = "serving" /\ expired = FALSE
  /\ grpc = "serving" /\ graceful = "none"
  /\ result = [f \in {"httpErr", "flushErr", "closeErr", "grpcForced", "flushTimedOut"} |-> FALSE]
  /\ code = None

Running     == phase # "exited"
Go(c, p)    == at' = [at EXCEPT ![c] = p]
Handling    == {"consume", "expire", "assemble", "write", "ok", "err"}
Active(S)   == {r \in S : at[r] \in Handling}

------------------------------------------------------------------------------
(* The receivers.                                                             *)

(* Mutant: only the first scope of a resource is read. *)
FlattenFirstScope(body) == UNION {body[i][1] : i \in DOMAIN body}

(* flattenLogRecords, flattenSpans.                                           *)
Flatten(body) == UNION {UNION {body[i][j] : j \in DOMAIN body[i]} : i \in DOMAIN body}

(* An exporter sends a request, for the first time or again because it was     *)
(* answered with an error or not at all.                                      *)
Arrive(r) ==
  /\ at[r] \in {"idle", "failed", "cut"} /\ attempt[r] < MaxAttempts
  /\ r \in HTTP => phase = "serving"
  /\ r \in GRPC => grpc = "serving"
  /\ attempt' = [attempt EXCEPT ![r] = @ + 1]
  /\ unread' = [unread EXCEPT ![r] = Flatten(Body[r])]
  /\ gone' = gone \ {r}
  /\ Go(r, "consume")
  /\ UNCHANGED <<store, success, assembly, main>>

(* 405, 400: another method, a body that cannot be read or decoded.            *)
Reject(r) ==
  /\ r \in HTTP
  /\ at[r] = "consume" /\ unread[r] = Flatten(Body[r])
  /\ Go(r, "rejected")
  /\ UNCHANGED <<store, traffic, assembly, main>>

Consume(r) ==
  /\ at[r] = "consume"
  /\ \E k \in unread[r] :
       /\ L!Offer(<<r, attempt[r], k>>)
       /\ unread' = [unread EXCEPT ![r] = @ \ {k}]
  /\ UNCHANGED <<at, attempt, gone, success, assembly, main>>

EndConsume(r) ==
  /\ at[r] = "consume" /\ unread[r] = {}
  /\ Go(r, "expire")
  /\ UNCHANGED <<store, traffic, assembly, main>>

(* 202 or an empty response, 500 or a gRPC error; neither if nobody listens.    *)
Answer(r) ==
  /\ at[r] \in {"ok", "err"}
  /\ Go(r, CASE r \in gone                       -> "cut"
             [] r \notin gone /\ at[r] = "ok"    -> "accepted"
             [] r \notin gone /\ at[r] = "err"   -> "failed")
  /\ success' = success \cup {t \in {<<r, attempt[r]>>} : r \notin gone /\ at[r] = "ok"}
  /\ UNCHANGED <<store, attempt, unread, gone, assembly, main>>

(* The client of an active request goes away.                                  *)
GiveUp(r) ==
  /\ r \in Active(Request) \ gone
  /\ failures < MaxFailures
  /\ failures' = failures + 1
  /\ gone' = gone \cup {r}
  /\ UNCHANGED <<store, at, attempt, unread, success, assembleMu, batch, main>>

------------------------------------------------------------------------------
(* The assembler: assemble for a request or for the flush.                    *)
CtxDone(c) == IF c = Flusher THEN expired ELSE c \in gone

(* The parent that the client span buffered under a key names (assembleKey and   *)
(* childOf), if the span is among the signals S, and the client spans that claim *)
(* a key.                                                                       *)
Names(k, S) == IF \E i \in S : i[1] \in Traces /\ i[3] = k THEN Parent[k] ELSE None

Claimants(k, S) == {child \in Key \ {k} : Names(child, S) = k}

(* assemble: of the ready keys, all if it flushes, those that nobody else claims *)
(* are assembled, each with the parent it names.  Of a span that names itself    *)
(* and is claimed by another, childOf has either.                               *)
Assembled(c) ==
  {{k \in ready : Claimants(k, waiting) = {} \/ k \in self} :
     ready \in (IF c = Flusher THEN {Key} ELSE SUBSET Key),
     self  \in SUBSET {k \in Key : Names(k, waiting) = k}}

Snapshots(c) ==
  {L!Under(waiting, K \cup {Names(k, waiting) : k \in K}) : K \in Assembled(c)}

Lock(c) ==
  /\ at[c] = "expire" /\ assembleMu = None
  /\ assembleMu' = c
  /\ batch' \in Snapshots(c)
  /\ Go(c, "assemble")
  /\ UNCHANGED <<store, traffic, failures, main>>

(* Mutant: the snapshot is not dropped. *)
UnlockKeepsBatch(c, outcome) ==
  /\ Go(c, outcome)
  /\ assembleMu' = None
  /\ UNCHANGED batch

Unlock(c, outcome) ==
  /\ Go(c, outcome)
  /\ assembleMu' = None
  /\ batch' = {}

Finish(c) ==
  /\ at[c] = "assemble" /\ batch = {}
  /\ Unlock(c, "ok")
  /\ UNCHANGED <<store, traffic, failures, main>>

(* Write returns the error of a context that is done before it touches the file. *)
Refuse(c) ==
  /\ at[c] = "assemble" /\ batch # {}
  /\ CtxDone(c)
  /\ Unlock(c, "err")
  /\ UNCHANGED <<store, traffic, failures, main>>

StartWrite(c) ==
  /\ at[c] = "assemble" /\ batch # {}
  /\ ~CtxDone(c)
  /\ Go(c, "write")
  /\ UNCHANGED <<store, traffic, assembly, main>>

(* The keys of the records a snapshot holds: one, or a client span's and the one *)
(* of its parent.  A parent that was shared goes with the first.                *)
Records(S) ==
  LET keys == {i[3] : i \in S}
  IN  {{k} \cup ({Names(k, S)} \cap keys) :
         k \in {j \in keys : Claimants(j, S) = {} \/ Names(j, S) = j}}

WriteOK(c) ==
  /\ at[c] = "write" /\ sinkOpen
  /\ \E K \in Records(batch) :
       /\ L!Record(K, L!Under(batch, K))
       /\ batch' = batch \ L!Under(batch, K)
  /\ Go(c, "assemble")
  /\ UNCHANGED <<traffic, assembleMu, failures, main>>

WriteFail(c) ==
  /\ at[c] = "write"
  /\ failures < MaxFailures
  /\ failures' = failures + 1
  /\ Unlock(c, "err")
  /\ UNCHANGED <<store, traffic, main>>

------------------------------------------------------------------------------
(* main: run after <-stop, shutdownServices, stopGRPC, flushProcessor.        *)
Fail(names) == result' = [f \in DOMAIN result |-> result[f] \/ f \in names]

Signal ==
  /\ phase = "serving"
  /\ phase' = "http"
  /\ UNCHANGED <<store, at, traffic, assembly, sinkOpen, expired, grpc, graceful, result, code>>

(* log.Fatalf in the goroutine of the HTTP listener.                           *)
ListenerFails ==
  /\ phase = "serving"
  /\ phase' = "exited" /\ code' = 1
  /\ UNCHANGED <<store, at, traffic, assembly, sinkOpen, expired, grpc, graceful, result>>

Deadline ==
  /\ phase \notin {"serving", "exited"} /\ ~expired
  /\ expired' = TRUE
  /\ UNCHANGED <<store, at, traffic, assembly, sinkOpen, phase, grpc, graceful, result, code>>

(* Mutant: the HTTP drain has no deadline. *)
DrainsHTTPAtLeisure == Active(HTTP) = {} /\ UNCHANGED result

(* Shutdown returns, drained or at the deadline.                               *)
DrainsHTTP ==
  \/ Active(HTTP) = {} /\ UNCHANGED result
  \/ expired /\ Fail({"httpErr"})

(* Then stopGRPC starts a goroutine.                                           *)
EndHTTPDrain ==
  /\ phase = "http"
  /\ DrainsHTTP
  /\ phase' = "grpc" /\ graceful' = "started"
  /\ UNCHANGED <<store, at, traffic, assembly, sinkOpen, expired, grpc, code>>

GracefulStop ==
  \/ /\ graceful = "started" /\ Running
     /\ graceful' = "draining"
     /\ grpc' = IF grpc = "stopped" THEN grpc ELSE "draining"
     /\ UNCHANGED <<store, at, traffic, assembly, sinkOpen, phase, expired, result, code>>
  \/ /\ graceful = "draining" /\ Running
     /\ Active(GRPC) = {}
     /\ graceful' = "done"
     /\ UNCHANGED <<store, at, traffic, assembly, sinkOpen, phase, expired, grpc, result, code>>

(* Stop: the active RPCs are cancelled and nobody hears their answers.         *)
Stop == grpc' = "stopped" /\ gone' = gone \cup Active(GRPC)

(* The select of stopGRPC; where both cases are ready either may be taken.     *)
EndGRPCDrain ==
  /\ phase = "grpc" /\ graceful = "done"
  /\ phase' = "flush"
  /\ UNCHANGED <<store, at, traffic, assembly, sinkOpen, expired, grpc, graceful, result, code>>

ForceGRPC ==
  /\ phase = "grpc" /\ expired
  /\ phase' = "forced"
  /\ Stop
  /\ UNCHANGED <<store, at, attempt, unread, success, assembly, sinkOpen, expired, graceful, result, code>>

EndForced ==
  /\ phase = "forced" /\ graceful = "done"
  /\ phase' = "flush"
  /\ Fail({"grpcForced"})
  /\ UNCHANGED <<store, at, traffic, assembly, sinkOpen, expired, grpc, graceful, code>>

Flush ==
  /\ phase = "flush" /\ ~expired
  /\ phase' = "flushing"
  /\ Go(Flusher, "expire")
  /\ UNCHANGED <<store, traffic, assembly, sinkOpen, expired, grpc, graceful, result, code>>

(* Mutant: a flush that was given up is not told from one that failed. *)
FlushTimesOutSilently == phase \in {"flush", "flushing"} /\ expired /\ Fail({"flushErr"})

FlushTimesOut ==
  /\ phase \in {"flush", "flushing"} /\ expired
  /\ Fail({"flushErr", "flushTimedOut"})

FlushReturns ==
  /\ phase = "flushing" /\ at[Flusher] \in {"ok", "err"}
  /\ IF at[Flusher] = "err" THEN Fail({"flushErr"}) ELSE UNCHANGED result

EndFlush ==
  /\ FlushReturns \/ FlushTimesOut
  /\ phase' = "finalize"
  /\ UNCHANGED <<store, at, traffic, assembly, sinkOpen, expired, grpc, graceful, code>>

(* finalizeShutdown, after which the final counters are read.                  *)
FinalizeShutdown ==
  /\ phase = "finalize"
  /\ phase' = "report"
  /\ IF result.flushTimedOut
     THEN UNCHANGED <<sinkOpen, result>>
     ELSE /\ sinkOpen' = FALSE
          /\ UNCHANGED result \/ Fail({"closeErr"})
  /\ UNCHANGED <<store, at, traffic, assembly, expired, grpc, graceful, code>>

(* Mutant: a flush that failed, but in time, is forgotten. *)
ExitCodeIgnoresFlush ==
  IF result.httpErr \/ result.flushTimedOut \/ result.closeErr \/ result.grpcForced THEN 1 ELSE 0

ExitCode == IF result.httpErr \/ result.flushErr \/ result.closeErr \/ result.grpcForced THEN 1 ELSE 0

Exit ==
  /\ phase = "report"
  /\ phase' = "exited" /\ code' = ExitCode
  /\ UNCHANGED <<store, at, traffic, assembly, sinkOpen, expired, grpc, graceful, result>>

------------------------------------------------------------------------------
Receive(r)  == Arrive(r) \/ Reject(r) \/ Consume(r) \/ EndConsume(r) \/ Answer(r) \/ GiveUp(r)
Assemble(c) == Lock(c) \/ Finish(c) \/ Refuse(c) \/ StartWrite(c) \/ WriteOK(c) \/ WriteFail(c)
Shutdown    == \/ EndHTTPDrain \/ EndGRPCDrain \/ ForceGRPC \/ EndForced
               \/ Flush \/ EndFlush \/ FinalizeShutdown \/ Exit

Next ==
  \/ Running /\ \E r \in Request : Receive(r)
  \/ Running /\ \E c \in Caller : Assemble(c)
  \/ Signal \/ ListenerFails \/ Deadline \/ GracefulStop \/ Shutdown

Spec == Init /\ [][Next]_vars

(* Fairness.  main and its goroutine run, time passes, and GracefulStop returns  *)
(* when no handler is left.  gRPC handlers run, their bodies being there, and    *)
(* get assembleMu in their turn (strong fairness: sync.Mutex hands it to a       *)
(* starving waiter); whoever holds it goes on up to a write.  Nothing is assumed *)
(* of HTTP clients, whose bodies may never end, or of the sink: a write may      *)
(* never return.                                                                *)
MainRuns == WF_vars(Shutdown) /\ WF_vars(Deadline) /\ WF_vars(GracefulStop)

HandlersRun ==
  /\ \A r \in GRPC : /\ WF_vars(Running /\ (Consume(r) \/ EndConsume(r) \/ Answer(r)))
                     /\ SF_vars(Running /\ Lock(r))
  /\ \A r \in Request : WF_vars(Running /\ (Finish(r) \/ Refuse(r) \/ StartWrite(r)))

FairSpec == Spec /\ MainRuns /\ HandlersRun

------------------------------------------------------------------------------
(* Properties.                                                                *)
Sent(r) == {k \in Key : \E i \in DOMAIN Body[r] : \E j \in DOMAIN Body[r][i] : k \in Body[r][i][j]}

(* An error answer is about a write, not about the signals of the request, which *)
(* the handler has given to the assembler by then: whatever the answer was, each *)
(* of them is held, and what an exporter sends again can only merge or be late.  *)
AnsweredMeansTaken ==
  \A r \in Request, k \in Key :
    at[r] \in {"accepted", "failed"} /\ k \in Sent(r) => <<r, attempt[r], k>> \in L!Held

(* The keys at the end of a chain: claimed by a client span that is itself       *)
(* claimed.  A flush leaves what is buffered under them (doc_flush_chain).       *)
Chained == {k \in Key : \E child \in Key \ {k} : \E other \in Key \ {child} :
                         Parent[child] = k /\ Parent[other] = child}

(* A process that exits with 0 has kept its word: every signal of a transmission *)
(* that was answered with success is in a record or was counted as late, nothing *)
(* waits, and no request was left without an answer - but for the signals under  *)
(* the end of a chain.  202 is said to signals that only wait, so this is what   *)
(* an operator can infer from the exit code, through three phases that each may  *)
(* time out and selects with two ready cases.                                   *)
ExitZeroMeansRecorded ==
  code = 0 => /\ L!Under(waiting, Key \ Chained) = {}
              /\ Active(Request) = {}
              /\ \A t \in success, k \in Key \ Chained :
                   k \in Sent(t[1]) => <<t[1], t[2], k>> \in late \cup L!InRecords

(* The file is closed behind the last write: no handler that a drain gave up on  *)
(* and no flush that was given up can still be writing, or get to write later.   *)
CloseBehindTheLastWrite ==
  ~sinkOpen => /\ assembleMu = None
               /\ Active(Request) = {}
               /\ at[Flusher] \in {"ok", "err"}

(* The signal is enough, whatever clients do and whichever phase runs out of     *)
(* time: the process ends, unless a write on behalf of a request hangs for ever.  *)
(* Then GracefulStop need not return after Stop, against the comment in stopGRPC, *)
(* and nothing bounds the wait for it.                                           *)
ShutdownTerminates ==
  (\A r \in Request : []<>(at[r] # "write")) => (phase = "http" ~> phase = "exited")

(* The inductive invariant of BridgeProofs.  A request that has been handled has *)
(* left all its signals with the assembler, and a success was said of none other; *)
(* past a drain its receiver is idle or the budget is spent; so a flush that was  *)
(* started runs alone, its snapshot is all that waits but for what is chained,    *)
(* and only its return, as opposed to its timeout, lets main close the file or    *)
(* exit with 0.                                                                   *)
LockHeld == \A c \in Caller : assembleMu = c <=> at[c] \in {"assemble", "write"}

Given(r, n) == \A k \in Sent(r) : <<r, n, k>> \in L!Held

HandedOver ==
  /\ \A r \in Request :
       /\ at[r] # "idle" => attempt[r] > 0
       /\ at[r] = "consume" => \A k \in Sent(r) : k \in unread[r] \/ <<r, attempt[r], k>> \in L!Held
       /\ at[r] \in (Handling \cup {"accepted", "failed"}) \ {"consume"} => Given(r, attempt[r])
  /\ \A t \in success : Given(t[1], t[2])

BudgetSpent ==
  /\ phase \in {"grpc", "forced", "flush"} => Active(HTTP) = {} \/ expired
  /\ phase = "flush" => graceful = "done"
  /\ graceful \in {"draining", "done"} => grpc # "serving"
  /\ graceful = "done" => Active(GRPC) = {}

FlushRunsAlone ==
  at[Flusher] # "idle" =>
    /\ phase \in {"flushing", "finalize", "report", "exited"} /\ grpc # "serving"
    /\ Active(Request) = {}
    /\ at[Flusher] \in {"expire", "assemble", "write", "ok", "err"}
    /\ at[Flusher] \in {"assemble", "write"} => L!Under(waiting, Key \ Chained) \subseteq batch
    /\ at[Flusher] = "ok" => L!Under(waiting, Key \ Chained) = {}

FlushDecides ==
  /\ phase = "flushing" => at[Flusher] # "idle"
  /\ phase = "finalize" /\ ~result.flushTimedOut => at[Flusher] \in {"ok", "err"}
  /\ phase \in {"finalize", "report"} /\ ~result.flushErr => at[Flusher] = "ok"
  /\ ~sinkOpen => phase \in {"report", "exited"} /\ at[Flusher] \in {"ok", "err"}
  /\ code = 0 => phase = "exited" /\ at[Flusher] = "ok"

ProcessInv == TypeOK /\ LockHeld /\ HandedOver /\ BudgetSpent /\ FlushRunsAlone /\ FlushDecides

==============================================================================
