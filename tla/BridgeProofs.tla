----------------------------- MODULE BridgeProofs -----------------------------
(***************************************************************************)
(* Proofs about Bridge, for any requests, bodies, keys and bounds: the     *)
(* inductive invariant ProcessInv, and from it what an answer is worth, what an  *)
(* exit code is worth, and that the file is closed behind the last write.  *)
(***************************************************************************)
EXTENDS Bridge, TLAPS

(* The signals of a body are keys, and Flatten finds all of them.             *)
LEMMA FlattenSent ==
  ASSUME NEW r \in Request
  PROVE  /\ Flatten(Body[r]) \subseteq Key
         /\ Sent(r) \subseteq Flatten(Body[r])
<1>1. Body[r] \in Seq(Seq(SUBSET Key))
  BY BridgeAssumption
<1>2. \A i \in DOMAIN Body[r] : Body[r][i] \in Seq(SUBSET Key)
  BY <1>1
<1>3. \A i \in DOMAIN Body[r] : \A j \in DOMAIN Body[r][i] : Body[r][i][j] \subseteq Key
  BY <1>2
<1> QED
  BY <1>3 DEF Flatten, Sent

(* What the assembler holds it goes on holding: waiting, late or in a record. *)
LEMMA OfferHolds ==
  ASSUME NEW i, L!Offer(i)
  PROVE  L!Held \subseteq L!Held' /\ i \in L!Held'
BY DEF L!Offer, L!Held, L!InRecords

LEMMA RecordHolds ==
  ASSUME NEW K, NEW S, records \in Seq(SUBSET Item), S \subseteq Item, L!Record(K, S)
  PROVE  L!Held \subseteq L!Held'
<1>1. records' = Append(records, S) /\ S \in SUBSET Item
  BY DEF L!Record
<1>2. /\ \A n \in DOMAIN records : n \in DOMAIN records' /\ records'[n] = records[n]
      /\ Len(records) + 1 \in DOMAIN records' /\ records'[Len(records) + 1] = S
  BY <1>1
<1>3. L!InRecords \subseteq L!InRecords' /\ S \subseteq L!InRecords'
  BY <1>2 DEF L!InRecords
<1> QED
  BY <1>3 DEF L!Record, L!Held, L!Under

------------------------------------------------------------------------------
(* Types.                                                                     *)
LEMMA TypeInit == Init => TypeOK
<1> SUFFICES ASSUME Init PROVE TypeOK
  OBVIOUS
<1>1. /\ waiting \subseteq Item /\ late \subseteq Item /\ finalized \subseteq Key
      /\ records \in Seq(SUBSET Item)
  BY DEF Init, L!Init
<1>2. /\ at \in [Caller -> Place] /\ unread \in [Request -> SUBSET Key]
      /\ result \in [{"httpErr", "flushErr", "closeErr", "grpcForced", "flushTimedOut"} -> BOOLEAN]
  BY DEF Init, Place
<1>3. attempt \in [Request -> 0 .. MaxAttempts] /\ failures \in 0 .. MaxFailures
  BY BridgeAssumption DEF Init
<1> QED
  BY <1>1, <1>2, <1>3 DEF Init, TypeOK, Phase

LEMMA FailType ==
  ASSUME TypeOK, NEW names, Fail(names)
  PROVE  result' \in [{"httpErr", "flushErr", "closeErr", "grpcForced", "flushTimedOut"} -> BOOLEAN]
BY DEF TypeOK, Fail

LEMMA GoType ==
  ASSUME at \in [Caller -> Place], NEW c \in Caller, NEW p \in Place, Go(c, p)
  PROVE  at' \in [Caller -> Place]
BY DEF Go

LEMMA AttemptType ==
  ASSUME TypeOK, HandedOver, NEW r \in Request, at[r] # "idle"
  PROVE  attempt[r] \in 1 .. MaxAttempts
<1>1. attempt[r] \in 0 .. MaxAttempts
  BY DEF TypeOK
<1>2. attempt[r] > 0
  BY DEF HandedOver
<1> QED
  BY <1>1, <1>2, BridgeAssumption

LEMMA TypeReceive ==
  ASSUME TypeOK, HandedOver, NEW r \in Request, Receive(r)
  PROVE  TypeOK'
<1> USE DEF TypeOK, Place, store, traffic, assembly, main
<1>c. r \in Caller
  BY DEF Caller
<1>1. CASE Arrive(r)
  <2>1. unread' \in [Request -> SUBSET Key] /\ attempt' \in [Request -> 0 .. MaxAttempts]
    BY <1>1, FlattenSent, BridgeAssumption DEF Arrive
  <2>2. at' \in [Caller -> Place]
    BY <1>1, <1>c DEF Arrive, Go
  <2> QED
    BY <1>1, <2>1, <2>2 DEF Arrive
<1>2. CASE Reject(r)
  BY <1>2, <1>c DEF Reject, Go
<1>3. CASE Consume(r)
  <2>1. PICK k \in unread[r] : /\ L!Offer(<<r, attempt[r], k>>)
                               /\ unread' = [unread EXCEPT ![r] = @ \ {k}]
    BY <1>3 DEF Consume
  <2>2. <<r, attempt[r], k>> \in Item
    <3>1. attempt[r] \in 1 .. MaxAttempts
      BY <1>3, AttemptType DEF Consume
    <3> QED
      BY <3>1 DEF Item
  <2>3. waiting' \subseteq Item /\ late' \subseteq Item /\ waiting \subseteq waiting'
    BY <2>1, <2>2 DEF L!Offer
  <2>4. finalized' = finalized /\ records' = records
    BY <2>1 DEF L!Offer
  <2>5. unread' \in [Request -> SUBSET Key]
    BY <2>1
  <2> QED
    BY <1>3, <2>3, <2>4, <2>5 DEF Consume
<1>4. CASE EndConsume(r)
  BY <1>4, <1>c DEF EndConsume, Go
<1>5. CASE Answer(r)
  <2>1. success' \subseteq Request \X (1 .. MaxAttempts)
    BY <1>5, AttemptType DEF Answer
  <2>2. at' \in [Caller -> Place]
    BY <1>5, <1>c DEF Answer, Go
  <2> QED
    BY <1>5, <2>1, <2>2 DEF Answer
<1>6. CASE GiveUp(r)
  BY <1>6, BridgeAssumption DEF GiveUp
<1> QED
  BY <1>1, <1>2, <1>3, <1>4, <1>5, <1>6 DEF Receive

(* A written record: what it does to the maps, and to the rest of the snapshot. *)
LEMMA TypeWrite ==
  ASSUME TypeOK, NEW c \in Caller, WriteOK(c)
  PROVE  /\ waiting' \subseteq Item /\ late' \subseteq Item /\ finalized' \subseteq Key
         /\ records' \in Seq(SUBSET Item)
         /\ batch' \subseteq waiting'
         /\ waiting' \ batch' \subseteq waiting \ batch
         /\ L!Held \subseteq L!Held'
<1>1. PICK K \in Records(batch) :
        L!Record(K, L!Under(batch, K)) /\ batch' = batch \ L!Under(batch, K)
  BY DEF WriteOK
<1>a. K \subseteq {i[3] : i \in batch}
  BY DEF Records
<1>2. batch \subseteq Item /\ L!Under(batch, K) \subseteq Item /\ K \subseteq Key
  BY <1>a DEF TypeOK, L!Under, Item
<1>3. waiting' = waiting \ L!Under(waiting, K)
  BY <1>1 DEF L!Record
<1>4. batch' \subseteq waiting' /\ waiting' \ batch' \subseteq waiting \ batch
  BY <1>1, <1>3 DEF TypeOK, L!Under
<1>5. late' \subseteq Item /\ finalized' \subseteq Key /\ waiting' \subseteq Item
  BY <1>1, <1>2 DEF L!Record, TypeOK, L!Under
<1>6. records' \in Seq(SUBSET Item)
  BY <1>1, <1>2 DEF L!Record, TypeOK
<1>7. L!Held \subseteq L!Held'
  BY <1>1, <1>2, RecordHolds DEF TypeOK
<1> QED
  BY <1>4, <1>5, <1>6, <1>7

LEMMA TypeAssemble ==
  ASSUME TypeOK, NEW c \in Caller, Assemble(c)
  PROVE  TypeOK'
<1> USE DEF TypeOK, Place, store, traffic, assembly, main
<1>1. CASE Lock(c)
  <2>1. \A s \in Snapshots(c) : s \subseteq waiting
    BY DEF Snapshots, L!Under
  <2>2. batch' \subseteq waiting' /\ assembleMu' = c /\ assembleMu' # None
    BY <1>1, <2>1, BridgeAssumption DEF Lock
  <2> QED
    BY <1>1, <2>2 DEF Lock, Go
<1>2. CASE Finish(c)
  BY <1>2 DEF Finish, Unlock, Go
<1>3. CASE Refuse(c)
  BY <1>3 DEF Refuse, Unlock, Go
<1>4. CASE StartWrite(c)
  BY <1>4 DEF StartWrite, Go
<1>5. CASE WriteOK(c)
  <2>1. batch # {}
    BY <1>5 DEF WriteOK, L!Record, L!Under
  <2>2. at' \in [Caller -> Place]
    BY <1>5 DEF WriteOK, Go
  <2> QED
    BY <1>5, <2>1, <2>2, TypeWrite DEF WriteOK
<1>6. CASE WriteFail(c)
  BY <1>6, BridgeAssumption DEF WriteFail, Unlock, Go
<1> QED
  BY <1>1, <1>2, <1>3, <1>4, <1>5, <1>6 DEF Assemble

LEMMA TypeShutdown ==
  ASSUME TypeOK, Signal \/ ListenerFails \/ Deadline \/ GracefulStop \/ Shutdown
  PROVE  TypeOK'
<1> USE DEF TypeOK, Phase, store, traffic, assembly, main
<1>1. CASE Signal
  BY <1>1 DEF Signal
<1>2. CASE ListenerFails
  BY <1>2 DEF ListenerFails
<1>3. CASE Deadline
  BY <1>3 DEF Deadline
<1>4. CASE GracefulStop
  BY <1>4 DEF GracefulStop
<1>5. CASE EndHTTPDrain
  BY <1>5, FailType DEF EndHTTPDrain, DrainsHTTP
<1>6. CASE EndGRPCDrain
  BY <1>6 DEF EndGRPCDrain
<1>7. CASE ForceGRPC
  BY <1>7 DEF ForceGRPC, Stop, Active, Request
<1>8. CASE EndForced
  BY <1>8, FailType DEF EndForced
<1>9. CASE Flush
  BY <1>9 DEF Flush, Go, Place, Caller
<1>10. CASE EndFlush
  <2>1. result' \in [{"httpErr", "flushErr", "closeErr", "grpcForced", "flushTimedOut"} -> BOOLEAN]
    BY <1>10, FailType DEF EndFlush, FlushReturns, FlushTimesOut
  <2> QED
    BY <1>10, <2>1 DEF EndFlush
<1>11. CASE FinalizeShutdown
  <2>1. result' \in [{"httpErr", "flushErr", "closeErr", "grpcForced", "flushTimedOut"} -> BOOLEAN]
    BY <1>11, FailType DEF FinalizeShutdown
  <2> QED
    BY <1>11, <2>1 DEF FinalizeShutdown
<1>12. CASE Exit
  BY <1>12 DEF Exit, ExitCode
<1> QED
  BY <1>1, <1>2, <1>3, <1>4, <1>5, <1>6, <1>7, <1>8, <1>9, <1>10, <1>11, <1>12 DEF Shutdown

LEMMA TypeStep ==
  ASSUME TypeOK, HandedOver, [Next]_vars
  PROVE  TypeOK'
<1>1. CASE UNCHANGED vars
  BY <1>1 DEF vars, store, traffic, assembly, main, TypeOK
<1>2. CASE Next
  BY <1>2, TypeReceive, TypeAssemble, TypeShutdown DEF Next
<1> QED
  BY <1>1, <1>2

------------------------------------------------------------------------------
(* The lock.                                                                  *)
LEMMA ReceiveStays ==
  ASSUME TypeOK, NEW r \in Request, Receive(r)
  PROVE  /\ \A c \in Caller \ {r} : at'[c] = at[c]
         /\ at'[r] \notin {"assemble", "write"} \/ at'[r] = at[r]
         /\ at[r] \notin {"assemble", "write"} \/ at'[r] = at[r]
         /\ UNCHANGED <<main, assembleMu, batch>>
<1>1. r \in Caller /\ at \in [Caller -> Place]
  BY DEF Caller, TypeOK
<1>2. CASE GiveUp(r)
  BY <1>2 DEF GiveUp
<1>3. CASE Answer(r)
  BY <1>1, <1>3 DEF Answer, Go, assembly
<1>4. CASE Arrive(r) \/ Reject(r) \/ Consume(r) \/ EndConsume(r)
  BY <1>1, <1>4 DEF Arrive, Reject, Consume, EndConsume, Go, assembly
<1> QED
  BY <1>2, <1>3, <1>4 DEF Receive

LEMMA AssembleMoves ==
  ASSUME TypeOK, NEW c \in Caller, Assemble(c)
  PROVE  /\ \A d \in Caller \ {c} : at'[d] = at[d]
         /\ at[c] \in {"expire", "assemble", "write"}
         /\ at'[c] \in {"assemble", "write", "ok", "err"}
         /\ UNCHANGED <<main, traffic>>
<1>1. at \in [Caller -> Place]
  BY DEF TypeOK
<1> QED
  BY <1>1 DEF Assemble, Lock, Finish, Refuse, StartWrite, WriteOK, WriteFail, Unlock, Go

LEMMA LockInit == Init => LockHeld
BY BridgeAssumption DEF Init, LockHeld

LEMMA LockStep ==
  ASSUME TypeOK, LockHeld, FlushRunsAlone, [Next]_vars
  PROVE  LockHeld'
<1>a. at \in [Caller -> Place] /\ Flusher \in Caller /\ Request \subseteq Caller
  BY DEF TypeOK, Caller
<1>1. CASE UNCHANGED vars
  BY <1>1 DEF vars, assembly, LockHeld
<1>2. ASSUME NEW r \in Request, Receive(r)
      PROVE  LockHeld'
  BY <1>2, <1>a, ReceiveStays DEF LockHeld
<1>3. ASSUME NEW c \in Caller, Assemble(c)
      PROVE  LockHeld'
  <2>1. \A d \in Caller : None # d
    BY BridgeAssumption
  <2>2. CASE Lock(c)
    BY <1>a, <2>1, <2>2 DEF LockHeld, Lock, Go
  <2>3. CASE Finish(c) \/ Refuse(c) \/ WriteFail(c)
    BY <1>a, <2>1, <2>3 DEF LockHeld, Finish, Refuse, WriteFail, Unlock, Go
  <2>4. CASE StartWrite(c) \/ WriteOK(c)
    BY <1>a, <2>4 DEF LockHeld, StartWrite, WriteOK, Go, assembly
  <2> QED
    BY <1>3, <2>2, <2>3, <2>4 DEF Assemble
<1>4. CASE Flush
  <2>1. at[Flusher] = "idle"
    BY <1>4 DEF Flush, FlushRunsAlone
  <2> QED
    BY <1>4, <1>a, <2>1 DEF Flush, Go, LockHeld, assembly
<1>5. CASE Signal \/ ListenerFails \/ Deadline \/ GracefulStop
  BY <1>5 DEF Signal, ListenerFails, Deadline, GracefulStop, assembly, LockHeld
<1>6. CASE EndHTTPDrain \/ EndGRPCDrain \/ ForceGRPC \/ EndForced \/ EndFlush \/ FinalizeShutdown \/ Exit
  BY <1>6 DEF EndHTTPDrain, EndGRPCDrain, ForceGRPC, EndForced, EndFlush, FinalizeShutdown, Exit,
              assembly, LockHeld
<1> QED
  BY <1>1, <1>2, <1>3, <1>4, <1>5, <1>6 DEF Next, Shutdown

------------------------------------------------------------------------------
(* main leaves the requests where they are and the assembler's store alone.   *)
LEMMA MainAside ==
  ASSUME TypeOK, Signal \/ ListenerFails \/ Deadline \/ GracefulStop \/ Shutdown
  PROVE  /\ \A r \in Request : at'[r] = at[r]
         /\ UNCHANGED <<store, attempt, unread, success, assembly>>
<1>1. CASE Signal \/ ListenerFails \/ Deadline \/ GracefulStop
  BY <1>1 DEF Signal, ListenerFails, Deadline, GracefulStop, traffic
<1>2. CASE Flush
  <2>1. at \in [Caller -> Place] /\ Flusher \notin Request /\ Request \subseteq Caller
    BY BridgeAssumption DEF TypeOK, Caller
  <2> QED
    BY <1>2, <2>1 DEF Flush, Go, traffic
<1>3. CASE EndHTTPDrain \/ EndGRPCDrain \/ ForceGRPC \/ EndForced \/ EndFlush \/ FinalizeShutdown \/ Exit
  BY <1>3 DEF EndHTTPDrain, EndGRPCDrain, ForceGRPC, EndForced, EndFlush, FinalizeShutdown, Exit, traffic
<1> QED
  BY <1>1, <1>2, <1>3 DEF Shutdown

LEMMA HeldStep ==
  ASSUME TypeOK, [Next]_vars
  PROVE  L!Held \subseteq L!Held'
<1>1. CASE UNCHANGED store
  BY <1>1 DEF store, L!Held, L!InRecords
<1>2. ASSUME NEW r \in Request, Receive(r)
      PROVE  L!Held \subseteq L!Held'
  <2>1. CASE Consume(r)
    BY <2>1, OfferHolds DEF Consume
  <2>2. CASE Arrive(r) \/ Reject(r) \/ EndConsume(r) \/ Answer(r) \/ GiveUp(r)
    BY <1>1, <2>2 DEF Arrive, Reject, EndConsume, Answer, GiveUp
  <2> QED
    BY <1>2, <2>1, <2>2 DEF Receive
<1>3. ASSUME NEW c \in Caller, Assemble(c)
      PROVE  L!Held \subseteq L!Held'
  <2>1. CASE WriteOK(c)
    BY <2>1, TypeWrite
  <2>2. CASE Lock(c) \/ Finish(c) \/ Refuse(c) \/ StartWrite(c) \/ WriteFail(c)
    BY <1>1, <2>2 DEF Lock, Finish, Refuse, StartWrite, WriteFail
  <2> QED
    BY <1>3, <2>1, <2>2 DEF Assemble
<1>4. CASE UNCHANGED vars
  BY <1>1, <1>4 DEF vars
<1> QED
  BY <1>1, <1>2, <1>3, <1>4, MainAside DEF Next


------------------------------------------------------------------------------
(* What the handlers have handed over.                                        *)
LEMMA HandedInit == Init => HandedOver
BY BridgeAssumption DEF Init, HandedOver, Handling, Caller

LEMMA GivenStep ==
  ASSUME TypeOK, [Next]_vars, NEW r, NEW n, Given(r, n)
  PROVE  Given(r, n)'
BY HeldStep DEF Given

LEMMA HandedReceive ==
  ASSUME TypeOK, HandedOver, [Next]_vars, NEW r \in Request, Receive(r)
  PROVE  HandedOver'
<1> DEFINE Handed(q) ==
      /\ at[q] # "idle" => attempt[q] > 0
      /\ at[q] = "consume" => \A k \in Sent(q) : k \in unread[q] \/ <<q, attempt[q], k>> \in L!Held
      /\ at[q] \in (Handling \cup {"accepted", "failed"}) \ {"consume"} => Given(q, attempt[q])
<1>a. /\ at \in [Caller -> Place] /\ Request \subseteq Caller /\ r \in Caller
      /\ attempt \in [Request -> 0 .. MaxAttempts] /\ unread \in [Request -> SUBSET Key]
  BY DEF TypeOK, Caller
<1>b. L!Held \subseteq L!Held'
  BY HeldStep
<1>1. \A q \in Request \ {r} : at'[q] = at[q] /\ attempt'[q] = attempt[q] /\ unread'[q] = unread[q]
  <2>1. \A q \in Request \ {r} : attempt'[q] = attempt[q] /\ unread'[q] = unread[q]
    BY <1>a DEF Receive, Arrive, Reject, Consume, EndConsume, Answer, GiveUp, traffic
  <2> QED
    BY <1>a, <2>1, ReceiveStays
<1>2. \A q \in Request \ {r} : Handed(q)'
  BY <1>1, <1>b DEF HandedOver, Given
<1>3. Handed(r)'
  <2>1. CASE Arrive(r)
    <3>1. /\ at'[r] = "consume" /\ unread'[r] = Flatten(Body[r]) /\ attempt'[r] = attempt[r] + 1
      BY <1>a, <2>1 DEF Arrive, Go
    <3>2. attempt'[r] > 0
      BY <1>a, <3>1, BridgeAssumption
    <3> QED
      BY <3>1, <3>2, FlattenSent DEF Handling
  <2>2. CASE Reject(r)
    BY <1>a, <2>2 DEF Reject, Go, traffic, HandedOver, Handling
  <2>3. CASE Consume(r)
    <3>1. PICK k \in unread[r] : /\ L!Offer(<<r, attempt[r], k>>)
                                 /\ unread' = [unread EXCEPT ![r] = @ \ {k}]
      BY <2>3 DEF Consume
    <3>2. <<r, attempt[r], k>> \in L!Held'
      BY <3>1, OfferHolds
    <3>3. at'[r] = "consume" /\ attempt'[r] = attempt[r] /\ unread'[r] = unread[r] \ {k}
      BY <1>a, <2>3, <3>1 DEF Consume
    <3>4. \A j \in Sent(r) : j \in unread[r] \/ <<r, attempt[r], j>> \in L!Held
      BY <2>3 DEF Consume, HandedOver
    <3>5. \A j \in Sent(r) : j \in unread'[r] \/ <<r, attempt'[r], j>> \in L!Held'
      BY <1>b, <3>2, <3>3, <3>4
    <3>6. attempt'[r] > 0
      BY <2>3, <3>3 DEF Consume, HandedOver
    <3> QED
      BY <3>3, <3>5, <3>6
  <2>4. CASE EndConsume(r)
    <3>1. at'[r] = "expire" /\ attempt'[r] = attempt[r]
      BY <1>a, <2>4 DEF EndConsume, Go, traffic
    <3>2. Given(r, attempt[r]) /\ attempt[r] > 0
      BY <2>4 DEF EndConsume, HandedOver, Given
    <3> QED
      BY <1>b, <3>1, <3>2 DEF Given
  <2>5. CASE Answer(r)
    <3>1. at'[r] \in {"cut", "accepted", "failed"} /\ attempt'[r] = attempt[r]
      BY <1>a, <2>5 DEF Answer, Go
    <3>2. Given(r, attempt[r]) /\ attempt[r] > 0
      BY <2>5 DEF Answer, HandedOver, Handling
    <3> QED
      BY <1>b, <3>1, <3>2 DEF Given
  <2>6. CASE GiveUp(r)
    BY <1>b, <2>6 DEF GiveUp, HandedOver, Given
  <2> QED
    BY <2>1, <2>2, <2>3, <2>4, <2>5, <2>6 DEF Receive
<1>4. \A t \in success' : Given(t[1], t[2])'
  <2>1. CASE Answer(r)
    <3>1. \A t \in success' : t \in success \/ (t = <<r, attempt[r]>> /\ at[r] = "ok")
      BY <2>1 DEF Answer
    <3>2. at[r] = "ok" => Given(r, attempt[r])
      BY DEF HandedOver, Handling
    <3>3. ASSUME NEW t \in success'
          PROVE  \A k \in Sent(t[1]) : <<t[1], t[2], k>> \in L!Held'
      <4>1. CASE t \in success
        BY <4>1, <1>b DEF HandedOver, Given
      <4>2. CASE t = <<r, attempt[r]>> /\ at[r] = "ok"
        <5>1. t[1] = r /\ t[2] = attempt[r]
          BY <4>2
        <5> QED
          BY <4>2, <5>1, <1>b, <3>2 DEF Given
      <4> QED
        BY <3>1, <4>1, <4>2
    <3> QED
      BY <3>3 DEF Given
  <2>2. CASE ~Answer(r)
    <3>1. success' = success
      BY <2>2 DEF Receive, Arrive, Reject, Consume, EndConsume, GiveUp, traffic
    <3> QED
      BY <1>b, <3>1 DEF HandedOver, Given
  <2> QED
    BY <2>1, <2>2
<1> QED
  BY <1>2, <1>3, <1>4 DEF HandedOver

LEMMA HandedStep ==
  ASSUME TypeOK, HandedOver, [Next]_vars
  PROVE  HandedOver'
<1>a. L!Held \subseteq L!Held'
  BY HeldStep
<1>1. CASE /\ \A r \in Request : at'[r] = at[r]
           /\ UNCHANGED <<attempt, unread, success>>
  BY <1>1, <1>a DEF HandedOver, Given
<1>2. ASSUME NEW c \in Caller, Assemble(c)
      PROVE  HandedOver'
  <2>1. /\ \A d \in Caller \ {c} : at'[d] = at[d]
        /\ at[c] \in {"expire", "assemble", "write"}
        /\ at'[c] \in {"assemble", "write", "ok", "err"}
        /\ UNCHANGED <<attempt, unread, success>>
    BY <1>2, AssembleMoves DEF traffic
  <2>2. CASE c \in Request
    <3>1. Given(c, attempt[c]) /\ attempt[c] > 0
      BY <2>1, <2>2 DEF HandedOver, Handling
    <3> QED
      BY <1>a, <2>1, <2>2, <3>1 DEF HandedOver, Given, Caller
  <2>3. CASE c \notin Request
    BY <1>1, <2>1, <2>3 DEF Caller
  <2> QED
    BY <2>2, <2>3
<1>3. CASE UNCHANGED vars
  BY <1>1, <1>3 DEF vars, traffic
<1> QED
  BY <1>1, <1>2, <1>3, HandedReceive, MainAside DEF Next

------------------------------------------------------------------------------
(* The budget.                                                                *)
LEMMA BudgetInit == Init => BudgetSpent
BY DEF Init, BudgetSpent

LEMMA BudgetStep ==
  ASSUME TypeOK, BudgetSpent, [Next]_vars
  PROVE  BudgetSpent'
<1>a. at \in [Caller -> Place] /\ Request \subseteq Caller /\ HTTP \subseteq Request /\ GRPC \subseteq Request
  BY DEF TypeOK, Caller, Request
<1>1. CASE UNCHANGED vars
  BY <1>1 DEF vars, main, BudgetSpent, Active
<1>2. ASSUME NEW r \in Request, Receive(r)
      PROVE  BudgetSpent'
  <2>1. UNCHANGED main /\ \A q \in Request \ {r} : at'[q] = at[q]
    BY <1>2, <1>a, ReceiveStays
  <2>2. CASE Arrive(r)
    <3>1. CASE r \in HTTP
      <4>1. phase = "serving" /\ r \notin GRPC
        BY <2>2, <3>1, BridgeAssumption DEF Arrive
      <4>2. Active(GRPC)' = Active(GRPC)
        BY <1>a, <2>1, <4>1 DEF Active
      <4> QED
        BY <2>1, <4>1, <4>2 DEF BudgetSpent, main
    <3>2. CASE r \in GRPC
      <4>1. grpc = "serving" /\ r \notin HTTP
        BY <2>2, <3>2, BridgeAssumption DEF Arrive
      <4>2. Active(HTTP)' = Active(HTTP)
        BY <1>a, <2>1, <4>1 DEF Active
      <4> QED
        BY <2>1, <4>1, <4>2 DEF BudgetSpent, main
    <3> QED
      BY <3>1, <3>2 DEF Request
  <2>3. CASE ~Arrive(r)
    <3>1. at[r] \in Handling
      BY <1>2, <2>3 DEF Receive, Reject, Consume, EndConsume, Answer, GiveUp, Handling, Active
    <3> QED
      BY <1>a, <2>1, <3>1 DEF BudgetSpent, main, Active
  <2> QED
    BY <2>2, <2>3
<1>3. ASSUME NEW c \in Caller, Assemble(c)
      PROVE  BudgetSpent'
  BY <1>3, <1>a, AssembleMoves DEF BudgetSpent, main, Active, Handling
<1>4. CASE Signal \/ ListenerFails \/ Deadline \/ GracefulStop \/ Shutdown
  <2>a. \A S \in {HTTP, GRPC} : Active(S)' = Active(S)
    BY <1>4, <1>a, MainAside DEF Active
  <2>1. CASE Signal \/ ListenerFails \/ Deadline
    BY <2>a, <2>1 DEF Signal, ListenerFails, Deadline, BudgetSpent
  <2>2. CASE GracefulStop
    BY <2>a, <2>2 DEF GracefulStop, BudgetSpent, TypeOK
  <2>3. CASE EndHTTPDrain
    BY <2>a, <2>3 DEF EndHTTPDrain, DrainsHTTP, BudgetSpent
  <2>4. CASE EndGRPCDrain \/ EndForced
    BY <2>a, <2>4 DEF EndGRPCDrain, EndForced, BudgetSpent
  <2>5. CASE ForceGRPC
    BY <2>a, <2>5 DEF ForceGRPC, Stop, BudgetSpent
  <2>6. CASE Flush \/ EndFlush \/ FinalizeShutdown \/ Exit
    BY <2>a, <2>6 DEF Flush, EndFlush, FinalizeShutdown, Exit, BudgetSpent
  <2> QED
    BY <1>4, <2>1, <2>2, <2>3, <2>4, <2>5, <2>6 DEF Shutdown
<1> QED
  BY <1>1, <1>2, <1>3, <1>4 DEF Next


------------------------------------------------------------------------------
(* The flush.                                                                 *)
LEMMA AloneInit == Init => FlushRunsAlone
BY DEF Init, FlushRunsAlone, Caller

(* While a flush is under way, or after it, no request arrives or is active.   *)
LEMMA NoReceive ==
  ASSUME FlushRunsAlone, at[Flusher] # "idle", NEW r \in Request
  PROVE  ~Receive(r)
<1>1. phase # "serving" /\ grpc # "serving" /\ at[r] \notin Handling
  BY DEF FlushRunsAlone, Active
<1>2. r \in HTTP \/ r \in GRPC
  BY DEF Request
<1> QED
  BY <1>1, <1>2 DEF Receive, Arrive, Reject, Consume, EndConsume, Answer, GiveUp, Active, Handling

(* What the flush snapshots: a key that is not chained is claimed by nobody, or  *)
(* goes with a client span that is claimed by nobody.                           *)
LEMMA FlushTakesAll ==
  ASSUME TypeOK, NEW S \in Snapshots(Flusher)
  PROVE  L!Under(waiting, Key \ Chained) \subseteq S
<1>1. PICK K \in Assembled(Flusher) : S = L!Under(waiting, K \cup {Names(k, waiting) : k \in K})
  BY DEF Snapshots
<1>2. \A k \in Key : Claimants(k, waiting) = {} => k \in K
  BY <1>1 DEF Assembled
<1>3. ASSUME NEW k \in Key \ Chained
      PROVE  k \in K \cup {Names(j, waiting) : j \in K}
  <2>1. CASE Claimants(k, waiting) = {}
    BY <1>2, <2>1
  <2>2. CASE Claimants(k, waiting) # {}
    <3>1. PICK child \in Key \ {k} : Names(child, waiting) = k
      BY <2>2 DEF Claimants
    <3>2. Parent[child] = k
      BY <3>1, BridgeAssumption DEF Names
    <3>3. ASSUME NEW other \in Key \ {child}, Names(other, waiting) = child
          PROVE  FALSE
      <4>1. Parent[other] = child
        BY <3>3, BridgeAssumption DEF Names
      <4> QED
        BY <3>1, <3>2, <4>1 DEF Chained
    <3>4. child \in K
      BY <1>2, <3>3 DEF Claimants
    <3> QED
      BY <3>1, <3>4
  <2> QED
    BY <2>1, <2>2
<1> QED
  BY <1>1, <1>3 DEF L!Under

LEMMA AloneAssemble ==
  ASSUME TypeOK, FlushRunsAlone, NEW c \in Caller, Assemble(c)
  PROVE  FlushRunsAlone'
<1>a. /\ at \in [Caller -> Place] /\ Flusher \in Caller /\ Flusher \notin Request /\ Request \subseteq Caller
      /\ c = Flusher \/ c \in Request
  BY BridgeAssumption DEF TypeOK, Caller
<1>1. CASE c \in Request
  <2>1. at[c] \in Handling
    BY <1>1, AssembleMoves DEF Handling
  <2>2. at[Flusher] = "idle"
    BY <1>1, <2>1 DEF FlushRunsAlone, Active
  <2>3. at'[Flusher] = "idle"
    BY <1>a, <1>1, <2>2, AssembleMoves
  <2> QED
    BY <2>3 DEF FlushRunsAlone
<1>2. CASE c = Flusher
  <2>1. /\ at[Flusher] \in {"expire", "assemble", "write"}
        /\ at'[Flusher] \in {"assemble", "write", "ok", "err"}
        /\ UNCHANGED main /\ \A r \in Request : at'[r] = at[r]
    BY <1>a, <1>2, AssembleMoves
  <2>2. /\ phase' \in {"flushing", "finalize", "report", "exited"} /\ grpc' # "serving"
        /\ Active(Request)' = {}
    BY <2>1 DEF FlushRunsAlone, main, Active
  <2>3. at'[Flusher] \in {"assemble", "write"} => L!Under(waiting', Key \ Chained) \subseteq batch'
    <3>1. CASE Lock(c)
      BY <1>2, <3>1, FlushTakesAll DEF Lock, store
    <3>2. CASE StartWrite(c)
      BY <1>2, <3>2 DEF StartWrite, FlushRunsAlone, store, assembly
    <3>3. CASE WriteOK(c)
      <4>1. L!Under(waiting, Key \ Chained) \subseteq batch
        BY <1>2, <3>3 DEF WriteOK, FlushRunsAlone
      <4> QED
        BY <3>3, <4>1, TypeWrite DEF L!Under
    <3>4. CASE Finish(c) \/ Refuse(c) \/ WriteFail(c)
      BY <1>a, <1>2, <3>4 DEF Finish, Refuse, WriteFail, Unlock, Go
    <3> QED
      BY <3>1, <3>2, <3>3, <3>4 DEF Assemble
  <2>4. at'[Flusher] = "ok" => L!Under(waiting', Key \ Chained) = {}
    <3>1. CASE Finish(c)
      BY <1>2, <3>1 DEF Finish, FlushRunsAlone, store
    <3>2. CASE Lock(c) \/ Refuse(c) \/ StartWrite(c) \/ WriteOK(c) \/ WriteFail(c)
      BY <1>a, <1>2, <3>2 DEF Lock, Refuse, StartWrite, WriteOK, WriteFail, Unlock, Go
    <3> QED
      BY <3>1, <3>2 DEF Assemble
  <2> QED
    BY <2>1, <2>2, <2>3, <2>4 DEF FlushRunsAlone
<1> QED
  BY <1>a, <1>1, <1>2

LEMMA AloneStep ==
  ASSUME TypeOK, BudgetSpent, FlushRunsAlone, [Next]_vars
  PROVE  FlushRunsAlone'
<1>a. at \in [Caller -> Place] /\ Flusher \in Caller /\ Flusher \notin Request /\ Request \subseteq Caller
  BY BridgeAssumption DEF TypeOK, Caller
<1>1. CASE UNCHANGED vars
  BY <1>1 DEF vars, store, assembly, main, FlushRunsAlone, Active
<1>2. ASSUME NEW r \in Request, Receive(r)
      PROVE  FlushRunsAlone'
  <2>1. at[Flusher] = "idle"
    BY <1>2, NoReceive
  <2>2. at'[Flusher] = "idle"
    BY <1>2, <1>a, <2>1, ReceiveStays
  <2> QED
    BY <2>2 DEF FlushRunsAlone
<1>3. CASE Signal \/ ListenerFails \/ Deadline \/ GracefulStop \/ Shutdown
  <2>a. Active(Request)' = Active(Request) /\ waiting' = waiting /\ batch' = batch
    BY <1>3, MainAside DEF Active, store, assembly
  <2>1. CASE Signal \/ ListenerFails \/ Deadline \/ GracefulStop
    BY <2>a, <2>1 DEF Signal, ListenerFails, Deadline, GracefulStop, FlushRunsAlone
  <2>2. CASE Flush
    <3>1. /\ phase' = "flushing" /\ at'[Flusher] = "expire" /\ grpc' = grpc
      BY <1>a, <2>2 DEF Flush, Go
    <3>2. Active(HTTP) = {} /\ Active(GRPC) = {} /\ grpc # "serving"
      BY <2>2 DEF Flush, BudgetSpent
    <3>3. Active(Request) = {}
      BY <3>2 DEF Active, Request
    <3> QED
      BY <2>a, <3>1, <3>2, <3>3 DEF FlushRunsAlone
  <2>3. CASE EndHTTPDrain \/ EndGRPCDrain \/ ForceGRPC \/ EndForced
    BY <2>a, <2>3 DEF EndHTTPDrain, EndGRPCDrain, ForceGRPC, EndForced, FlushRunsAlone
  <2>4. CASE EndFlush \/ FinalizeShutdown \/ Exit
    BY <2>a, <2>4 DEF EndFlush, FinalizeShutdown, Exit, FlushRunsAlone
  <2> QED
    BY <1>3, <2>1, <2>2, <2>3, <2>4 DEF Shutdown
<1> QED
  BY <1>1, <1>2, <1>3, AloneAssemble DEF Next

LEMMA DecidesInit == Init => FlushDecides
BY BridgeAssumption DEF Init, FlushDecides

LEMMA DecidesStep ==
  ASSUME TypeOK, FlushRunsAlone, FlushDecides, BudgetSpent, [Next]_vars
  PROVE  FlushDecides'
<1>a. at \in [Caller -> Place] /\ Flusher \in Caller /\ Flusher \notin Request /\ Request \subseteq Caller
  BY BridgeAssumption DEF TypeOK, Caller
<1>b. result \in [{"httpErr", "flushErr", "closeErr", "grpcForced", "flushTimedOut"} -> BOOLEAN]
  BY DEF TypeOK
<1>1. CASE UNCHANGED vars
  BY <1>1 DEF vars, main, FlushDecides
<1>2. ASSUME NEW r \in Request, Receive(r)
      PROVE  FlushDecides'
  <2>1. UNCHANGED main /\ at'[Flusher] = at[Flusher]
    BY <1>2, <1>a, ReceiveStays
  <2> QED
    BY <2>1 DEF FlushDecides, main
<1>3. ASSUME NEW c \in Caller, Assemble(c)
      PROVE  FlushDecides'
  <2>1. UNCHANGED main
    BY <1>3, AssembleMoves
  <2>2. CASE c # Flusher
    <3>1. at'[Flusher] = at[Flusher]
      BY <1>3, <1>a, <2>2, AssembleMoves
    <3> QED
      BY <2>1, <3>1 DEF FlushDecides, main
  <2>3. CASE c = Flusher
    <3>1. at[Flusher] \notin {"idle", "ok", "err"} /\ at'[Flusher] # "idle"
      BY <1>3, <2>3, AssembleMoves
    <3> QED
      BY <2>1, <3>1 DEF FlushDecides, main
  <2> QED
    BY <2>2, <2>3
<1>4. CASE Signal \/ ListenerFails \/ Deadline \/ GracefulStop
  BY <1>4 DEF Signal, ListenerFails, Deadline, GracefulStop, FlushDecides, FlushRunsAlone
<1>5. CASE EndHTTPDrain \/ EndGRPCDrain \/ ForceGRPC \/ EndForced
  BY <1>5 DEF EndHTTPDrain, EndGRPCDrain, ForceGRPC, EndForced, FlushDecides
<1>6. CASE Flush
  <2>1. at'[Flusher] = "expire" /\ phase' = "flushing" /\ UNCHANGED <<sinkOpen, result, code>>
    BY <1>a, <1>6 DEF Flush, Go
  <2> QED
    BY <1>6, <2>1 DEF Flush, FlushDecides
<1>7. CASE EndFlush
  <2>a. phase' = "finalize" /\ at' = at /\ sinkOpen' = sinkOpen /\ code' = code /\ phase \in {"flush", "flushing"}
    BY <1>7 DEF EndFlush, FlushReturns, FlushTimesOut
  <2>b. sinkOpen /\ code # 0
    BY <2>a DEF FlushDecides, TypeOK
  <2>1. CASE FlushTimesOut
    <3>1. result'.flushTimedOut /\ result'.flushErr
      BY <1>b, <2>1 DEF FlushTimesOut, Fail
    <3> QED
      BY <2>a, <2>b, <3>1 DEF FlushDecides
  <2>2. CASE FlushReturns
    <3>1. /\ at[Flusher] \in {"ok", "err"}
          /\ at[Flusher] = "err" => result'.flushErr
      BY <1>b, <2>2 DEF FlushReturns, Fail
    <3> QED
      BY <2>a, <2>b, <3>1 DEF FlushDecides
  <2> QED
    BY <1>7, <2>1, <2>2 DEF EndFlush
<1>8. CASE FinalizeShutdown
  <2>1. result'.flushErr = result.flushErr
    BY <1>8, <1>b DEF FinalizeShutdown, Fail
  <2>2. ~sinkOpen' => at[Flusher] \in {"ok", "err"}
    BY <1>8 DEF FinalizeShutdown, FlushDecides
  <2>3. phase = "finalize" /\ phase' = "report" /\ at' = at /\ code' = code
    BY <1>8 DEF FinalizeShutdown
  <2> QED
    BY <2>1, <2>2, <2>3 DEF FlushDecides
<1>9. CASE Exit
  <2>1. code' = 0 => ~result.flushErr
    BY <1>9 DEF Exit, ExitCode
  <2> QED
    BY <1>9, <2>1 DEF Exit, FlushDecides
<1> QED
  BY <1>1, <1>2, <1>3, <1>4, <1>5, <1>6, <1>7, <1>8, <1>9 DEF Next, Shutdown

------------------------------------------------------------------------------
(* The invariant is inductive: the lock, what was handed over, the budget and   *)
(* the flush hold each other up, through every interleaving of handlers, drains *)
(* and flush.                                                                 *)
THEOREM BridgeInductive == Spec => []ProcessInv
<1>1. Init => ProcessInv
  BY TypeInit, LockInit, HandedInit, BudgetInit, AloneInit, DecidesInit DEF ProcessInv
<1>2. ProcessInv /\ [Next]_vars => ProcessInv'
  BY TypeStep, LockStep, HandedStep, BudgetStep, AloneStep, DecidesStep DEF ProcessInv
<1> QED
  BY <1>1, <1>2, PTL DEF Spec

(* Whatever a request was answered, 202 or an error, the assembler has its     *)
(* signals: main.go and handler.go never answer for signals that were not taken. *)
THEOREM AnswersAreHonest == Spec => []AnsweredMeansTaken
<1>1. ProcessInv => AnsweredMeansTaken
  BY DEF ProcessInv, HandedOver, Given, AnsweredMeansTaken
<1> QED
  BY <1>1, BridgeInductive, PTL

(* The file is closed behind the last write, whatever timed out before.        *)
THEOREM ClosedInOrder == Spec => []CloseBehindTheLastWrite
<1>1. ASSUME ProcessInv, ~sinkOpen
      PROVE  assembleMu = None /\ Active(Request) = {} /\ at[Flusher] \in {"ok", "err"}
  <2>1. at[Flusher] \in {"ok", "err"} /\ Active(Request) = {}
    BY <1>1 DEF ProcessInv, FlushDecides, FlushRunsAlone
  <2>2. \A c \in Caller : at[c] \notin {"assemble", "write"}
    BY <2>1 DEF Caller, Active, Handling
  <2>3. assembleMu = None
    BY <1>1, <2>2 DEF ProcessInv, LockHeld, TypeOK
  <2> QED
    BY <2>1, <2>3
<1>2. ProcessInv => CloseBehindTheLastWrite
  BY <1>1 DEF CloseBehindTheLastWrite
<1> QED
  BY <1>2, BridgeInductive, PTL

(* An exit code of 0 means that nobody was left without an answer, and that      *)
(* every signal that was answered for is recorded or counted late, but for what  *)
(* is buffered under the end of a chain, where the flush leaves it.             *)
THEOREM ExitZeroIsEarned == Spec => []ExitZeroMeansRecorded
<1>1. ASSUME ProcessInv, code = 0
      PROVE  L!Under(waiting, Key \ Chained) = {} /\ Active(Request) = {}
  BY <1>1 DEF ProcessInv, FlushDecides, FlushRunsAlone
<1>2. ASSUME ProcessInv, code = 0, NEW t \in success, NEW k \in Key \ Chained, k \in Sent(t[1])
      PROVE  <<t[1], t[2], k>> \in late \cup L!InRecords
  <2>1. <<t[1], t[2], k>> \in L!Held
    BY <1>2 DEF ProcessInv, HandedOver, Given
  <2>2. <<t[1], t[2], k>> \notin waiting
    <3>1. waiting \subseteq Item /\ L!Under(waiting, Key \ Chained) = {}
      BY <1>1, <1>2 DEF ProcessInv, TypeOK
    <3>2. \A i \in waiting : i[3] \notin Key \ Chained
      BY <3>1 DEF L!Under
    <3>3. <<t[1], t[2], k>>[3] = k
      OBVIOUS
    <3> QED
      BY <3>2, <3>3
  <2> QED
    BY <2>1, <2>2 DEF L!Held
<1>3. ProcessInv => ExitZeroMeansRecorded
  BY <1>1, <1>2 DEF ExitZeroMeansRecorded
<1> QED
  BY <1>3, BridgeInductive, PTL

(* Where no client span is under another one, as in the telemetry of one call    *)
(* that assemble is written for (processor.go:236-241), an exit code of 0 leaves *)
(* nothing in the buffer at all.                                                *)
THEOREM ExitZeroLeavesNothing ==
  ASSUME Chained = {}
  PROVE  Spec => [](code = 0 => waiting = {})
<1>1. ProcessInv => (code = 0 => waiting = {})
  <2> SUFFICES ASSUME ProcessInv, code = 0
               PROVE  waiting = {}
    OBVIOUS
  <2>1. L!Under(waiting, Key) = {} /\ waiting \subseteq Item
    BY DEF ProcessInv, FlushDecides, FlushRunsAlone, TypeOK
  <2> QED
    BY <2>1 DEF L!Under, Item
<1> QED
  BY <1>1, BridgeInductive, PTL

==============================================================================
